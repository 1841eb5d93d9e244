---------------------------- MODULE DispatchProofs ----------------------------
(***************************************************************************)
(* Theorems about Dispatch for every buffer, batch and transfer size and   *)
(* every payload byte, checked by TLAPS: the three readers of the stream   *)
(* keep the frame the host sends in, and the device is the CommandServer   *)
(* it is meant to be.  They assume that no reset and enumeration fit       *)
(* inside one wait of the loop; the run MCDispatchReset shows what happens *)
(* otherwise.                                                              *)
(***************************************************************************)
EXTENDS Dispatch, TLAPS

(* Commands as a host frames them, and their bytes. *)
Command ==
  {c \in [id : Nat, op : Nat, n : Nat] :
     /\ c.op \in {CMD_SET_SIZE} \cup PayloadOps \cup ReadOps \cup PlainOps
     /\ c.op = CMD_SET_SIZE => c.n \in Sizes
     /\ c.op \in SizedOps => c.n > 0}

ByteOf ==
  {b \in [c : Command, i : Nat] : b.i \in 1..SentLength(b.c)}

(* A stream is cut into commands: around each of its bytes stand the others *)
(* of the same command, as far as they are there, and after the last one    *)
(* begins another command.                                                  *)
Framed(s) ==
  /\ \A k, m \in 1..Len(s) :
       s[k].i + (m - k) \in 1..SentLength(s[k].c) =>
         s[m].c = s[k].c /\ s[m].i = s[k].i + (m - k)
  /\ \A k \in 1..Len(s) - 1 :
       s[k].i = SentLength(s[k].c) => s[k + 1].i = 1

(* The latest SET_SIZE before position k is at j; at 0 it is behind us. *)
Sets(s, j) == s[j].c.op = CMD_SET_SIZE

Governs(s, j, k) ==
  /\ j = 0 \/ Sets(s, j)
  /\ \A m \in j + 1..k - 1 : ~Sets(s, m)

SizeFrom(s, z, j) == IF j = 0 THEN z ELSE s[j].c.n

(* With z in force at the head of the stream, a payload is as long as the   *)
(* device will think it is.                                                 *)
Sized(s, z) ==
  \A k \in 1..Len(s) : s[k].c.op \in SizedOps =>
    \A j \in 0..k - 1 : Governs(s, j, k) => s[k].c.n = SizeFrom(s, z, j)

(* ... and h is the size in force behind its end. *)
SizedAfter(s, z, h) ==
  \A j \in 0..Len(s) : Governs(s, j, Len(s) + 1) => h = SizeFrom(s, z, j)

(* What the parser keeps of a command that is not complete. *)
ParserShape ==
  /\ P \in [op : Nat, need : 0..2, got : 0..2, arg : Nat,
            pay_need : Nat, pay_got : Nat, pay_over : BOOLEAN]
  /\ Idle => P = ParserReset
  /\ P.op # 0 /\ P.pay_need = 0 => P.need = SentArgs(P.op) /\ P.got < P.need
  /\ P.pay_need # 0 => P.op # 0 /\ P.pay_got < P.pay_need

LkShape ==
  /\ lk \in [header : 0..2, want : Nat, refused : BOOLEAN]
  /\ lk.header > 0 => lk.want = 0
  /\ pc # "lk" => lk = NoLk
  /\ pc = "lk" => Idle

(* A command is open: more of its bytes are to come. *)
Open == IF pc = "lk" THEN lk.header + lk.want > 0 ELSE P.op # 0

(* The byte a reader with an open command takes next. *)
ParserTakes(b) ==
  /\ b.c.op = P.op
  /\ IF P.pay_need = 0 THEN b.i = 2 + P.got
     ELSE /\ P.pay_need = SentPayload(b.c)
          /\ b.i = 2 + SentArgs(P.op) + P.pay_got

LkTakes(b) ==
  IF lk.header > 0 THEN b.c.op = CMD_BATCH /\ b.i + lk.header = 4
  ELSE b.c.op \in PayloadOps /\ b.i + lk.want = 1 + SentLength(b.c)

HeadIsExpected ==
  Rest # <<>> =>
    IF Open
      THEN /\ \A x \in parts : x = Rest[1].c.id
           /\ IF pc = "lk" THEN LkTakes(Rest[1]) ELSE ParserTakes(Rest[1])
      ELSE Rest[1].i = 1

(* A host that is there sends its commands whole. *)
SentWhole ==
  alive => IF Rest = <<>> THEN ~Open
           ELSE Rest[Len(Rest)].i = SentLength(Rest[Len(Rest)].c)

StreamInv ==
  /\ batch \in Seq(ByteOf) /\ wire \in Seq(ByteOf)
  /\ Framed(Rest)
  /\ Sized(Rest, transfer_size)
  /\ alive /\ host_size # 0 => SizedAfter(Rest, transfer_size, host_size)
  /\ HeadIsExpected
  /\ SentWhole

(* When the device may be at rest, and what it has noticed by then. *)
Empty == Idle /\ wire = <<>> /\ pc \in {"top", "rx"} /\ ~stale

SessionInv ==
  /\ pc \in {"top", "rx", "wait"} => batch = <<>>
  /\ ~was_configured => Empty
  /\ ~configured => ~alive /\ wire = <<>>
  /\ stale => ~alive /\ wire = <<>>
  /\ away # "no" => ~alive
  /\ away = "noticed" => Empty
  /\ away = "long" => wire = <<>> /\ (moved \/ stale \/ Idle)

HostDataOK == sent \in Nat /\ host_size \in {0} \cup Sizes

IInv ==
  /\ TypeOK /\ NoMixedCommand
  /\ ParserShape /\ LkShape /\ StreamInv /\ SessionInv /\ HostDataOK

LEMMA Opcodes ==
  /\ CMD_SET_SIZE \notin SizedOps /\ CMD_BATCH \notin SizedOps
  /\ CMD_PING \notin SizedOps /\ CMD_SET_SIZE # CMD_BATCH
  /\ 0 \notin PayloadOps /\ CMD_RESYNC = 0
BY DEF CMD_SET_SIZE, CMD_BATCH, CMD_PING, SizedOps, PayloadOps, CMD_SAVE_WRITE,
  CMD_FLASH_PROGRAM, CMD_RESYNC

-----------------------------------------------------------------------------
(* The vocabulary.                                                          *)

LEMMA ConstantsAre ==
  /\ PayloadMax \in Nat \ {0} /\ TransferMax \in Nat \ {0}
  /\ BatchMax \in Nat \ {0} /\ LkPayloadMax \in Nat \ {0}
  /\ RxMax \in Nat \ {0} /\ PayloadByte \in Nat /\ Window \in Nat
  /\ MaxCmds \in Nat /\ Counts \subseteq Nat
  /\ \A z \in Sizes : z \in Nat /\ 1 <= z /\ z <= TransferMax
BY DispatchAssumption

LEMMA ArgsAre ==
  ASSUME NEW op
  PROVE  /\ SentArgs(op) \in 0..2 /\ ArgLen(op) = SentArgs(op)
         /\ op \in SizedOps => SentArgs(op) = 0
         /\ op = CMD_SET_SIZE => SentArgs(op) = 2
         /\ op = CMD_BATCH => SentArgs(op) = 2
         /\ SentArgs(op) # 0 => op # 0 /\ op \notin SizedOps
BY Opcodes
   DEF SentArgs, ArgLen, SizedOps, CMD_SET_SIZE, CMD_BATCH, CMD_PING,
       CMD_SAVE_WRITE, CMD_FLASH_PROGRAM

LEMMA ByteIs ==
  ASSUME NEW b \in ByteOf
  PROVE  /\ b.c \in Command /\ b.i \in Nat
         /\ 1 <= b.i /\ b.i <= SentLength(b.c)
         /\ b.c.op \in Nat /\ b.c.n \in Nat
         /\ SentPayload(b.c) \in Nat /\ SentArgs(b.c.op) \in 0..2
         /\ SentLength(b.c) = 1 + SentArgs(b.c.op) + SentPayload(b.c)
         /\ SentLength(b.c) \in Nat
<1>1. /\ b.c \in Command /\ b.i \in 1..SentLength(b.c) /\ b.i \in Nat
      /\ b.c \in [id : Nat, op : Nat, n : Nat]
  BY DEF ByteOf, Command
<1>2. b.c.op \in Nat /\ b.c.n \in Nat
  BY <1>1
<1>3. SentPayload(b.c) \in Nat
  BY <1>2 DEF SentPayload
<1>4. SentArgs(b.c.op) \in 0..2
  BY ArgsAre
<1>5. SentLength(b.c) = 1 + SentArgs(b.c.op) + SentPayload(b.c)
  BY DEF SentLength
<1>6. SentLength(b.c) \in Nat
  BY <1>3, <1>4, <1>5
<1> QED BY <1>1, <1>2, <1>3, <1>4, <1>5, <1>6

-----------------------------------------------------------------------------
(* Framed streams, cut at the head, cut at the end, and grown by a command. *)

(* t is s without its first d bytes. *)
Behind(s, t, d) ==
  /\ d \in 0..Len(s)
  /\ Len(t) = Len(s) - d
  /\ \A k \in 1..Len(t) : t[k] = s[k + d]

LEMMA FramedBehind ==
  ASSUME NEW s \in Seq(ByteOf), NEW t \in Seq(ByteOf), NEW d,
         Behind(s, t, d), Framed(s)
  PROVE  Framed(t)
<1> USE DEF Behind
<1>1. ASSUME NEW k \in 1..Len(t), NEW m \in 1..Len(t),
             t[k].i + (m - k) \in 1..SentLength(t[k].c)
      PROVE  t[m].c = t[k].c /\ t[m].i = t[k].i + (m - k)
  <2>1. /\ k + d \in 1..Len(s) /\ m + d \in 1..Len(s)
        /\ (m + d) - (k + d) = m - k
    OBVIOUS
  <2>2. t[k] = s[k + d] /\ t[m] = s[m + d]
    OBVIOUS
  <2> QED BY <1>1, <2>1, <2>2 DEF Framed
<1>2. ASSUME NEW k \in 1..Len(t) - 1, t[k].i = SentLength(t[k].c)
      PROVE  t[k + 1].i = 1
  <2>1. /\ k + d \in 1..Len(s) - 1 /\ (k + 1) + d = (k + d) + 1
        /\ k \in 1..Len(t) /\ k + 1 \in 1..Len(t)
    OBVIOUS
  <2>2. t[k] = s[k + d] /\ t[k + 1] = s[(k + d) + 1]
    BY <2>1
  <2> QED BY <1>2, <2>1, <2>2 DEF Framed
<1> QED BY <1>1, <1>2 DEF Framed

LEMMA FramedBefore ==
  ASSUME NEW s \in Seq(ByteOf), NEW t \in Seq(ByteOf),
         Len(t) <= Len(s), \A k \in 1..Len(t) : t[k] = s[k], Framed(s)
  PROVE  Framed(t)
<1>1. ASSUME NEW k \in 1..Len(t), NEW m \in 1..Len(t),
             t[k].i + (m - k) \in 1..SentLength(t[k].c)
      PROVE  t[m].c = t[k].c /\ t[m].i = t[k].i + (m - k)
  <2>1. k \in 1..Len(s) /\ m \in 1..Len(s)
    OBVIOUS
  <2>2. t[k] = s[k] /\ t[m] = s[m]
    OBVIOUS
  <2> QED BY <1>1, <2>1, <2>2 DEF Framed
<1>2. ASSUME NEW k \in 1..Len(t) - 1, t[k].i = SentLength(t[k].c)
      PROVE  t[k + 1].i = 1
  <2>1. k \in 1..Len(s) - 1 /\ k \in 1..Len(t) /\ k + 1 \in 1..Len(t)
    OBVIOUS
  <2>2. t[k] = s[k] /\ t[k + 1] = s[k + 1]
    BY <2>1
  <2> QED BY <1>2, <2>1, <2>2 DEF Framed
<1> QED BY <1>1, <1>2 DEF Framed

(* The bytes of one command, behind a stream that ends with one. *)
Extends(s, t, c) ==
  /\ Len(t) = Len(s) + SentLength(c)
  /\ \A k \in 1..Len(s) : t[k] = s[k]
  /\ \A k \in 1..SentLength(c) : t[Len(s) + k].c = c /\ t[Len(s) + k].i = k

LEMMA FramedWith ==
  ASSUME NEW s \in Seq(ByteOf), NEW t \in Seq(ByteOf), NEW c \in Command,
         SentLength(c) \in Nat, SentLength(c) >= 1,
         Extends(s, t, c), Framed(s),
         s # <<>> => s[Len(s)].i = SentLength(s[Len(s)].c)
  PROVE  Framed(t)
<1> DEFINE l == Len(s)
           w == SentLength(c)
<1>0. /\ l \in Nat /\ w \in Nat /\ w >= 1 /\ Len(t) = l + w
      /\ \A k \in 1..l : t[k] = s[k] /\ s[k] \in ByteOf
      /\ \A k \in 1..w : t[l + k].c = c /\ t[l + k].i = k
  BY DEF Extends
<1>p. l > 0 => s[l].i = SentLength(s[l].c)
  OBVIOUS
<1>q. /\ \A k, m \in 1..l : s[k].i + (m - k) \in 1..SentLength(s[k].c) =>
                              s[m].c = s[k].c /\ s[m].i = s[k].i + (m - k)
      /\ \A k \in 1..l - 1 : s[k].i = SentLength(s[k].c) => s[k + 1].i = 1
  BY DEF Framed
<1> HIDE DEF l, w
<1>n. \A k \in l + 1..l + w : t[k].c = c /\ t[k].i = k - l
  <2> SUFFICES ASSUME NEW k \in l + 1..l + w PROVE t[k].c = c /\ t[k].i = k - l
    OBVIOUS
  <2>1. k - l \in 1..w /\ l + (k - l) = k BY <1>0
  <2>2. t[l + (k - l)].c = c /\ t[l + (k - l)].i = k - l BY <2>1, <1>0
  <2> QED BY <2>1, <2>2
(* A byte of the old stream reaches no further than the old stream does. *)
<1>1. ASSUME NEW k \in 1..l, NEW m \in l + 1..l + w,
             s[k].i + (m - k) <= SentLength(s[k].c)
      PROVE  FALSE
  <2>1. /\ s[k].i \in Nat /\ 1 <= s[k].i /\ SentLength(s[k].c) \in Nat
    BY <1>0, ByteIs
  <2> DEFINE i == s[k].i
             e == SentLength(s[k].c)
  <2>2. i \in Nat /\ 1 <= i /\ e \in Nat /\ i + (m - k) <= e
    BY <2>1, <1>1
  <2> HIDE DEF i, e
  <2>3. i + (l - k) \in 1..e /\ l \in 1..l /\ i + (l - k) < e
    BY <2>2, <1>0
  <2>4. s[l].c = s[k].c /\ s[l].i = i + (l - k)
    BY <2>3, <1>q DEF i, e
  <2>5. s[l].i = SentLength(s[l].c)
    BY <1>p, <1>0
  <2>6. i + (l - k) = e
    BY <2>4, <2>5 DEF e
  <2> QED BY <2>2, <2>3, <2>6, <1>0
(* A byte of the new command reaches back no further than its own first.    *)
<1>2. ASSUME NEW k \in 1..l + w, NEW m \in 1..l + w,
             t[k].i + (m - k) \in 1..SentLength(t[k].c)
      PROVE  t[m].c = t[k].c /\ t[m].i = t[k].i + (m - k)
  <2>1. CASE k <= l /\ m <= l
    <3>1. k \in 1..l /\ m \in 1..l BY <2>1, <1>0
    <3>2. t[k] = s[k] /\ t[m] = s[m] BY <3>1, <1>0
    <3> QED BY <1>2, <3>1, <3>2, <1>q
  <2>2. CASE k <= l /\ m > l
    <3>1. k \in 1..l /\ m \in l + 1..l + w BY <2>2, <1>0
    <3>2. t[k] = s[k] BY <3>1, <1>0
    <3>3. s[k].i + (m - k) \in 1..SentLength(s[k].c) BY <1>2, <3>2
    <3>4. SentLength(s[k].c) \in Nat BY <3>1, <1>0, ByteIs
    <3>5. s[k].i + (m - k) <= SentLength(s[k].c) BY <3>3, <3>4
    <3> QED BY <3>1, <3>5, <1>1
  <2>3. CASE k > l
    <3>1. k \in l + 1..l + w BY <2>3, <1>0
    <3>2. t[k].c = c /\ t[k].i = k - l BY <3>1, <1>n
    <3>3. (k - l) + (m - k) \in 1..w BY <1>2, <3>2 DEF w
    <3>4. m \in l + 1..l + w /\ m - l = (k - l) + (m - k) BY <3>1, <3>3, <1>0
    <3> QED BY <3>2, <3>4, <1>n
  <2>4. (k <= l /\ m <= l) \/ (k <= l /\ m > l) \/ k > l BY <1>0
  <2> QED BY <2>1, <2>2, <2>3, <2>4
<1>3. ASSUME NEW k \in 1..l + w - 1, t[k].i = SentLength(t[k].c)
      PROVE  t[k + 1].i = 1
  <2>1. CASE k < l
    <3>1. k \in 1..l - 1 /\ k \in 1..l /\ k + 1 \in 1..l BY <2>1, <1>0
    <3>2. t[k] = s[k] /\ t[k + 1] = s[k + 1] BY <3>1, <1>0
    <3> QED BY <1>3, <3>1, <3>2, <1>q
  <2>2. CASE k = l
    <3>1. l + 1 \in l + 1..l + w /\ (l + 1) - l = 1 BY <1>0
    <3> QED BY <2>2, <3>1, <1>n
  <2>3. CASE k > l
    <3>1. k \in l + 1..l + w BY <2>3, <1>0
    <3>2. k - l = w BY <1>3, <3>1, <1>n DEF w
    <3> QED BY <3>2, <1>0
  <2>4. k < l \/ k = l \/ k > l BY <1>0
  <2> QED BY <2>1, <2>2, <2>3, <2>4
<1> QED BY <1>0, <1>2, <1>3 DEF Framed

-----------------------------------------------------------------------------
(* The size in force, on the same three changes of the stream.              *)

(* d bytes are gone, the latest SET_SIZE among them at e, if any. *)
LEMMA GovernsBehind ==
  ASSUME NEW s \in Seq(ByteOf), NEW t \in Seq(ByteOf), NEW d, Behind(s, t, d),
         NEW e \in 0..d, Governs(s, e, d + 1), NEW z,
         NEW k \in 1..Len(t) + 1, NEW j \in 0..k - 1, Governs(t, j, k)
  PROVE  \E i \in 0..k + d - 1 :
           /\ Governs(s, i, k + d)
           /\ SizeFrom(s, z, i) = SizeFrom(t, SizeFrom(s, z, e), j)
<1> USE DEF Behind
<1>0. /\ Len(s) \in Nat /\ Len(t) \in Nat /\ d \in Nat /\ e \in Nat
      /\ k \in Nat /\ j \in Nat /\ j < k /\ k <= Len(t) + 1 /\ e <= d
  OBVIOUS
<1>1. ASSUME NEW m \in d + 1..k + d - 1, ~Sets(t, m - d)
      PROVE  ~Sets(s, m)
  <2>1. m - d \in 1..Len(t) /\ (m - d) + d = m BY <1>0
  <2>2. t[m - d] = s[(m - d) + d] BY <2>1
  <2> QED BY <1>1, <2>1, <2>2 DEF Sets
<1>2. CASE j = 0
  <2>1. \A m \in e + 1..k + d - 1 : ~Sets(s, m)
    <3> SUFFICES ASSUME NEW m \in e + 1..k + d - 1 PROVE ~Sets(s, m)
      OBVIOUS
    <3>1. CASE m <= d
      <4>1. m \in e + 1..(d + 1) - 1 BY <3>1, <1>0
      <4> QED BY <4>1 DEF Governs
    <3>2. CASE m > d
      <4>1. m \in d + 1..k + d - 1 /\ m - d \in j + 1..k - 1
        BY <3>2, <1>2, <1>0
      <4> QED BY <4>1, <1>1 DEF Governs
    <3>3. m <= d \/ m > d BY <1>0
    <3> QED BY <3>1, <3>2, <3>3
  <2>2. Governs(s, e, k + d)
    BY <2>1 DEF Governs
  <2>3. e \in 0..k + d - 1 BY <1>0
  <2>4. SizeFrom(s, z, e) = SizeFrom(t, SizeFrom(s, z, e), j)
    BY <1>2 DEF SizeFrom
  <2> QED BY <2>2, <2>3, <2>4
<1>3. CASE j # 0
  <2>1. j + d \in 0..k + d - 1 /\ j \in 1..Len(t) /\ j + d # 0 BY <1>3, <1>0
  <2>2. t[j] = s[j + d] BY <2>1
  <2>3. Sets(s, j + d) BY <1>3, <2>2 DEF Governs, Sets
  <2>4. \A m \in (j + d) + 1..k + d - 1 : ~Sets(s, m)
    <3> SUFFICES ASSUME NEW m \in (j + d) + 1..k + d - 1 PROVE ~Sets(s, m)
      OBVIOUS
    <3>1. m \in d + 1..k + d - 1 /\ m - d \in j + 1..k - 1 BY <1>0
    <3> QED BY <3>1, <1>1 DEF Governs
  <2>5. Governs(s, j + d, k + d)
    BY <2>3, <2>4 DEF Governs
  <2>6. SizeFrom(s, z, j + d) = SizeFrom(t, SizeFrom(s, z, e), j)
    BY <1>3, <2>1, <2>2 DEF SizeFrom
  <2> QED BY <2>1, <2>5, <2>6
<1> QED BY <1>2, <1>3

LEMMA SizedBehind ==
  ASSUME NEW s \in Seq(ByteOf), NEW t \in Seq(ByteOf), NEW d, Behind(s, t, d),
         NEW e \in 0..d, Governs(s, e, d + 1), NEW z, NEW h, Sized(s, z)
  PROVE  /\ Sized(t, SizeFrom(s, z, e))
         /\ SizedAfter(s, z, h) => SizedAfter(t, SizeFrom(s, z, e), h)
<1>1. ASSUME NEW k \in 1..Len(t), t[k].c.op \in SizedOps,
             NEW j \in 0..k - 1, Governs(t, j, k)
      PROVE  t[k].c.n = SizeFrom(t, SizeFrom(s, z, e), j)
  <2>0. k \in 1..Len(t) + 1 OBVIOUS
  <2>1. PICK i \in 0..k + d - 1 :
          /\ Governs(s, i, k + d)
          /\ SizeFrom(s, z, i) = SizeFrom(t, SizeFrom(s, z, e), j)
    BY <1>1, <2>0, GovernsBehind
  <2>2. t[k] = s[k + d] /\ k + d \in 1..Len(s) BY DEF Behind
  <2>3. PICK q \in 1..Len(s) : q = k + d
    BY <2>2
  <2>4. s[q].c.op \in SizedOps /\ Governs(s, i, q) /\ i \in 0..q - 1
    <3>1. s[q].c.op \in SizedOps BY <1>1, <2>2, <2>3, Zenon
    <3>2. Governs(s, i, q) BY <2>1, <2>3, Zenon
    <3>3. i \in 0..q - 1 BY <2>3 DEF Behind
    <3> QED BY <3>1, <3>2, <3>3
  <2>5. s[q].c.n = SizeFrom(s, z, i)
    BY <2>4 DEF Sized
  <2> QED BY <2>1, <2>2, <2>3, <2>5
<1>2. ASSUME SizedAfter(s, z, h), NEW j \in 0..Len(t), Governs(t, j, Len(t) + 1)
      PROVE  h = SizeFrom(t, SizeFrom(s, z, e), j)
  <2>0. Len(t) + 1 \in 1..Len(t) + 1 /\ j \in 0..(Len(t) + 1) - 1 OBVIOUS
  <2>1. PICK i \in 0..Len(t) + 1 + d - 1 :
          /\ Governs(s, i, Len(t) + 1 + d)
          /\ SizeFrom(s, z, i) = SizeFrom(t, SizeFrom(s, z, e), j)
    BY <1>2, <2>0, GovernsBehind
  <2>2. Len(t) + 1 + d = Len(s) + 1 /\ i \in 0..Len(s) BY DEF Behind
  <2> QED BY <1>2, <2>1, <2>2 DEF SizedAfter
<1> QED BY <1>1, <1>2 DEF Sized, SizedAfter

(* In front of a SET_SIZE the size in force decides nothing. *)
LEMMA SizeIrrelevant ==
  ASSUME NEW t \in Seq(ByteOf), t # <<>>, Sets(t, 1), NEW y, NEW z, NEW h,
         Sized(t, y)
  PROVE  /\ Sized(t, z)
         /\ SizedAfter(t, y, h) => SizedAfter(t, z, h)
<1>0. Len(t) \in Nat /\ Len(t) >= 1 /\ 1 \in 1..Len(t)
  OBVIOUS
<1>1. ASSUME NEW k \in 1..Len(t), t[k].c.op \in SizedOps,
             NEW j \in 0..k - 1, Governs(t, j, k)
      PROVE  t[k].c.n = SizeFrom(t, z, j)
  <2>1. k # 1 BY <1>1, Opcodes DEF Sets
  <2>2. 1 \in 0 + 1..k - 1 BY <2>1
  <2>3. j # 0 BY <1>1, <2>2 DEF Governs
  <2> QED BY <1>1, <2>3 DEF Sized, SizeFrom
<1>2. ASSUME SizedAfter(t, y, h), NEW j \in 0..Len(t), Governs(t, j, Len(t) + 1)
      PROVE  h = SizeFrom(t, z, j)
  <2>2. 1 \in 0 + 1..(Len(t) + 1) - 1 BY <1>0
  <2>3. j # 0 BY <1>2, <2>2 DEF Governs
  <2> QED BY <1>2, <2>3 DEF SizedAfter, SizeFrom
<1> QED BY <1>1, <1>2 DEF Sized, SizedAfter

LEMMA SizedBefore ==
  ASSUME NEW s \in Seq(ByteOf), NEW t \in Seq(ByteOf), NEW z,
         Len(t) <= Len(s), \A k \in 1..Len(t) : t[k] = s[k], Sized(s, z)
  PROVE  Sized(t, z)
<1> SUFFICES ASSUME NEW k \in 1..Len(t), t[k].c.op \in SizedOps,
                    NEW j \in 0..k - 1, Governs(t, j, k)
             PROVE  t[k].c.n = SizeFrom(t, z, j)
  BY DEF Sized
<1>1. k \in 1..Len(s) /\ t[k] = s[k]
  OBVIOUS
<1>2. \A m \in 1..k : t[m] = s[m]
  OBVIOUS
<1>3. Governs(s, j, k) /\ SizeFrom(s, z, j) = SizeFrom(t, z, j)
  <2>1. CASE j = 0 BY <2>1, <1>2 DEF Governs, Sets, SizeFrom
  <2>2. CASE j # 0
    <3>1. j \in 1..k BY <2>2
    <3>2. t[j] = s[j] BY <3>1, <1>2
    <3>3. \A m \in j + 1..k - 1 : t[m] = s[m] BY <1>2
    <3> QED BY <2>2, <3>2, <3>3 DEF Governs, Sets, SizeFrom
  <2> QED BY <2>1, <2>2
<1> QED BY <1>1, <1>3 DEF Sized

(* The host adds a command framed with the size it believes in. *)
LEMMA SizedWith ==
  ASSUME NEW s \in Seq(ByteOf), NEW t \in Seq(ByteOf), NEW c \in Command,
         SentLength(c) \in Nat, SentLength(c) >= 1, Extends(s, t, c),
         NEW z, NEW h, Sized(s, z),
         c.op \in SizedOps => SizedAfter(s, z, h) /\ c.n = h
  PROVE  /\ Sized(t, z)
         /\ c.op = CMD_SET_SIZE => SizedAfter(t, z, c.n)
         /\ c.op # CMD_SET_SIZE /\ SizedAfter(s, z, h) => SizedAfter(t, z, h)
<1> DEFINE l == Len(s)
           w == SentLength(c)
<1>0. /\ l \in Nat /\ w \in Nat /\ w >= 1 /\ Len(t) = l + w
      /\ \A k \in 1..l : t[k] = s[k]
      /\ \A k \in 1..w : t[l + k].c = c
  BY DEF Extends
<1> HIDE DEF l, w
<1>n. \A k \in l + 1..l + w : t[k].c = c
  <2> SUFFICES ASSUME NEW k \in l + 1..l + w PROVE t[k].c = c
    OBVIOUS
  <2>1. k - l \in 1..w /\ l + (k - l) = k BY <1>0
  <2>2. t[l + (k - l)].c = c BY <2>1, <1>0
  <2> QED BY <2>1, <2>2
(* What governs an old position in the new stream governs it in the old.    *)
<1>1. ASSUME NEW k \in 1..l + 1, NEW j \in 0..k - 1, Governs(t, j, k)
      PROVE  Governs(s, j, k) /\ SizeFrom(s, z, j) = SizeFrom(t, z, j)
  <2>1. \A m \in j + 1..k - 1 : t[m] = s[m]
    <3> SUFFICES ASSUME NEW m \in j + 1..k - 1 PROVE t[m] = s[m]
      OBVIOUS
    <3>1. m \in 1..l BY <1>0
    <3> QED BY <3>1, <1>0
  <2>2. CASE j = 0 BY <1>1, <2>1, <2>2 DEF Governs, Sets, SizeFrom
  <2>3. CASE j # 0
    <3>1. j \in 1..l BY <2>3, <1>0
    <3>2. t[j] = s[j] BY <3>1, <1>0
    <3> QED BY <1>1, <2>1, <2>3, <3>2 DEF Governs, Sets, SizeFrom
  <2> QED BY <2>2, <2>3
(* A position in or behind the new command is governed by it, or by what    *)
(* governs the end of the old stream.                                       *)
<1>2. ASSUME NEW k \in l + 1..l + w + 1, NEW j \in 0..k - 1, Governs(t, j, k),
             c.op # CMD_SET_SIZE
      PROVE  j \in 0..l /\ Governs(t, j, l + 1)
  <2>1. j <= l
    <3> SUFFICES ASSUME j > l PROVE FALSE BY <1>0
    <3>1. j \in l + 1..l + w /\ j # 0 BY <1>0
    <3>2. t[j].c = c BY <3>1, <1>n
    <3> QED BY <3>1, <3>2, <1>2 DEF Governs, Sets
  <2>2. \A m \in j + 1..(l + 1) - 1 : m \in j + 1..k - 1 BY <1>0
  <2> QED BY <1>0, <1>2, <2>1, <2>2 DEF Governs
<1>3. ASSUME NEW k \in 1..l + w, t[k].c.op \in SizedOps,
             NEW j \in 0..k - 1, Governs(t, j, k)
      PROVE  t[k].c.n = SizeFrom(t, z, j)
  <2>1. CASE k <= l
    <3>1. k \in 1..l /\ k \in 1..l + 1 BY <2>1, <1>0
    <3>2. t[k] = s[k] BY <3>1, <1>0
    <3>3. Governs(s, j, k) /\ SizeFrom(s, z, j) = SizeFrom(t, z, j)
      BY <1>3, <3>1, <1>1
    <3>4. s[k].c.n = SizeFrom(s, z, j)
      BY <1>3, <3>1, <3>2, <3>3 DEF Sized, l
    <3> QED BY <3>2, <3>3, <3>4
  <2>2. CASE k > l
    <3>1. k \in l + 1..l + w /\ k \in l + 1..l + w + 1 BY <2>2, <1>0
    <3>2. t[k].c = c /\ c.op \in SizedOps /\ c.op # CMD_SET_SIZE
      BY <1>3, <3>1, <1>n, Opcodes
    <3>3. j \in 0..l /\ Governs(t, j, l + 1)
      BY <1>3, <3>1, <3>2, <1>2
    <3>4. l + 1 \in 1..l + 1 /\ j \in 0..(l + 1) - 1 BY <3>3, <1>0
    <3>5. Governs(s, j, l + 1) /\ SizeFrom(s, z, j) = SizeFrom(t, z, j)
      BY <3>3, <3>4, <1>1
    <3>6. h = SizeFrom(s, z, j)
      BY <3>2, <3>3, <3>5 DEF SizedAfter, l
    <3> QED BY <3>2, <3>5, <3>6
  <2>3. k <= l \/ k > l BY <1>0
  <2> QED BY <2>1, <2>2, <2>3
<1>4. ASSUME c.op = CMD_SET_SIZE, NEW j \in 0..l + w, Governs(t, j, l + w + 1)
      PROVE  c.n = SizeFrom(t, z, j)
  <2>1. l + w \in l + 1..l + w /\ l + w <= (l + w + 1) - 1 BY <1>0
  <2>2. Sets(t, l + w) BY <1>4, <2>1, <1>n DEF Sets
  <2>3. ~(l + w \in j + 1..(l + w + 1) - 1) BY <1>4, <2>2 DEF Governs
  <2>4. j = l + w /\ j # 0 BY <2>3, <1>0
  <2> QED BY <2>1, <2>4, <1>n DEF SizeFrom
<1>5. ASSUME c.op # CMD_SET_SIZE, SizedAfter(s, z, h), NEW j \in 0..l + w,
             Governs(t, j, l + w + 1)
      PROVE  h = SizeFrom(t, z, j)
  <2>1. l + w + 1 \in l + 1..l + w + 1 /\ j \in 0..(l + w + 1) - 1 BY <1>0
  <2>2. j \in 0..l /\ Governs(t, j, l + 1)
    BY <1>5, <2>1, <1>2
  <2>3. l + 1 \in 1..l + 1 /\ j \in 0..(l + 1) - 1 BY <2>2, <1>0
  <2>4. Governs(s, j, l + 1) /\ SizeFrom(s, z, j) = SizeFrom(t, z, j)
    BY <2>2, <2>3, <1>1
  <2> QED BY <1>5, <2>2, <2>4 DEF SizedAfter, l
<1> QED BY <1>0, <1>3, <1>4, <1>5 DEF Sized, SizedAfter

-----------------------------------------------------------------------------
(* The bytes in reach of the device: a batch, and the wire behind it.       *)

LEMMA JoinedIs ==
  ASSUME NEW s \in Seq(ByteOf), NEW t \in Seq(ByteOf)
  PROVE  /\ s \o t \in Seq(ByteOf) /\ Len(s \o t) = Len(s) + Len(t)
         /\ \A k \in 1..Len(s) : (s \o t)[k] = s[k]
         /\ \A k \in 1..Len(t) : (s \o t)[Len(s) + k] = t[k]
<1>1. s \o t \in Seq(ByteOf) OBVIOUS
<1>2. Len(s \o t) = Len(s) + Len(t) OBVIOUS
<1>3. ASSUME NEW k \in 1..Len(s) PROVE (s \o t)[k] = s[k] OBVIOUS
<1>4. ASSUME NEW k \in 1..Len(t) PROVE (s \o t)[Len(s) + k] = t[k] OBVIOUS
<1> QED BY <1>1, <1>2, <1>3, <1>4

LEMMA SuffixIs ==
  ASSUME NEW s \in Seq(ByteOf), NEW d \in 0..Len(s)
  PROVE  /\ SubSeq(s, d + 1, Len(s)) \in Seq(ByteOf)
         /\ Behind(s, SubSeq(s, d + 1, Len(s)), d)
<1>1. SubSeq(s, d + 1, Len(s)) \in Seq(ByteOf) OBVIOUS
<1>2. Len(SubSeq(s, d + 1, Len(s))) = Len(s) - d OBVIOUS
<1>3. ASSUME NEW k \in 1..Len(s) - d
      PROVE  SubSeq(s, d + 1, Len(s))[k] = s[k + d]
  OBVIOUS
<1> QED BY <1>1, <1>2, <1>3 DEF Behind

LEMMA PrefixIs ==
  ASSUME NEW s \in Seq(ByteOf), NEW d \in 0..Len(s)
  PROVE  /\ SubSeq(s, 1, d) \in Seq(ByteOf) /\ Len(SubSeq(s, 1, d)) = d
         /\ \A k \in 1..d : SubSeq(s, 1, d)[k] = s[k]
<1>1. SubSeq(s, 1, d) \in Seq(ByteOf) OBVIOUS
<1>2. Len(SubSeq(s, 1, d)) = d OBVIOUS
<1>3. ASSUME NEW k \in 1..d PROVE SubSeq(s, 1, d)[k] = s[k]
  OBVIOUS
<1> QED BY <1>1, <1>2, <1>3

LEMMA TailIs ==
  ASSUME NEW s \in Seq(ByteOf), s # <<>>
  PROVE  /\ Tail(s) \in Seq(ByteOf) /\ Behind(s, Tail(s), 1)
         /\ Head(s) = s[1] /\ s[1] \in ByteOf /\ 1 \in 1..Len(s)
<1>1. Tail(s) \in Seq(ByteOf) OBVIOUS
<1>2. Len(Tail(s)) = Len(s) - 1 /\ 1 \in 0..Len(s) /\ 1 \in 1..Len(s) OBVIOUS
<1>3. ASSUME NEW k \in 1..Len(s) - 1 PROVE Tail(s)[k] = s[k + 1]
  OBVIOUS
<1> QED BY <1>1, <1>2, <1>3 DEF Behind

(* Bytes leave from the batch, or from the wire once the batch is done. *)
LEMMA BehindBatch ==
  ASSUME NEW s \in Seq(ByteOf), NEW r \in Seq(ByteOf), NEW w \in Seq(ByteOf),
         NEW d, Behind(s, r, d)
  PROVE  Behind(s \o w, r \o w, d)
<1> DEFINE q == s \o w
           p == r \o w
<1>1. /\ Len(q) = Len(s) + Len(w)
      /\ \A k \in 1..Len(s) : q[k] = s[k]
      /\ \A k \in 1..Len(w) : q[Len(s) + k] = w[k]
  BY JoinedIs
<1>2. /\ Len(p) = Len(r) + Len(w)
      /\ \A k \in 1..Len(r) : p[k] = r[k]
      /\ \A k \in 1..Len(w) : p[Len(r) + k] = w[k]
  BY JoinedIs
<1> HIDE DEF q, p
<1>3. d \in 0..Len(s) /\ Len(r) = Len(s) - d /\ \A k \in 1..Len(r) : r[k] = s[k + d]
  BY DEF Behind
<1>4. ASSUME NEW k \in 1..Len(p) PROVE p[k] = q[k + d]
  <2>1. CASE k <= Len(r)
    <3>1. k \in 1..Len(r) /\ k + d \in 1..Len(s) BY <2>1, <1>2, <1>3
    <3> QED BY <3>1, <1>1, <1>2, <1>3
  <2>2. CASE k > Len(r)
    <3> DEFINE m == k - Len(r)
    <3>1. m \in 1..Len(w) /\ k = Len(r) + m /\ k + d = Len(s) + m
      BY <2>2, <1>2, <1>3
    <3> HIDE DEF m
    <3>2. p[Len(r) + m] = w[m] /\ q[Len(s) + m] = w[m] BY <3>1, <1>1, <1>2
    <3> QED BY <3>1, <3>2
  <2>3. k <= Len(r) \/ k > Len(r) BY <1>2
  <2> QED BY <2>1, <2>2, <2>3
<1>5. Len(p) = Len(q) - d /\ d \in 0..Len(q) BY <1>1, <1>2, <1>3
<1> QED BY <1>4, <1>5 DEF Behind, q, p

LEMMA EmptyJoins ==
  ASSUME NEW w \in Seq(ByteOf)
  PROVE  <<>> \o w = w /\ w \o <<>> = w
OBVIOUS

LEMMA CutAndJoined ==
  ASSUME NEW w \in Seq(ByteOf), NEW k \in 0..Len(w)
  PROVE  SubSeq(w, 1, k) \o SubSeq(w, k + 1, Len(w)) = w
<1> DEFINE s == SubSeq(w, 1, k)
           t == SubSeq(w, k + 1, Len(w))
           q == s \o t
<1>1. s \in Seq(ByteOf) /\ Len(s) = k /\ \A m \in 1..k : s[m] = w[m]
  BY PrefixIs
<1>2. t \in Seq(ByteOf) /\ Len(t) = Len(w) - k
      /\ \A m \in 1..Len(t) : t[m] = w[m + k]
  BY SuffixIs DEF Behind
<1> HIDE DEF s, t
<1>3. /\ q \in Seq(ByteOf) /\ Len(q) = Len(s) + Len(t)
      /\ \A m \in 1..Len(s) : q[m] = s[m]
      /\ \A m \in 1..Len(t) : q[Len(s) + m] = t[m]
  BY <1>1, <1>2, JoinedIs
<1> HIDE DEF q
<1>4. ASSUME NEW m \in 1..Len(w) PROVE q[m] = w[m]
  <2>1. CASE m <= k BY <2>1, <1>1, <1>3
  <2>2. CASE m > k
    <3>1. m - k \in 1..Len(t) /\ Len(s) + (m - k) = m /\ (m - k) + k = m
      BY <2>2, <1>1, <1>2
    <3>2. q[Len(s) + (m - k)] = t[m - k] /\ t[m - k] = w[(m - k) + k]
      BY <3>1, <1>2, <1>3
    <3> QED BY <3>1, <3>2
  <2>3. m <= k \/ m > k OBVIOUS
  <2> QED BY <2>1, <2>2, <2>3
<1>5. Len(q) = Len(w) BY <1>1, <1>2, <1>3
<1>6. q = w BY <1>3, <1>4, <1>5
<1> QED BY <1>6 DEF q, s, t

-----------------------------------------------------------------------------
(* What a reader must leave behind when it has taken byte b. *)

Ready(b) ==
  IF b.i = SentLength(b.c) THEN ~Open
  ELSE /\ Open
       /\ \A x \in parts : x = b.c.id
       /\ IF pc = "lk" THEN LkTakes(Byte(b.c, b.i + 1))
                       ELSE ParserTakes(Byte(b.c, b.i + 1))

(* The part of StreamInv that is about the stream and the two sizes. *)
StreamSized ==
  /\ batch \in Seq(ByteOf) /\ wire \in Seq(ByteOf)
  /\ Framed(Rest)
  /\ Sized(Rest, transfer_size)
  /\ alive /\ host_size # 0 => SizedAfter(Rest, transfer_size, host_size)

RestKnown ==
  /\ Rest \in Seq(ByteOf) /\ Len(Rest) = Len(batch) + Len(wire)
  /\ Len(Rest) \in Nat
  /\ Rest # <<>> <=> Len(Rest) > 0
  /\ Rest = <<>> <=> batch = <<>> /\ wire = <<>>
  /\ batch = <<>> => Rest = wire
  /\ wire = <<>> => Rest = batch

LEMMA RestIs ==
  batch \in Seq(ByteOf) /\ wire \in Seq(ByteOf) => RestKnown
<1> SUFFICES ASSUME batch \in Seq(ByteOf), wire \in Seq(ByteOf) PROVE RestKnown
  OBVIOUS
<1>1. Rest \in Seq(ByteOf) /\ Len(Rest) = Len(batch) + Len(wire)
  BY JoinedIs DEF Rest
<1>2. \A s \in Seq(ByteOf) : Len(s) \in Nat /\ (s # <<>> <=> Len(s) > 0)
  OBVIOUS
<1>3. Rest = <<>> <=> batch = <<>> /\ wire = <<>>
  BY <1>1, <1>2
<1>4. (batch = <<>> => Rest = wire) /\ (wire = <<>> => Rest = batch)
  BY EmptyJoins DEF Rest
<1> QED BY <1>1, <1>2, <1>3, <1>4 DEF RestKnown

LEMMA SizedIsKnown ==
  StreamSized => RestKnown
BY RestIs DEF StreamSized

(* The byte behind byte b of the stream is the next one of its command, or  *)
(* the first one of another.                                                *)
LEMMA NextByte ==
  ASSUME NEW s \in Seq(ByteOf), Framed(s), NEW k \in 1..Len(s), k + 1 \in 1..Len(s)
  PROVE  IF s[k].i = SentLength(s[k].c) THEN s[k + 1].i = 1
         ELSE s[k + 1] = Byte(s[k].c, s[k].i + 1)
<1>1. s[k] \in ByteOf /\ s[k + 1] \in ByteOf
  OBVIOUS
<1>2. CASE s[k].i = SentLength(s[k].c)
  <2>1. k \in 1..Len(s) - 1 OBVIOUS
  <2> QED BY <1>2, <2>1 DEF Framed
<1>3. CASE s[k].i # SentLength(s[k].c)
  <2> DEFINE i == s[k].i
             e == SentLength(s[k].c)
  <2>1. i \in Nat /\ 1 <= i /\ i <= e /\ e \in Nat /\ i # e
    BY <1>1, <1>3, ByteIs
  <2> HIDE DEF i, e
  <2>2. i + 1 \in 1..e BY <2>1
  <2>3. (k + 1) - k = 1 OBVIOUS
  <2>4. s[k + 1].c = s[k].c /\ s[k + 1].i = i + 1
    BY <2>2, <2>3 DEF Framed, i, e
  <2>5. \A b \in ByteOf : b = [c |-> b.c, i |-> b.i]
    BY DEF ByteOf
  <2>6. s[k + 1] = [c |-> s[k + 1].c, i |-> s[k + 1].i]
    BY <1>1, <2>5
  <2> QED BY <1>3, <2>4, <2>6 DEF Byte, i
<1> QED BY <1>2, <1>3

LEMMA StreamTaken ==
  ASSUME StreamInv, NEW d, d > 0, Behind(Rest, Rest', d), StreamSized',
         UNCHANGED <<alive, host_size>>,
         NEW b, b = Rest[d], Ready(b)'
  PROVE  StreamInv'
<1> SUFFICES ASSUME NEW t, t = Rest' PROVE StreamInv'
  OBVIOUS
<1>t. batch \in Seq(ByteOf) /\ wire \in Seq(ByteOf) BY DEF StreamInv
<1>1. RestKnown BY <1>t, RestIs
<1>2. RestKnown' BY SizedIsKnown, PTL
<1> DEFINE s == Rest
<1>3. /\ s \in Seq(ByteOf) /\ (s # <<>> <=> Len(s) > 0) /\ Len(s) \in Nat
      /\ t \in Seq(ByteOf) /\ (t # <<>> <=> Len(t) > 0) /\ Len(t) \in Nat
      /\ Behind(s, t, d) /\ b = s[d] /\ Framed(s)
      /\ alive => IF s = <<>> THEN ~Open ELSE s[Len(s)].i = SentLength(s[Len(s)].c)
  BY <1>1, <1>2 DEF StreamInv, SentWhole, RestKnown
<1>i. HeadIsExpected' <=>
        (t # <<>> =>
           IF Open' THEN /\ \A x \in parts' : x = t[1].c.id
                         /\ IF pc' = "lk" THEN LkTakes(t[1])' ELSE ParserTakes(t[1])'
                    ELSE t[1].i = 1)
  BY DEF HeadIsExpected, LkTakes, ParserTakes
<1>j. SentWhole' <=> (alive' => IF t = <<>> THEN ~Open'
                                ELSE t[Len(t)].i = SentLength(t[Len(t)].c))
  BY DEF SentWhole
<1> HIDE DEF s
<1>4. /\ d \in 1..Len(s) /\ Len(t) = Len(s) - d
      /\ \A k \in 1..Len(t) : t[k] = s[k + d]
  BY <1>3 DEF Behind
<1>5. HeadIsExpected'
  <2> SUFFICES ASSUME t # <<>>
      PROVE  IF Open' THEN /\ \A x \in parts' : x = t[1].c.id
                           /\ IF pc' = "lk" THEN LkTakes(t[1])' ELSE ParserTakes(t[1])'
                      ELSE t[1].i = 1
    BY <1>i
  <2>1. 1 \in 1..Len(t) /\ d + 1 \in 1..Len(s) /\ 1 + d = d + 1 BY <1>3, <1>4
  <2>2. t[1] = s[d + 1] BY <2>1, <1>4
  <2>3. IF b.i = SentLength(b.c) THEN s[d + 1].i = 1
        ELSE s[d + 1] = Byte(b.c, b.i + 1)
    BY <1>3, <1>4, <2>1, NextByte
  <2>4. CASE b.i = SentLength(b.c)
    BY <2>2, <2>3, <2>4 DEF Ready
  <2>5. CASE b.i # SentLength(b.c)
    <3>1. t[1] = Byte(b.c, b.i + 1) /\ t[1].c.id = b.c.id
      BY <2>2, <2>3, <2>5 DEF Byte
    <3>2. Open' /\ (\A x \in parts' : x = b.c.id)
      BY <2>5 DEF Ready
    <3>3. IF pc' = "lk" THEN LkTakes(Byte(b.c, b.i + 1))'
                        ELSE ParserTakes(Byte(b.c, b.i + 1))'
      BY <2>5 DEF Ready
    <3>4. IF pc' = "lk" THEN LkTakes(t[1])' ELSE ParserTakes(t[1])'
      BY <3>1, <3>3 DEF LkTakes, ParserTakes
    <3> QED BY <3>1, <3>2, <3>4
  <2> QED BY <2>4, <2>5
<1>6. SentWhole'
  <2> SUFFICES ASSUME alive'
      PROVE  IF t = <<>> THEN ~Open' ELSE t[Len(t)].i = SentLength(t[Len(t)].c)
    BY <1>j
  <2>1. s[Len(s)].i = SentLength(s[Len(s)].c)
    BY <1>3, <1>4
  <2>2. CASE t = <<>>
    <3>1. d = Len(s) BY <2>2, <1>3, <1>4
    <3> QED BY <2>1, <2>2, <3>1, <1>3 DEF Ready
  <2>3. CASE t # <<>>
    <3>1. Len(t) \in 1..Len(t) /\ Len(t) + d = Len(s) BY <2>3, <1>3, <1>4
    <3>2. t[Len(t)] = s[Len(s)] BY <3>1, <1>4
    <3> QED BY <2>1, <2>3, <3>2
  <2> QED BY <2>2, <2>3
<1> QED BY <1>5, <1>6 DEF StreamInv, StreamSized

(* The size in force behind one byte: a SET_SIZE changes it with its last.  *)
LEMMA SizedOneOn ==
  ASSUME NEW s \in Seq(ByteOf), NEW t \in Seq(ByteOf), Behind(s, t, 1), Framed(s),
         NEW z, NEW h, Sized(s, z),
         NEW y, y = IF Sets(s, 1) /\ s[1].i = SentLength(s[1].c) THEN s[1].c.n ELSE z
  PROVE  /\ Sized(t, y)
         /\ SizedAfter(s, z, h) /\ s[Len(s)].i = SentLength(s[Len(s)].c)
              => SizedAfter(t, y, h)
<1>0. /\ Len(s) \in Nat /\ Len(s) >= 1 /\ Len(t) = Len(s) - 1 /\ 1 \in 1..Len(s)
      /\ 0 \in 0..1 /\ 1 \in 0..1
  BY DEF Behind
<1>1. CASE ~Sets(s, 1)
  <2>1. Governs(s, 0, 1 + 1)
    BY <1>1 DEF Governs
  <2>2. SizeFrom(s, z, 0) = z /\ y = z BY <1>1 DEF SizeFrom
  <2> QED BY <2>1, <2>2, <1>0, SizedBehind
<1>2. CASE Sets(s, 1)
  <2>1. Governs(s, 1, 1 + 1)
    BY <1>2 DEF Governs
  <2>2. SizeFrom(s, z, 1) = s[1].c.n BY DEF SizeFrom
  <2> DEFINE x == s[1].c.n
  <2>3. Sized(t, x) /\ (SizedAfter(s, z, h) => SizedAfter(t, x, h))
    BY <2>1, <2>2, <1>0, SizedBehind
  <2>4. CASE s[1].i = SentLength(s[1].c)
    BY <1>2, <2>3, <2>4
  <2>5. CASE s[1].i # SentLength(s[1].c) /\ t # <<>>
    <3>1. 1 + 1 \in 1..Len(s) /\ 1 \in 1..Len(t) BY <2>5, <1>0
    <3>2. s[1 + 1] = Byte(s[1].c, s[1].i + 1)
      BY <2>5, <3>1, <1>0, NextByte
    <3>3. t[1] = s[1 + 1] BY <3>1 DEF Behind
    <3>4. Sets(t, 1) BY <1>2, <3>2, <3>3 DEF Sets, Byte
    <3>5. y = z BY <2>5
    <3> HIDE DEF x
    <3> QED BY <2>3, <2>5, <3>4, <3>5, SizeIrrelevant
  <2>6. CASE s[1].i # SentLength(s[1].c) /\ t = <<>>
    <3>1. Len(t) = 0 /\ Len(s) = 1 BY <2>6, <1>0
    <3>2. Sized(t, y) BY <3>1 DEF Sized
    <3> QED BY <2>6, <3>1, <3>2
  <2> QED BY <2>4, <2>5, <2>6
<1> QED BY <1>1, <1>2

(* Bytes without a SET_SIZE among them leave it alone. *)
LEMMA SizedRunOn ==
  ASSUME NEW s \in Seq(ByteOf), NEW t \in Seq(ByteOf), NEW d, Behind(s, t, d),
         \A k \in 1..d : ~Sets(s, k), NEW z, NEW h, Sized(s, z)
  PROVE  /\ Sized(t, z)
         /\ SizedAfter(s, z, h) => SizedAfter(t, z, h)
<1>0. d \in Nat /\ 0 \in 0..d
  BY DEF Behind
<1>1. Governs(s, 0, d + 1)
  <2>1. \A m \in 0 + 1..(d + 1) - 1 : m \in 1..d BY <1>0
  <2> QED BY <2>1 DEF Governs
<1>2. SizeFrom(s, z, 0) = z BY DEF SizeFrom
<1> QED BY <1>0, <1>1, <1>2, SizedBehind

LEMMA SizedAfterByte ==
  ASSUME StreamInv, batch' \in Seq(ByteOf), wire' \in Seq(ByteOf),
         Rest' \in Seq(ByteOf), Behind(Rest, Rest', 1),
         UNCHANGED <<alive, host_size>>,
         transfer_size' = IF Sets(Rest, 1) /\ Rest[1].i = SentLength(Rest[1].c)
                            THEN Rest[1].c.n ELSE transfer_size
  PROVE  StreamSized'
<1>1. RestKnown BY RestIs DEF StreamInv
<1>2. Rest \in Seq(ByteOf) /\ Framed(Rest) /\ Sized(Rest, transfer_size)
  BY <1>1 DEF RestKnown, StreamInv
<1>3. Framed(Rest') BY <1>2, FramedBehind
<1>4. /\ Sized(Rest', transfer_size')
      /\ SizedAfter(Rest, transfer_size, host_size)
           /\ Rest[Len(Rest)].i = SentLength(Rest[Len(Rest)].c)
         => SizedAfter(Rest', transfer_size', host_size)
  BY <1>2, SizedOneOn
<1>5. alive => Rest[Len(Rest)].i = SentLength(Rest[Len(Rest)].c)
  <2>1. Rest # <<>> BY <1>2 DEF Behind
  <2> QED BY <2>1 DEF StreamInv, SentWhole
<1>6. alive /\ host_size # 0 => SizedAfter(Rest, transfer_size, host_size)
  BY DEF StreamInv
<1>7. (alive /\ host_size # 0 => SizedAfter(Rest, transfer_size, host_size))'
  <2>1. alive /\ host_size # 0 => SizedAfter(Rest', transfer_size', host_size)
    BY <1>4, <1>5, <1>6
  <2> QED BY <2>1
<1> QED BY <1>3, <1>4, <1>7 DEF StreamSized

LEMMA SizedAfterRun ==
  ASSUME StreamInv, batch' \in Seq(ByteOf), wire' \in Seq(ByteOf),
         Rest' \in Seq(ByteOf), NEW d, Behind(Rest, Rest', d),
         \A k \in 1..d : ~Sets(Rest, k),
         UNCHANGED <<alive, host_size, transfer_size>>
  PROVE  StreamSized'
<1>1. RestKnown BY RestIs DEF StreamInv
<1>2. Rest \in Seq(ByteOf) /\ Framed(Rest) /\ Sized(Rest, transfer_size)
  BY <1>1 DEF RestKnown, StreamInv
<1>3. Framed(Rest') BY <1>2, FramedBehind
<1>4. /\ Sized(Rest', transfer_size)
      /\ SizedAfter(Rest, transfer_size, host_size)
           => SizedAfter(Rest', transfer_size, host_size)
  BY <1>2, SizedRunOn
<1>5. alive /\ host_size # 0 => SizedAfter(Rest, transfer_size, host_size)
  BY DEF StreamInv
<1>6. (alive /\ host_size # 0 => SizedAfter(Rest, transfer_size, host_size))'
  BY <1>4, <1>5
<1> QED BY <1>3, <1>4, <1>6 DEF StreamSized

-----------------------------------------------------------------------------
(* The loop's own steps.                                                    *)

LEMMA StreamStays ==
  ASSUME StreamInv, batch' \in Seq(ByteOf), wire' \in Seq(ByteOf), Rest' = Rest,
         UNCHANGED <<P, lk, parts, transfer_size, alive, host_size>>,
         pc' = "lk" <=> pc = "lk"
  PROVE  StreamInv'
<1>1. Open' <=> Open BY DEF Open
<1>2. HeadIsExpected'
  <2>1. HeadIsExpected BY DEF StreamInv
  <2> QED BY <1>1, <2>1 DEF HeadIsExpected, LkTakes, ParserTakes
<1>3. SentWhole'
  <2>1. SentWhole BY DEF StreamInv
  <2> QED BY <1>1, <2>1 DEF SentWhole
<1>4. (alive /\ host_size # 0 => SizedAfter(Rest, transfer_size, host_size))'
  BY DEF StreamInv
<1>5. Framed(Rest)' /\ Sized(Rest, transfer_size)'
  BY DEF StreamInv
<1> QED BY <1>2, <1>3, <1>4, <1>5 DEF StreamInv

LEMMA ReceiveNothingKeeps ==
  ASSUME IInv, ReceiveNothing PROVE IInv'
<1>0. /\ pc = "rx" /\ pc' \in {"wait", "top"} /\ late' = FALSE
      /\ UNCHANGED <<P, moved, stale, stateVars, batch, was_configured, lk, answer,
                     parts, hostVars, awaiting>>
  BY DEF ReceiveNothing, parserVars
<1>1. TypeOK' BY <1>0 DEF IInv, TypeOK, stateVars, hostVars
<1>2. NoMixedCommand' BY <1>0 DEF IInv, NoMixedCommand
<1>3. ParserShape' BY <1>0 DEF IInv, ParserShape, Idle
<1>4. LkShape' BY <1>0 DEF IInv, LkShape
<1>5. StreamInv'
  <2>1. Rest' = Rest BY <1>0 DEF Rest, hostVars
  <2> QED BY <1>0, <2>1, StreamStays DEF IInv, StreamInv, stateVars, hostVars
<1>6. SessionInv'
  <2>1. pc' = "wait" => ~Idle
    <3>1. pc' = "wait" => P.pay_got < P.pay_need
      BY DEF ReceiveNothing
    <3>2. P.pay_got \in Nat BY DEF IInv, ParserShape
    <3> QED BY <3>1, <3>2 DEF Idle
  <2> QED BY <1>0, <2>1 DEF IInv, SessionInv, Empty, Idle, hostVars
<1>7. HostDataOK' BY <1>0 DEF IInv, HostDataOK, hostVars
<1> QED BY <1>1, <1>2, <1>3, <1>4, <1>5, <1>6, <1>7 DEF IInv

LEMMA WaitGiveUpKeeps ==
  ASSUME IInv, WaitGiveUp PROVE IInv'
<1>0. /\ pc = "wait" /\ pc' = "top" /\ late' = FALSE
      /\ UNCHANGED <<P, moved, stale, stateVars, batch, was_configured, lk, answer,
                     parts, hostVars, awaiting>>
  BY DEF WaitGiveUp, parserVars
<1>1. TypeOK' BY <1>0 DEF IInv, TypeOK, stateVars, hostVars
<1>2. NoMixedCommand' BY <1>0 DEF IInv, NoMixedCommand
<1>3. ParserShape' BY <1>0 DEF IInv, ParserShape, Idle
<1>4. LkShape' BY <1>0 DEF IInv, LkShape
<1>5. StreamInv'
  <2>1. Rest' = Rest BY <1>0 DEF Rest, hostVars
  <2> QED BY <1>0, <2>1, StreamStays DEF IInv, StreamInv, stateVars, hostVars
<1>6. SessionInv'
  BY <1>0 DEF IInv, SessionInv, Empty, Idle, hostVars
<1>7. HostDataOK' BY <1>0 DEF IInv, HostDataOK, hostVars
<1> QED BY <1>1, <1>2, <1>3, <1>4, <1>5, <1>6, <1>7 DEF IInv

LEMMA BatchDoneKeeps ==
  ASSUME IInv, BatchDone PROVE IInv'
<1>0. /\ pc = "feed" /\ pc' = "top" /\ batch = <<>>
      /\ UNCHANGED <<P, moved, stale, stateVars, batch, was_configured, late, lk,
                     answer, parts, hostVars, awaiting>>
  BY DEF BatchDone, parserVars
<1>1. TypeOK' BY <1>0 DEF IInv, TypeOK, stateVars, hostVars
<1>2. NoMixedCommand' BY <1>0 DEF IInv, NoMixedCommand
<1>3. ParserShape' BY <1>0 DEF IInv, ParserShape, Idle
<1>4. LkShape' BY <1>0 DEF IInv, LkShape
<1>5. StreamInv'
  <2>1. Rest' = Rest BY <1>0 DEF Rest, hostVars
  <2> QED BY <1>0, <2>1, StreamStays DEF IInv, StreamInv, stateVars, hostVars
<1>6. SessionInv'
  BY <1>0 DEF IInv, SessionInv, Empty, Idle, hostVars
<1>7. HostDataOK' BY <1>0 DEF IInv, HostDataOK, hostVars
<1> QED BY <1>1, <1>2, <1>3, <1>4, <1>5, <1>6, <1>7 DEF IInv

LEMMA TakeBatchKeeps ==
  ASSUME IInv, pc \in {"rx", "wait"}, TakeBatch PROVE IInv'
<1>0. /\ pc' = "feed"
      /\ UNCHANGED <<P, moved, stale, stateVars, was_configured, late, lk, answer,
                     parts, configured, alive, away, host_size, sent, awaiting>>
  BY DEF TakeBatch, parserVars
<1>t. batch = <<>> /\ wire \in Seq(ByteOf) /\ batch \in Seq(ByteOf)
  BY DEF IInv, SessionInv, StreamInv
<1>s. PICK k \in 1..MinOf(RxMax, Len(wire)) :
        /\ batch' = SubSeq(wire, 1, k)
        /\ wire' = SubSeq(wire, k + 1, Len(wire))
  BY DEF TakeBatch
<1>k. k \in 1..Len(wire) /\ k \in 0..Len(wire) /\ k <= RxMax
  <2>1. Len(wire) \in Nat /\ RxMax \in Nat BY <1>t, ConstantsAre
  <2> QED BY <2>1 DEF MinOf
<1>b. batch' \in Seq(ByteOf) /\ Len(batch') = k /\ wire' \in Seq(ByteOf)
  BY <1>t, <1>s, <1>k, PrefixIs, SuffixIs
<1>r. Rest' = Rest
  <2>1. Rest' = wire BY <1>t, <1>s, <1>k, CutAndJoined DEF Rest
  <2>2. Rest = wire BY <1>t, EmptyJoins DEF Rest
  <2> QED BY <2>1, <2>2
<1>w. wire # <<>> BY <1>k
<1>1. TypeOK'
  <2>1. Len(batch') <= RxMax BY <1>b, <1>k
  <2> QED BY <1>0, <2>1 DEF IInv, TypeOK, stateVars
<1>2. NoMixedCommand' BY <1>0 DEF IInv, NoMixedCommand
<1>3. ParserShape' BY <1>0 DEF IInv, ParserShape, Idle
<1>4. LkShape' BY <1>0 DEF IInv, LkShape
<1>5. StreamInv'
  BY <1>0, <1>b, <1>r, StreamStays DEF IInv, stateVars
<1>6. SessionInv'
  BY <1>0, <1>w DEF IInv, SessionInv, Empty, Idle
<1>7. HostDataOK' BY <1>0 DEF IInv, HostDataOK
<1> QED BY <1>1, <1>2, <1>3, <1>4, <1>5, <1>6, <1>7 DEF IInv

LEMMA TopKeeps ==
  ASSUME IInv, Top PROVE IInv'
<1>0. /\ pc = "top" /\ pc' = "rx" /\ moved' = FALSE /\ stale' = FALSE
      /\ was_configured' = configured
      /\ UNCHANGED <<stateVars, batch, late, lk, answer, parts, configured, wire,
                     alive, host_size, sent, awaiting>>
  BY DEF Top
<1>e. batch = <<>> /\ batch' = <<>> /\ Rest' = Rest
  BY <1>0 DEF IInv, SessionInv, Rest
(* A parser thrown away is idle already, or nothing is in reach of it. *)
<1>p. \/ P' = P
      \/ P' = ParserReset /\ ~alive /\ Rest = <<>>
  <2>0. wire = <<>> => Rest = <<>>
    BY <1>e DEF Rest
  <2>1. CASE ~((~Idle /\ TickExpires) \/ LinkEdge)
    BY <2>1 DEF Top
  <2>2. CASE TickExpires
    <3>1. ~alive /\ wire = <<>> BY <2>2 DEF TickExpires, IInv, SessionInv
    <3> QED BY <3>1, <2>0 DEF Top
  <2>3. CASE LinkEdge
    <3>1. P' = ParserReset BY <2>3 DEF Top
    <3>2. CASE was_configured
      <4>1. ~configured BY <2>3, <3>2 DEF LinkEdge, IInv, TypeOK
      <4> QED BY <3>1, <4>1, <2>0 DEF IInv, SessionInv
    <3>3. CASE ~was_configured
      <4>1. Idle BY <3>3 DEF IInv, SessionInv, Empty
      <4> QED BY <3>1, <4>1 DEF IInv, ParserShape
    <3> QED BY <3>2, <3>3
  <2> QED BY <2>1, <2>2, <2>3
<1>r. /\ ParserReset.op = 0 /\ ParserReset.pay_need = 0 /\ ParserReset.need = 0
      /\ ParserReset.got = 0 /\ ParserReset.pay_got = 0
      /\ ParserReset \in [op : Nat, need : 0..2, got : 0..2, arg : Nat,
                          pay_need : Nat, pay_got : Nat, pay_over : BOOLEAN]
  BY DEF ParserReset
<1>i. Idle' \/ P' = P
  BY <1>p, <1>r DEF Idle
<1>1. TypeOK'
  <2>1. away' \in {"no", "short", "long", "noticed"}
    BY DEF Top, IInv, TypeOK
  <2>2. /\ P'.need \in {0, 1, 2} /\ P'.got \in 0..P'.need
        /\ P'.op # 0 /\ P'.pay_need = 0 => P'.got < P'.need
        /\ P'.pay_need \in Nat /\ P'.pay_got \in 0..P'.pay_need
    BY <1>p, <1>r DEF IInv, TypeOK
  <2> QED BY <1>0, <2>1, <2>2 DEF IInv, TypeOK, stateVars
<1>2. NoMixedCommand' BY <1>0 DEF IInv, NoMixedCommand
<1>3. ParserShape' BY <1>p, <1>r DEF IInv, ParserShape, Idle
<1>4. LkShape' BY <1>0 DEF IInv, LkShape
<1>5. StreamInv'
  <2>0. batch' \in Seq(ByteOf) /\ wire' \in Seq(ByteOf)
    BY <1>0 DEF IInv, StreamInv
  <2>1. CASE P' = P
    BY <1>0, <1>e, <2>0, <2>1, StreamStays DEF IInv, stateVars
  <2>2. CASE ~alive /\ Rest = <<>>
    <3>1. HeadIsExpected' /\ SentWhole'
      BY <2>2, <1>0, <1>e DEF HeadIsExpected, SentWhole
    <3>2. (alive /\ host_size # 0 => SizedAfter(Rest, transfer_size, host_size))'
      BY <2>2, <1>0
    <3>3. Framed(Rest)' /\ Sized(Rest, transfer_size)'
      BY <1>0, <1>e DEF IInv, StreamInv, stateVars
    <3> QED BY <2>0, <3>1, <3>2, <3>3 DEF StreamInv
  <2> QED BY <1>p, <2>1, <2>2
<1>6. SessionInv'
  <2>1. ~was_configured' => Empty'
    <3> SUFFICES ASSUME ~configured PROVE Empty'
      BY <1>0
    <3>1. wire' = <<>> BY <1>0 DEF IInv, SessionInv
    <3>2. Idle'
      <4>1. CASE was_configured
        <5>1. LinkEdge BY <4>1 DEF LinkEdge
        <5> QED BY <5>1, <1>r DEF Top, Idle
      <4>2. CASE ~was_configured
        <5>1. Idle BY <4>2 DEF IInv, SessionInv, Empty
        <5> QED BY <5>1, <1>i DEF Idle
      <4> QED BY <4>1, <4>2
    <3> QED BY <1>0, <3>1, <3>2 DEF Empty
  <2>2. away' # "no" => ~alive'
    BY <1>0 DEF Top, IInv, SessionInv
  <2>3. away' = "noticed" => Empty'
    <3>1. CASE away = "long" /\ ~moved
      <4>1. wire = <<>> /\ (stale \/ Idle)
        BY <3>1 DEF IInv, SessionInv
      <4>2. Idle'
        <5>1. CASE Idle BY <5>1, <1>i DEF Idle
        <5>2. CASE ~Idle
          <6>1. ~Idle /\ TickExpires BY <3>1, <4>1, <5>2 DEF TickExpires
          <6> QED BY <6>1, <1>r DEF Top, Idle
        <5> QED BY <5>1, <5>2
      <4> QED BY <1>0, <4>1, <4>2 DEF Empty
    <3>2. CASE away = "long" /\ moved
      BY <3>2 DEF Top
    <3>3. CASE away # "long"
      <4>1. away' = away BY <3>3 DEF Top
      <4>2. away = "noticed" => Idle' /\ wire = <<>>
        BY <1>i DEF IInv, SessionInv, Empty, Idle
      <4> QED BY <1>0, <4>1, <4>2 DEF Empty
    <3> QED BY <3>1, <3>2, <3>3
  <2>4. away' # "long"
    BY DEF Top
  <2>5. ~configured' => ~alive' /\ wire' = <<>>
    BY <1>0 DEF IInv, SessionInv
  <2> QED BY <1>0, <1>e, <2>1, <2>2, <2>3, <2>4, <2>5 DEF SessionInv
<1>7. HostDataOK' BY <1>0 DEF IInv, HostDataOK
<1> QED BY <1>1, <1>2, <1>3, <1>4, <1>5, <1>6, <1>7 DEF IInv

LEMMA ElapseKeeps ==
  ASSUME IInv, Elapse PROVE IInv'
<1>0. /\ ~alive /\ wire = <<>> /\ stale' = ~Idle
      /\ late' \in BOOLEAN /\ stale' \in BOOLEAN
      /\ away' = IF away = "short" THEN "long" ELSE away
      /\ UNCHANGED <<P, moved, stateVars, pc, batch, was_configured, lk, answer,
                     parts, configured, wire, alive, host_size, sent, awaiting>>
  BY DEF Elapse, Idle
<1>1. TypeOK' BY <1>0 DEF IInv, TypeOK, stateVars
<1>2. NoMixedCommand' BY <1>0 DEF IInv, NoMixedCommand
<1>3. ParserShape' BY <1>0 DEF IInv, ParserShape, Idle
<1>4. LkShape' BY <1>0 DEF IInv, LkShape, Idle
<1>5. StreamInv'
  <2>1. Rest' = Rest BY <1>0 DEF Rest
  <2> QED BY <1>0, <2>1, StreamStays DEF IInv, StreamInv, stateVars
<1>6. SessionInv'
  BY <1>0 DEF IInv, SessionInv, Empty, Idle
<1>7. HostDataOK' BY <1>0 DEF IInv, HostDataOK
<1> QED BY <1>1, <1>2, <1>3, <1>4, <1>5, <1>6, <1>7 DEF IInv

-----------------------------------------------------------------------------
(* The host and the link.                                                   *)

(* What a host that is gone had sent may be cut anywhere. *)
LEMMA StreamCut ==
  ASSUME StreamInv, ~alive', UNCHANGED <<P, lk, parts, transfer_size, pc, batch>>,
         NEW d \in 0..Len(wire), wire' = SubSeq(wire, 1, d)
  PROVE  StreamInv'
<1>1. batch \in Seq(ByteOf) /\ wire \in Seq(ByteOf) BY DEF StreamInv
<1>2. wire' \in Seq(ByteOf) /\ Len(wire') = d /\ \A k \in 1..d : wire'[k] = wire[k]
  BY <1>1, PrefixIs
<1> DEFINE s == Rest
           t == Rest'
<1>3. /\ s \in Seq(ByteOf) /\ Len(s) = Len(batch) + Len(wire)
      /\ \A k \in 1..Len(batch) : s[k] = batch[k]
      /\ \A k \in 1..Len(wire) : s[Len(batch) + k] = wire[k]
  BY <1>1, JoinedIs DEF Rest
<1>4. t = batch \o wire' BY DEF Rest
<1>5. /\ t \in Seq(ByteOf) /\ Len(t) = Len(batch) + d
      /\ \A k \in 1..Len(batch) : t[k] = batch[k]
      /\ \A k \in 1..d : t[Len(batch) + k] = wire'[k]
  BY <1>1, <1>2, <1>4, JoinedIs
<1>h. /\ HeadIsExpected' <=>
           (t # <<>> =>
              IF Open THEN /\ \A x \in parts : x = t[1].c.id
                           /\ IF pc = "lk" THEN LkTakes(t[1]) ELSE ParserTakes(t[1])
                      ELSE t[1].i = 1)
      /\ HeadIsExpected <=>
           (s # <<>> =>
              IF Open THEN /\ \A x \in parts : x = s[1].c.id
                           /\ IF pc = "lk" THEN LkTakes(s[1]) ELSE ParserTakes(s[1])
                      ELSE s[1].i = 1)
  <2>1. Open' = Open BY DEF Open
  <2> QED BY <2>1 DEF HeadIsExpected, LkTakes, ParserTakes
<1>f. Framed(s) /\ Sized(s, transfer_size) /\ HeadIsExpected BY DEF StreamInv
<1>g. (Framed(t) => Framed(Rest)')
      /\ (Sized(t, transfer_size) => Sized(Rest, transfer_size)')
  OBVIOUS
<1> HIDE DEF s, t
<1>6. Len(t) <= Len(s) /\ \A k \in 1..Len(t) : t[k] = s[k]
  <2>1. Len(batch) \in Nat /\ Len(wire) \in Nat /\ d \in Nat /\ d <= Len(wire)
    BY <1>1
  <2>2. ASSUME NEW k \in 1..Len(t) PROVE t[k] = s[k]
    <3>1. CASE k <= Len(batch)
      <4>1. k \in 1..Len(batch) BY <3>1
      <4> QED BY <4>1, <1>3, <1>5
    <3>2. CASE k > Len(batch)
      <4> DEFINE m == k - Len(batch)
      <4>1. m \in 1..d /\ m \in 1..Len(wire) /\ Len(batch) + m = k
        BY <3>2, <2>1, <1>5
      <4> HIDE DEF m
      <4>2. t[Len(batch) + m] = wire'[m] /\ s[Len(batch) + m] = wire[m]
        BY <4>1, <1>3, <1>5
      <4> QED BY <4>1, <4>2, <1>2
    <3>3. k <= Len(batch) \/ k > Len(batch) BY <2>1
    <3> QED BY <3>1, <3>2, <3>3
  <2> QED BY <2>1, <2>2, <1>3, <1>5
<1>7. Framed(t) /\ Sized(t, transfer_size)
  BY <1>3, <1>5, <1>6, <1>f, FramedBefore, SizedBefore
<1>8. HeadIsExpected'
  <2>1. t # <<>> => s # <<>> /\ t[1] = s[1]
    <3> SUFFICES ASSUME t # <<>> PROVE s # <<>> /\ t[1] = s[1]
      OBVIOUS
    <3>1. 1 \in 1..Len(t) /\ Len(t) >= 1 BY <1>5
    <3> QED BY <3>1, <1>3, <1>6
  <2> QED BY <2>1, <1>f, <1>h
<1>9. SentWhole' BY DEF SentWhole
<1> QED BY <1>1, <1>2, <1>7, <1>8, <1>9, <1>g DEF StreamInv

LEMMA HostDiesKeeps ==
  ASSUME IInv, HostDies PROVE IInv'
<1>0. /\ alive /\ ~alive' /\ alive' = FALSE /\ away' = "short"
      /\ UNCHANGED <<P, moved, stale, stateVars, pc, batch, was_configured, late, lk,
                     answer, parts, configured, host_size, sent>>
  BY DEF HostDies, parserVars, loopVars
<1>s. PICK d \in 0..Len(wire) : wire' = SubSeq(wire, 1, d)
  BY DEF HostDies
<1>w. wire = <<>> => wire' = <<>>
  BY <1>s
<1>1. TypeOK' BY <1>0 DEF IInv, TypeOK, stateVars
<1>2. NoMixedCommand' BY <1>0 DEF IInv, NoMixedCommand
<1>3. ParserShape' BY <1>0 DEF IInv, ParserShape, Idle
<1>4. LkShape' BY <1>0 DEF IInv, LkShape, Idle
<1>5. StreamInv' BY <1>0, <1>s, StreamCut DEF IInv, stateVars
<1>6. SessionInv'
  BY <1>0, <1>w DEF IInv, SessionInv, Empty, Idle
<1>7. HostDataOK' BY <1>0 DEF IInv, HostDataOK
<1> QED BY <1>1, <1>2, <1>3, <1>4, <1>5, <1>6, <1>7 DEF IInv

LEMMA LinkResetKeeps ==
  ASSUME IInv, LinkReset PROVE IInv'
<1>0. /\ ~alive' /\ alive' = FALSE /\ away' = "short" /\ configured' = FALSE
      /\ wire' = <<>>
      /\ UNCHANGED <<P, moved, stale, stateVars, pc, batch, was_configured, late, lk,
                     answer, parts, host_size, sent>>
  BY DEF LinkReset, parserVars, loopVars
<1>s. 0 \in 0..Len(wire) /\ wire' = SubSeq(wire, 1, 0)
  <2>1. wire \in Seq(ByteOf) BY DEF IInv, StreamInv
  <2> QED BY <2>1, <1>0
<1>1. TypeOK' BY <1>0 DEF IInv, TypeOK, stateVars
<1>2. NoMixedCommand' BY <1>0 DEF IInv, NoMixedCommand
<1>3. ParserShape' BY <1>0 DEF IInv, ParserShape, Idle
<1>4. LkShape' BY <1>0 DEF IInv, LkShape, Idle
<1>5. StreamInv' BY <1>0, <1>s, StreamCut DEF IInv, stateVars
<1>6. SessionInv'
  BY <1>0 DEF IInv, SessionInv, Empty, Idle
<1>7. HostDataOK' BY <1>0 DEF IInv, HostDataOK
<1> QED BY <1>1, <1>2, <1>3, <1>4, <1>5, <1>6, <1>7 DEF IInv

(* A new session finds the loop at rest, unless a reset and an enumeration  *)
(* fit inside one of its waits.                                             *)
LEMMA ReopenKeeps ==
  ASSUME QuickReset = FALSE, IInv, Reopen PROVE IInv'
<1>0. /\ ~alive /\ alive' = TRUE /\ away' = "no" /\ configured' = TRUE
      /\ wire' = <<>> /\ host_size' = 0
      /\ UNCHANGED <<P, moved, stale, stateVars, pc, batch, was_configured, late, lk,
                     answer, parts, sent>>
  BY DEF Reopen, parserVars, loopVars
<1>e. Empty
  <2>1. away = "noticed" \/ ~was_configured BY DEF Reopen, SessionMayOpen
  <2> QED BY <2>1 DEF IInv, SessionInv
<1>b. /\ batch = <<>> /\ Idle /\ pc \in {"top", "rx"} /\ wire = <<>> /\ ~stale
      /\ ~Open
  <2>1. P.op = 0 /\ pc # "lk" BY <1>e DEF Empty, Idle
  <2> QED BY <1>e, <2>1 DEF Empty, IInv, SessionInv, Open
<1>r. Rest = <<>> /\ Rest' = <<>>
  BY <1>0, <1>b DEF Rest
<1>1. TypeOK' BY <1>0 DEF IInv, TypeOK, stateVars
<1>2. NoMixedCommand' BY <1>0 DEF IInv, NoMixedCommand
<1>3. ParserShape' BY <1>0 DEF IInv, ParserShape, Idle
<1>4. LkShape' BY <1>0 DEF IInv, LkShape, Idle
<1>5. StreamInv'
  <2>1. batch' \in Seq(ByteOf) /\ wire' \in Seq(ByteOf)
    BY <1>0, <1>b DEF IInv, StreamInv
  <2>2. HeadIsExpected' BY <1>r DEF HeadIsExpected
  <2>3. SentWhole' BY <1>0, <1>b, <1>r DEF SentWhole, Open
  <2>4. Framed(Rest)' /\ Sized(Rest, transfer_size)'
    BY <1>0, <1>r DEF IInv, StreamInv, stateVars
  <2> QED BY <1>0, <2>1, <2>2, <2>3, <2>4 DEF StreamInv
<1>6. SessionInv'
  BY <1>0, <1>b, <1>e DEF IInv, SessionInv, Empty, Idle
<1>7. HostDataOK' BY <1>0 DEF IInv, HostDataOK
<1> QED BY <1>1, <1>2, <1>3, <1>4, <1>5, <1>6, <1>7 DEF IInv

(* A command of a host is one as Command describes it, and goes out whole.  *)
LEMMA ChoicesAre ==
  ASSUME HostDataOK, NEW x \in Choices, NEW c,
         c = [id |-> sent + 1, op |-> x.op, n |-> x.n]
  PROVE  /\ c \in Command
         /\ c.op \in SizedOps => host_size # 0 /\ c.n = host_size
<1>0. /\ CMD_SET_SIZE \in Nat /\ CMD_BATCH \in Nat
      /\ \A op \in PlainOps : op \in Nat /\ op # CMD_SET_SIZE /\ op \notin SizedOps
      /\ \A op \in SizedOps \cup ReadOps : op \in Nat /\ op # CMD_SET_SIZE
      /\ CMD_SET_SIZE \notin SizedOps /\ CMD_BATCH \notin SizedOps
      /\ CMD_SET_SIZE # CMD_BATCH
  BY DEF CMD_SET_SIZE, CMD_BATCH, PlainOps, SizedOps, ReadOps, CMD_RESYNC,
         CMD_SET_MODE_AGB, CMD_SET_MODE_DMG, CMD_PING, CMD_SAVE_WRITE,
         CMD_FLASH_PROGRAM, CMD_CART_READ, CMD_READ_3D
<1>1. /\ c.id = sent + 1 /\ c.op = x.op /\ c.n = x.n
      /\ sent + 1 \in Nat
  BY DEF HostDataOK
<1>2. /\ x.op \in Nat /\ x.n \in Nat
      /\ x.op = CMD_SET_SIZE => x.n \in Sizes
      /\ x.op \in SizedOps => host_size # 0 /\ x.n = host_size /\ x.n > 0
  <2>s. \A z \in Sizes : z \in Nat /\ z > 0 BY ConstantsAre
  <2>1. CASE x \in [op : {CMD_SET_SIZE}, n : Sizes]
    BY <2>1, <2>s, <1>0
  <2>2. CASE x \in [op : {CMD_BATCH}, n : Counts]
    BY <2>2, <1>0, ConstantsAre
  <2>3. CASE x \in [op : PlainOps, n : {1}]
    BY <2>3, <1>0
  <2>4. CASE host_size # 0 /\ x \in [op : SizedOps \cup ReadOps, n : {host_size}]
    <3>1. host_size \in Nat /\ host_size > 0 BY <2>4, <2>s DEF HostDataOK
    <3>2. x.op \in SizedOps \cup ReadOps /\ x.n = host_size BY <2>4
    <3> QED BY <2>4, <3>1, <3>2, <1>0
  <2> QED BY <2>1, <2>2, <2>3, <2>4 DEF Choices
<1>3. c \in [id : Nat, op : Nat, n : Nat]
  BY <1>1, <1>2
<1>4. c.op \in {CMD_SET_SIZE} \cup PayloadOps \cup ReadOps \cup PlainOps
  BY <1>1 DEF Choices, PayloadOps
<1> QED BY <1>1, <1>2, <1>3, <1>4 DEF Command

LEMMA ListIs ==
  ASSUME NEW S, NEW l \in Nat, NEW w \in [1..l -> S]
  PROVE  w \in Seq(S) /\ Len(w) = l
<1>1. w \in Seq(S) OBVIOUS
<1>2. DOMAIN w = 1..l OBVIOUS
<1>3. Len(w) = l BY <1>1, <1>2
<1> QED BY <1>1, <1>3

LEMMA SentBytesAre ==
  ASSUME NEW c \in Command, NEW w, w = [i \in 1..SentLength(c) |-> Byte(c, i)]
  PROVE  /\ SentLength(c) \in Nat /\ SentLength(c) >= 1
         /\ w \in Seq(ByteOf) /\ Len(w) = SentLength(c)
         /\ \A k \in 1..SentLength(c) : w[k].c = c /\ w[k].i = k
<1>0. c.op \in Nat /\ c.n \in Nat
  BY DEF Command
<1>1. SentLength(c) \in Nat /\ SentLength(c) >= 1
  <2>1. SentPayload(c) \in Nat BY <1>0 DEF SentPayload
  <2>2. SentArgs(c.op) \in 0..2 BY ArgsAre
  <2> QED BY <2>1, <2>2 DEF SentLength
<1>2. ASSUME NEW k \in 1..SentLength(c)
      PROVE  w[k].c = c /\ w[k].i = k /\ w[k] \in ByteOf
  <2>1. w[k] = [c |-> c, i |-> k] BY DEF Byte
  <2>2. k \in Nat OBVIOUS
  <2> QED BY <2>1, <2>2 DEF ByteOf
<1> DEFINE l == SentLength(c)
<1>3. w \in [1..l -> ByteOf] /\ l \in Nat BY <1>1, <1>2
<1> HIDE DEF l
<1>4. w \in Seq(ByteOf) /\ Len(w) = l BY <1>3, ListIs
<1> QED BY <1>1, <1>2, <1>4 DEF l

LEMMA IssueKeeps ==
  ASSUME IInv, Issue PROVE IInv'
<1>0. /\ alive /\ was_configured /\ sent' = sent + 1
      /\ UNCHANGED <<P, moved, stale, stateVars, pc, batch, was_configured, late, lk,
                     answer, parts, configured, alive, away>>
  BY DEF Issue, parserVars, loopVars
<1>x. PICK x \in Choices :
        LET c == [id |-> sent + 1, op |-> x.op, n |-> x.n] IN
          /\ wire' = wire \o [i \in 1..SentLength(c) |-> Byte(c, i)]
          /\ awaiting' = awaiting \cup {c}
          /\ host_size' = IF c.op = CMD_SET_SIZE THEN c.n ELSE host_size
  BY DEF Issue
<1> SUFFICES ASSUME NEW c, c = [id |-> sent + 1, op |-> x.op, n |-> x.n],
                    NEW w, w = [i \in 1..SentLength(c) |-> Byte(c, i)]
             PROVE  IInv'
  OBVIOUS
<1>y. /\ wire' = wire \o w
      /\ host_size' = IF c.op = CMD_SET_SIZE THEN c.n ELSE host_size
  BY <1>x
<1>c. c \in Command /\ (c.op \in SizedOps => host_size # 0 /\ c.n = host_size)
  BY ChoicesAre DEF IInv
<1>w. /\ SentLength(c) \in Nat /\ SentLength(c) >= 1
      /\ w \in Seq(ByteOf) /\ Len(w) = SentLength(c)
      /\ \A k \in 1..SentLength(c) : w[k].c = c /\ w[k].i = k
  BY <1>c, SentBytesAre
<1>t. batch \in Seq(ByteOf) /\ wire \in Seq(ByteOf) BY DEF IInv, StreamInv
<1>u. batch' \in Seq(ByteOf) /\ wire' \in Seq(ByteOf)
  BY <1>0, <1>t, <1>w, <1>y, JoinedIs
<1>1. TypeOK' BY <1>0 DEF IInv, TypeOK, stateVars
<1>2. NoMixedCommand' BY <1>0 DEF IInv, NoMixedCommand
<1>3. ParserShape' BY <1>0 DEF IInv, ParserShape, Idle
<1>4. LkShape' BY <1>0 DEF IInv, LkShape, Idle
<1>5. StreamInv'
  <2>1. SUFFICES ASSUME NEW s, s = Rest, NEW t, t = Rest' PROVE StreamInv'
    OBVIOUS
  <2>2. t = s \o w
    <3>1. batch' \o wire' = batch \o (wire \o w) BY <1>0, <1>y
    <3>2. batch \o (wire \o w) = (batch \o wire) \o w BY <1>t, <1>w
    <3> QED BY <2>1, <3>1, <3>2 DEF Rest
  <2>3. s \in Seq(ByteOf) /\ Len(s) \in Nat /\ (s # <<>> <=> Len(s) > 0)
    BY <1>t, <2>1, RestIs DEF RestKnown
  <2>4. /\ t \in Seq(ByteOf) /\ Len(t) = Len(s) + Len(w)
        /\ \A k \in 1..Len(s) : t[k] = s[k]
        /\ \A k \in 1..Len(w) : t[Len(s) + k] = w[k]
    BY <1>w, <2>2, <2>3, JoinedIs
  <2>5. Extends(s, t, c)
    BY <1>w, <2>4 DEF Extends
  <2>6. /\ Framed(s) /\ Sized(s, transfer_size)
        /\ host_size # 0 => SizedAfter(s, transfer_size, host_size)
        /\ s # <<>> => s[Len(s)].i = SentLength(s[Len(s)].c)
        /\ s = <<>> => ~Open
    BY <1>0, <2>1 DEF IInv, StreamInv, SentWhole
  <2>7. Framed(t)
    BY <1>c, <1>w, <2>3, <2>4, <2>5, <2>6, FramedWith
  <2>8. /\ Sized(t, transfer_size)
        /\ c.op = CMD_SET_SIZE => SizedAfter(t, transfer_size, c.n)
        /\ c.op # CMD_SET_SIZE /\ SizedAfter(s, transfer_size, host_size)
             => SizedAfter(t, transfer_size, host_size)
    BY <1>c, <1>w, <2>3, <2>4, <2>5, <2>6, SizedWith
  <2>9. (alive /\ host_size # 0 => SizedAfter(Rest, transfer_size, host_size))'
    <3>1. host_size' # 0 => SizedAfter(t, transfer_size, host_size')
      BY <1>y, <2>6, <2>8
    <3> QED BY <1>0, <2>1, <3>1 DEF stateVars
  <2>10. Framed(Rest)' /\ Sized(Rest, transfer_size)'
    BY <1>0, <2>1, <2>7, <2>8 DEF stateVars
  <2>11. Open' = Open BY <1>0 DEF Open
  <2>12. HeadIsExpected'
    <3>1. CASE s = <<>>
      <4>1. Len(s) + 1 = 1 /\ 1 \in 1..SentLength(c) BY <3>1, <2>3, <1>w
      <4>2. t[1].i = 1 BY <4>1, <2>5 DEF Extends
      <4> QED BY <3>1, <4>2, <2>1, <2>6, <2>11 DEF HeadIsExpected
    <3>2. CASE s # <<>>
      <4>1. 1 \in 1..Len(s) BY <3>2, <2>3
      <4>2. t[1] = s[1] BY <4>1, <2>4
      <4>3. HeadIsExpected BY DEF IInv, StreamInv
      <4>4. (Rest')[1] = Rest[1] /\ Rest # <<>> BY <3>2, <4>2, <2>1
      <4> QED BY <4>3, <4>4, <1>0, <2>11 DEF HeadIsExpected, LkTakes, ParserTakes
    <3> QED BY <3>1, <3>2
  <2>13. SentWhole'
    <3>1. /\ Len(t) = Len(s) + SentLength(c) /\ SentLength(c) \in 1..SentLength(c)
          /\ t # <<>>
      BY <1>w, <2>3, <2>4
    <3>2. t[Len(s) + SentLength(c)].c = c /\ t[Len(s) + SentLength(c)].i = SentLength(c)
      BY <3>1, <2>5 DEF Extends
    <3>3. t[Len(t)].i = SentLength(t[Len(t)].c) BY <3>1, <3>2
    <3> QED BY <3>1, <3>3, <2>1 DEF SentWhole
  <2> QED BY <1>u, <2>9, <2>10, <2>12, <2>13 DEF StreamInv
<1>6. SessionInv'
  <2>1. was_configured' /\ configured' /\ ~stale' /\ away' = "no"
    BY <1>0 DEF IInv, SessionInv
  <2> QED BY <1>0, <2>1 DEF IInv, SessionInv
<1>7. HostDataOK'
  <2>1. sent' \in Nat BY <1>0 DEF IInv, HostDataOK
  <2>2. host_size' \in {0} \cup Sizes
    BY <1>c, <1>y DEF IInv, HostDataOK, Command
  <2> QED BY <2>1, <2>2 DEF HostDataOK
<1> QED BY <1>1, <1>2, <1>3, <1>4, <1>5, <1>6, <1>7 DEF IInv

-----------------------------------------------------------------------------
(* A command inside LK's dispatcher. *)

LEMMA LkFacts ==
  ASSUME IInv, pc = "lk"
  PROVE  /\ lk.header \in 0..2 /\ lk.want \in Nat /\ lk.refused \in BOOLEAN
         /\ lk.header > 0 => lk.want = 0
         /\ lk \in [header : 0..2, want : Nat, refused : BOOLEAN]
         /\ Idle /\ P.op = 0 /\ P = ParserReset
         /\ was_configured /\ ~(away = "noticed")
         /\ Open <=> lk.header + lk.want > 0
<1>1. lk \in [header : 0..2, want : Nat, refused : BOOLEAN] BY DEF IInv, LkShape
<1>2. Idle /\ (lk.header > 0 => lk.want = 0) BY DEF IInv, LkShape
<1>3. P.op = 0 /\ P = ParserReset BY <1>2 DEF Idle, IInv, ParserShape
<1>4. was_configured /\ ~(away = "noticed") BY DEF IInv, SessionInv, Empty
<1>5. Open <=> lk.header + lk.want > 0 BY DEF Open
<1>6. lk.header \in 0..2 /\ lk.want \in Nat /\ lk.refused \in BOOLEAN BY <1>1
<1> QED BY <1>1, <1>2, <1>3, <1>4, <1>5, <1>6

LEMMA NoLkIs ==
  /\ NoLk \in [header : 0..2, want : Nat, refused : BOOLEAN]
  /\ NoLk.header = 0 /\ NoLk.want = 0 /\ NoLk.refused = FALSE
BY DEF NoLk

LEMMA LkGiveUpKeeps ==
  ASSUME IInv, LkGiveUp PROVE IInv'
<1>0. /\ pc = "lk" /\ pc' = "feed" /\ late' = FALSE /\ lk' = NoLk
      /\ lk.header + lk.want > 0
      /\ answer' = Answer(0, "ERROR", 0) /\ Rest = <<>>
      /\ UNCHANGED <<P, moved, stale, stateVars, batch, was_configured, parts, hostVars>>
  BY DEF LkGiveUp, LkWants, parserVars, Rest
<1>f. Open /\ Idle /\ P.op = 0 /\ was_configured /\ ~(away = "noticed")
  BY <1>0, LkFacts
<1>r. Rest' = <<>> /\ ~Open'
  BY <1>0, <1>f DEF Rest, Open, hostVars
<1>1. TypeOK'
  <2>1. answer'.kind = "ERROR" BY <1>0 DEF Answer
  <2> QED BY <1>0, <2>1, NoLkIs DEF IInv, TypeOK, stateVars, hostVars
<1>2. NoMixedCommand' BY <1>0 DEF IInv, NoMixedCommand
<1>3. ParserShape' BY <1>0 DEF IInv, ParserShape, Idle
<1>4. LkShape' BY <1>0, NoLkIs DEF LkShape
<1>5. StreamInv'
  <2>1. batch' \in Seq(ByteOf) /\ wire' \in Seq(ByteOf)
    BY <1>0 DEF IInv, StreamInv, hostVars
  <2>2. HeadIsExpected' BY <1>r DEF HeadIsExpected
  <2>3. SentWhole' BY <1>r DEF SentWhole
  <2>4. Framed(Rest)' /\ Sized(Rest, transfer_size)'
    BY <1>0, <1>r DEF IInv, StreamInv, stateVars
  <2>5. (alive /\ host_size # 0 => SizedAfter(Rest, transfer_size, host_size))'
    BY <1>0, <1>r DEF IInv, StreamInv, stateVars, hostVars
  <2> QED BY <2>1, <2>2, <2>3, <2>4, <2>5 DEF StreamInv
<1>6. SessionInv'
  BY <1>0, <1>f DEF IInv, SessionInv, Idle, hostVars
<1>7. HostDataOK' BY <1>0 DEF IInv, HostDataOK, hostVars
<1> QED BY <1>1, <1>2, <1>3, <1>4, <1>5, <1>6, <1>7 DEF IInv

LEMMA LkDoneKeeps ==
  ASSUME IInv, LkDone PROVE IInv'
<1>0. /\ pc = "lk" /\ pc' = "feed" /\ lk' = NoLk
      /\ lk.header + lk.want = 0
      /\ answer'.kind \in {"ERROR", "ACK"}
      /\ UNCHANGED <<P, moved, stale, stateVars, batch, was_configured, late, parts,
                     hostVars>>
  <2>1. answer'.kind \in {"ERROR", "ACK"}
    <3>1. PICK id \in parts :
            Answered([id |-> id], IF lk.refused THEN "ERROR" ELSE "ACK", 0)
      BY DEF LkDone
    <3>2. answer' = Answer([id |-> id].id, IF lk.refused THEN "ERROR" ELSE "ACK", 0)
      BY <3>1 DEF Answered
    <3> QED BY <3>2 DEF Answer
  <2> QED BY <2>1 DEF LkDone, parserVars
<1>f. ~Open /\ Idle /\ P.op = 0 /\ was_configured /\ ~(away = "noticed")
  <2>1. ~(lk.header + lk.want > 0) BY <1>0
  <2> QED BY <1>0, <2>1, LkFacts
<1>r. Rest' = Rest /\ ~Open'
  BY <1>0, <1>f DEF Rest, Open, hostVars
<1>1. TypeOK'
  BY <1>0, NoLkIs DEF IInv, TypeOK, stateVars, hostVars
<1>2. NoMixedCommand' BY <1>0 DEF IInv, NoMixedCommand
<1>3. ParserShape' BY <1>0 DEF IInv, ParserShape, Idle
<1>4. LkShape' BY <1>0, NoLkIs DEF LkShape
<1>5. StreamInv'
  <2>1. batch' \in Seq(ByteOf) /\ wire' \in Seq(ByteOf)
    BY <1>0 DEF IInv, StreamInv, hostVars
  <2>2. HeadIsExpected'
    <3>1. HeadIsExpected BY DEF IInv, StreamInv
    <3> QED BY <1>f, <1>r, <3>1 DEF HeadIsExpected
  <2>3. SentWhole'
    <3>1. SentWhole BY DEF IInv, StreamInv
    <3> QED BY <1>0, <1>r, <3>1 DEF SentWhole, hostVars
  <2>4. Framed(Rest)' /\ Sized(Rest, transfer_size)'
    BY <1>0, <1>r DEF IInv, StreamInv, stateVars
  <2>5. (alive /\ host_size # 0 => SizedAfter(Rest, transfer_size, host_size))'
    BY <1>0, <1>r DEF IInv, StreamInv, stateVars, hostVars
  <2> QED BY <2>1, <2>2, <2>3, <2>4, <2>5 DEF StreamInv
<1>6. SessionInv'
  BY <1>0, <1>f DEF IInv, SessionInv, Idle, hostVars
<1>7. HostDataOK' BY <1>0 DEF IInv, HostDataOK, hostVars
<1> QED BY <1>1, <1>2, <1>3, <1>4, <1>5, <1>6, <1>7 DEF IInv

-----------------------------------------------------------------------------
(* A reader takes the byte at the head.                                     *)

LEMMA HeadIs ==
  ASSUME IInv, Rest # <<>>
  PROVE  /\ Rest[1] \in ByteOf /\ 1 \in 1..Len(Rest)
         /\ Rest[1].c.op \in SizedOps => Rest[1].c.n = transfer_size
         /\ Open => /\ \A x \in parts : x = Rest[1].c.id
                    /\ pc = "lk" => LkTakes(Rest[1])
                    /\ pc # "lk" => ParserTakes(Rest[1])
         /\ ~Open => Rest[1].i = 1
<1>1. RestKnown BY RestIs DEF IInv, StreamInv
<1>2. Rest[1] \in ByteOf /\ 1 \in 1..Len(Rest) BY <1>1 DEF RestKnown
<1>3. Rest[1].c.op \in SizedOps => Rest[1].c.n = transfer_size
  <2>1. 0 \in 0..1 - 1 OBVIOUS
  <2>2. Governs(Rest, 0, 1) BY DEF Governs
  <2>3. Sized(Rest, transfer_size) BY DEF IInv, StreamInv
  <2>4. SizeFrom(Rest, transfer_size, 0) = transfer_size BY DEF SizeFrom
  <2> QED BY <1>2, <2>1, <2>2, <2>3, <2>4 DEF Sized
<1>4. HeadIsExpected BY DEF IInv, StreamInv
<1> QED BY <1>2, <1>3, <1>4 DEF HeadIsExpected

LEMMA FromBatch ==
  ASSUME IInv, batch # <<>>, batch' = Tail(batch), wire' = wire
  PROVE  /\ Rest # <<>> /\ Head(batch) = Rest[1]
         /\ batch' \in Seq(ByteOf) /\ wire' \in Seq(ByteOf)
         /\ Len(batch') <= RxMax
         /\ Rest' \in Seq(ByteOf) /\ Behind(Rest, Rest', 1)
<1>1. batch \in Seq(ByteOf) /\ wire \in Seq(ByteOf) /\ Len(batch) <= RxMax
  BY DEF IInv, StreamInv, TypeOK
<1>2. RestKnown BY <1>1, RestIs
<1>3. /\ Tail(batch) \in Seq(ByteOf) /\ Behind(batch, Tail(batch), 1)
      /\ Head(batch) = batch[1] /\ 1 \in 1..Len(batch)
  BY <1>1, TailIs
<1>4. Rest[1] = batch[1] BY <1>1, <1>3, JoinedIs DEF Rest
<1>5. Rest' = Tail(batch) \o wire BY DEF Rest
<1>6. Rest' \in Seq(ByteOf) BY <1>1, <1>3, <1>5, JoinedIs
<1>7. Behind(Rest, Rest', 1) BY <1>1, <1>3, <1>5, BehindBatch DEF Rest
<1>8. Len(batch') <= RxMax
  <2>1. Len(batch') = Len(batch) - 1 /\ Len(batch) \in Nat BY <1>1, <1>3 DEF Behind
  <2>2. RxMax \in Nat BY ConstantsAre
  <2> QED BY <1>1, <2>1, <2>2
<1> QED BY <1>1, <1>2, <1>3, <1>4, <1>6, <1>7, <1>8 DEF RestKnown

LEMMA FromWire ==
  ASSUME IInv, batch = <<>>, wire # <<>>, wire' = Tail(wire), batch' = batch
  PROVE  /\ Rest # <<>>
         /\ batch' \in Seq(ByteOf) /\ wire' \in Seq(ByteOf)
         /\ Rest' \in Seq(ByteOf) /\ Behind(Rest, Rest', 1)
<1>1. batch \in Seq(ByteOf) /\ wire \in Seq(ByteOf)
  BY DEF IInv, StreamInv
<1>2. Tail(wire) \in Seq(ByteOf) /\ Behind(wire, Tail(wire), 1)
  BY <1>1, TailIs
<1>3. Rest = wire /\ Rest' = Tail(wire)
  BY <1>1, <1>2, EmptyJoins DEF Rest
<1> QED BY <1>1, <1>2, <1>3

LEMMA ValueIs ==
  ASSUME NEW b \in ByteOf
  PROVE  /\ ValueOf(b) \in Nat
         /\ b.i = 1 => ValueOf(b) = b.c.op
         /\ b.i # 1 /\ b.i <= 1 + SentArgs(b.c.op) => ValueOf(b) = b.c.n
BY ByteIs, ConstantsAre DEF ValueOf

(* The last byte of a command. *)
Ends(b) == b.i = SentLength(b.c)

(* A reader has taken the byte at the head, and left all as it must. *)
TakesByte ==
  \E b \in ByteOf :
    /\ Rest # <<>> /\ b = Rest[1] /\ Ready(b)'
    /\ Rest' \in Seq(ByteOf) /\ Behind(Rest, Rest', 1)
    /\ b.c.id \in parts' /\ \A x \in parts' : x = b.c.id

(* ... or a run of payload, of which no byte but the last ends the command. *)
TakesRun(k) ==
  \E b \in ByteOf :
    /\ k \in 1..Len(Rest) /\ b = Rest[k] /\ b = batch[k] /\ Ready(b)'
    /\ Rest' \in Seq(ByteOf) /\ Behind(Rest, Rest', k)
    /\ \A m \in 1..k - 1 : ~Ends(Rest[m])
    /\ b.c.op = P.op /\ P.op \in PayloadOps /\ P.pay_need = SentPayload(b.c)

(* The state a command without a payload leaves. *)
LEMMA ExecuteIs ==
  ASSUME IInv, NEW op, NEW arg, NEW c, Execute(op, arg, c),
         op = CMD_SET_SIZE => arg \in Sizes
  PROVE  /\ transfer_size' = IF op = CMD_SET_SIZE THEN arg ELSE transfer_size
         /\ transfer_size' \in 1..TransferMax
         /\ mode' \in {"NONE", "AGB", "DMG"}
         /\ page_terminator_due' \in BOOLEAN
         /\ answer'.kind \in {"NONE", "PONG", "DATA", "ACK", "ERROR"}
<1>1. /\ transfer_size \in 1..TransferMax /\ mode \in {"NONE", "AGB", "DMG"}
      /\ answer.kind \in {"NONE", "PONG", "DATA", "ACK", "ERROR"}
      /\ TransferMax \in Nat
  BY ConstantsAre DEF IInv, TypeOK
<1>2. transfer_size' = IF op = CMD_SET_SIZE THEN arg ELSE transfer_size
  <2>1. op = CMD_SET_SIZE => arg \in Nat /\ arg <= TransferMax
    BY ConstantsAre
  <2>2. op = CMD_SET_SIZE => MinOf(arg, TransferMax) = arg
    BY <1>1, <2>1 DEF MinOf
  <2> QED BY <2>2 DEF Execute
<1>3. transfer_size' \in 1..TransferMax
  BY <1>1, <1>2, ConstantsAre
<1>4. mode' \in {"NONE", "AGB", "DMG"}
  BY <1>1 DEF Execute
<1>5. page_terminator_due' \in BOOLEAN
  BY DEF Execute, TerminatorAfter
<1>6. answer'.kind \in {"NONE", "PONG", "DATA", "ACK", "ERROR"}
  <2>1. \/ answer' = answer
        \/ \E k \in {"PONG", "DATA", "ACK", "ERROR"} : \E n : answer' = Answer(c.id, k, n)
    BY DEF Execute, Answered, NotAnswered
  <2> QED BY <1>1, <2>1 DEF Answer
<1> QED BY <1>2, <1>3, <1>4, <1>5, <1>6

LEMMA AdmitIs ==
  ASSUME NEW n \in Nat, NEW max \in Nat
  PROVE  /\ Admit(n, max) \in [header : 0..2, want : Nat, refused : BOOLEAN]
         /\ Admit(n, max).header = 0 /\ Admit(n, max).want = n
BY DEF Admit

LEMMA LkStartKeeps ==
  ASSUME IInv, LkStart PROVE IInv' /\ TakesByte
<1> SUFFICES ASSUME NEW b, b = Rest[1] PROVE IInv' /\ TakesByte
  OBVIOUS
<1> DEFINE op == b.c.op
<1>0. /\ pc = "feed" /\ pc' = "lk" /\ late' = FALSE /\ batch # <<>> /\ Idle
      /\ batch' = Tail(batch) /\ wire' = wire
      /\ UNCHANGED <<P, moved, stale, stateVars, was_configured, answer, configured,
                     alive, away, host_size, sent>>
  BY DEF LkStart, Feeding, parserVars, hostVars
<1>h. /\ Rest # <<>> /\ Head(batch) = b
      /\ batch' \in Seq(ByteOf) /\ wire' \in Seq(ByteOf)
      /\ Len(batch') <= RxMax
      /\ Rest' \in Seq(ByteOf) /\ Behind(Rest, Rest', 1)
  BY <1>0, FromBatch
<1>o. ~Open /\ P.op = 0
  BY <1>0 DEF Open, Idle
<1>b. /\ b \in ByteOf /\ b.i = 1 /\ ValueOf(b) = op
      /\ op \in SizedOps => b.c.n = transfer_size
  BY <1>h, <1>o, HeadIs, ValueIs
<1>r. /\ op = CMD_SAVE_WRITE \/ op = CMD_BATCH
      /\ lk' = IF op = CMD_BATCH THEN [NoLk EXCEPT !.header = 2]
               ELSE Admit(transfer_size, LkPayloadMax)
      /\ parts' = {b.c.id}
  BY <1>h, <1>b DEF LkStart, Routed
<1>z. transfer_size \in Nat /\ transfer_size >= 1 /\ LkPayloadMax \in Nat
  BY ConstantsAre DEF IInv, TypeOK
<1>l. /\ lk' \in [header : 0..2, want : Nat, refused : BOOLEAN]
      /\ op = CMD_BATCH => lk'.header = 2 /\ lk'.want = 0
      /\ op # CMD_BATCH => lk'.header = 0 /\ lk'.want = transfer_size
  <2>1. CASE op = CMD_BATCH
    BY <2>1, <1>r, NoLkIs
  <2>2. CASE op # CMD_BATCH
    BY <2>2, <1>r, <1>z, AdmitIs
  <2> QED BY <2>1, <2>2
<1>s. ~Sets(Rest, 1)
  BY <1>r DEF Sets, CMD_SET_SIZE, CMD_BATCH, CMD_SAVE_WRITE
<1>y. Ready(b)'
  <2>0. /\ b.c.n \in Nat /\ op \in PayloadOps /\ SentPayload(b.c) = b.c.n
        /\ SentLength(b.c) = 1 + SentArgs(op) + b.c.n
        /\ CMD_SAVE_WRITE \in SizedOps /\ CMD_BATCH \notin SizedOps
    BY <1>b, <1>r, ByteIs, Opcodes
       DEF PayloadOps, SizedOps, SentPayload, CMD_SAVE_WRITE, CMD_FLASH_PROGRAM
  <2>w. /\ Byte(b.c, b.i + 1).c = b.c /\ Byte(b.c, b.i + 1).i = 2
    BY <1>b DEF Byte
  <2>p. \A x \in parts' : x = b.c.id BY <1>r
  <2>1. CASE op = CMD_BATCH
    <3>1. SentArgs(op) = 2 BY <2>1, ArgsAre
    <3>2. b.i # SentLength(b.c) BY <1>b, <2>0, <3>1
    <3>3. Open' BY <1>0, <1>l, <2>1 DEF Open
    <3>4. LkTakes(Byte(b.c, b.i + 1))' BY <2>w, <1>l, <2>1 DEF LkTakes
    <3> QED BY <1>0, <2>p, <3>2, <3>3, <3>4 DEF Ready
  <2>2. CASE op # CMD_BATCH
    <3>1. op \in SizedOps /\ SentArgs(op) = 0 BY <1>r, <2>0, <2>2, ArgsAre
    <3>2. SentLength(b.c) = 1 + transfer_size BY <1>b, <1>z, <2>0, <3>1
    <3>3. b.i # SentLength(b.c) BY <1>b, <1>z, <3>2
    <3>4. Open' BY <1>0, <1>l, <1>z, <2>2 DEF Open
    <3>5. LkTakes(Byte(b.c, b.i + 1))'
      BY <2>w, <1>l, <1>z, <2>0, <2>2, <3>2 DEF LkTakes
    <3> QED BY <1>0, <2>p, <3>3, <3>4, <3>5 DEF Ready
  <2> QED BY <2>1, <2>2
<1> HIDE DEF op
<1>1. TypeOK'
  BY <1>0, <1>h, <1>l DEF IInv, TypeOK, stateVars
<1>2. NoMixedCommand' BY <1>r DEF NoMixedCommand
<1>3. ParserShape' BY <1>0 DEF IInv, ParserShape, Idle
<1>4. LkShape'
  <2>1. lk'.header > 0 => lk'.want = 0 BY <1>l
  <2>2. Idle' BY <1>0 DEF Idle
  <2> QED BY <1>0, <1>l, <2>1, <2>2 DEF LkShape
<1>5. StreamInv'
  <2>1. StreamSized'
    <3>1. transfer_size' = IF Sets(Rest, 1) /\ Rest[1].i = SentLength(Rest[1].c)
                             THEN Rest[1].c.n ELSE transfer_size
      BY <1>0, <1>s DEF stateVars
    <3> QED BY <1>0, <1>h, <3>1, SizedAfterByte DEF IInv
  <2> QED BY <1>0, <1>h, <1>y, <2>1, StreamTaken DEF IInv
<1>6. SessionInv'
  BY <1>0 DEF IInv, SessionInv, Empty, Idle
<1>7. HostDataOK' BY <1>0 DEF IInv, HostDataOK
<1>8. TakesByte BY <1>b, <1>h, <1>r, <1>y DEF TakesByte
<1> QED BY <1>1, <1>2, <1>3, <1>4, <1>5, <1>6, <1>7, <1>8 DEF IInv

LEMMA LkReceiveKeeps ==
  ASSUME IInv, LkReceive PROVE IInv' /\ TakesByte
<1> SUFFICES ASSUME NEW b, b = Rest[1] PROVE IInv' /\ TakesByte
  OBVIOUS
<1> DEFINE op == b.c.op
           n == b.c.n
           h == lk.header
           v == lk.want
<1>0. /\ pc = "lk" /\ pc' = "lk" /\ late' = FALSE /\ h + v > 0 /\ Rest # <<>>
      /\ UNCHANGED <<P, moved, stale, stateVars, was_configured, answer, configured,
                     alive, away, host_size, sent>>
  BY DEF LkReceive, LkWants, parserVars, Rest
<1>f. /\ h \in 0..2 /\ v \in Nat /\ (h > 0 => v = 0)
      /\ lk \in [header : 0..2, want : Nat, refused : BOOLEAN]
      /\ Open /\ Idle /\ P.op = 0 /\ was_configured /\ ~(away = "noticed")
  BY <1>0, LkFacts
<1>h. /\ batch' \in Seq(ByteOf) /\ wire' \in Seq(ByteOf)
      /\ Len(batch') <= RxMax
      /\ Rest' \in Seq(ByteOf) /\ Behind(Rest, Rest', 1)
      /\ wire = <<>> => wire' = <<>>
  <2>1. CASE batch # <<>>
    <3>1. batch' = Tail(batch) /\ wire' = wire BY <2>1 DEF LkReceive
    <3> QED BY <2>1, <3>1, FromBatch
  <2>2. CASE batch = <<>>
    <3>1. wire' = Tail(wire) /\ batch' = batch BY <2>2 DEF LkReceive
    <3>2. wire # <<>>
      <4>1. RestKnown BY RestIs DEF IInv, StreamInv
      <4> QED BY <1>0, <2>2, <4>1 DEF RestKnown
    <3>3. Len(batch') <= RxMax BY <3>1 DEF IInv, TypeOK
    <3> QED BY <2>2, <3>1, <3>2, <3>3, FromWire
  <2> QED BY <2>1, <2>2
<1>b. /\ b \in ByteOf /\ LkTakes(b) /\ \A x \in parts : x = b.c.id
      /\ n \in Nat /\ op \in PayloadOps
      /\ SentArgs(op) \in 0..2 /\ SentLength(b.c) = 1 + SentArgs(op) + n
  <2>1. b \in ByteOf /\ LkTakes(b) /\ \A x \in parts : x = b.c.id
    BY <1>0, <1>f, HeadIs
  <2>2. op \in PayloadOps BY <2>1 DEF LkTakes, PayloadOps
  <2> QED BY <2>1, <2>2, ByteIs DEF SentPayload
<1>r. /\ lk' = CASE h = 2 -> [lk EXCEPT !.header = 1]
                 [] h = 1 -> Admit(ValueOf(b), BatchMax)
                 [] OTHER -> [lk EXCEPT !.want = @ - 1]
      /\ parts' = parts \cup {b.c.id}
  <2>1. Head(batch \o wire) = b
    <3>1. RestKnown BY RestIs DEF IInv, StreamInv
    <3> QED BY <1>0, <3>1, TailIs DEF RestKnown, Rest
  <2> QED BY <2>1 DEF LkReceive
<1>s. ~Sets(Rest, 1)
  BY <1>b DEF Sets, PayloadOps, SizedOps, CMD_SET_SIZE, CMD_BATCH, CMD_SAVE_WRITE,
              CMD_FLASH_PROGRAM
<1>w. /\ Byte(b.c, b.i + 1).c = b.c /\ Byte(b.c, b.i + 1).i = b.i + 1
  BY DEF Byte
<1>p. \A x \in parts' : x = b.c.id BY <1>b, <1>r
<1>y. /\ Ready(b)'
      /\ lk' \in [header : 0..2, want : Nat, refused : BOOLEAN]
      /\ lk'.header > 0 => lk'.want = 0
  <2>1. CASE h = 2
    <3>1. /\ lk' \in [header : 0..2, want : Nat, refused : BOOLEAN]
          /\ lk'.header = 1 /\ lk'.want = 0
      BY <2>1, <1>f, <1>r
    <3>2. op = CMD_BATCH /\ b.i + 2 = 4 BY <2>1, <1>b DEF LkTakes
    <3>3. b.i = 2 /\ b.i # SentLength(b.c) BY <3>2, <1>b, ByteIs, ArgsAre
    <3>4. Open' BY <1>0, <3>1 DEF Open
    <3>5. LkTakes(Byte(b.c, b.i + 1))' BY <1>w, <3>1, <3>2, <3>3 DEF LkTakes
    <3>6. Ready(b)' BY <1>0, <1>p, <3>3, <3>4, <3>5 DEF Ready
    <3> QED BY <3>1, <3>6
  <2>2. CASE h = 1
    <3>2. op = CMD_BATCH /\ b.i + 1 = 4 BY <2>2, <1>b DEF LkTakes
    <3>3. b.i = 3 /\ SentLength(b.c) = 3 + n /\ ValueOf(b) = n
      BY <3>2, <1>b, ByteIs, ArgsAre, ValueIs
    <3>1. /\ lk' \in [header : 0..2, want : Nat, refused : BOOLEAN]
          /\ lk'.header = 0 /\ lk'.want = n
      BY <2>2, <1>b, <1>r, <3>3, AdmitIs, ConstantsAre
    <3>4. CASE n = 0
      <4>1. b.i = SentLength(b.c) BY <3>3, <3>4
      <4>2. ~Open' BY <1>0, <3>1, <3>4 DEF Open
      <4> QED BY <3>1, <4>1, <4>2 DEF Ready
    <3>5. CASE n # 0
      <4>1. b.i # SentLength(b.c) BY <3>3, <3>5, <1>b
      <4>2. Open' BY <1>0, <1>b, <3>1, <3>5 DEF Open
      <4>3. LkTakes(Byte(b.c, b.i + 1))' BY <1>b, <1>w, <3>1, <3>3 DEF LkTakes
      <4>4. Ready(b)' BY <1>0, <1>p, <4>1, <4>2, <4>3 DEF Ready
      <4> QED BY <3>1, <4>4
    <3> QED BY <3>4, <3>5
  <2>3. CASE h = 0
    <3>0. v > 0 BY <1>0, <1>f, <2>3
    <3>1. /\ lk' \in [header : 0..2, want : Nat, refused : BOOLEAN]
          /\ lk'.header = 0 /\ lk'.want = v - 1
      <4>1. lk' = [lk EXCEPT !.want = v - 1] BY <2>3, <1>r
      <4>2. v - 1 \in Nat BY <3>0, <1>f
      <4> QED BY <2>3, <1>f, <4>1, <4>2
    <3>2. b.i + v = 1 + SentLength(b.c) BY <2>3, <1>b DEF LkTakes
    <3>3. b.i \in Nat /\ SentLength(b.c) \in Nat BY <1>b, ByteIs
    <3>4. CASE v = 1
      <4>1. b.i = SentLength(b.c) BY <3>2, <3>3, <3>4
      <4>2. ~Open' BY <1>0, <3>1, <3>4 DEF Open
      <4> QED BY <3>1, <4>1, <4>2 DEF Ready
    <3>5. CASE v # 1
      <4> DEFINE i == b.i
                 l == SentLength(b.c)
      <4>0. i \in Nat /\ l \in Nat /\ i + v = 1 + l BY <3>2, <3>3
      <4> HIDE DEF i, l, v
      <4>1. i # l /\ i + 1 + (v - 1) = 1 + l /\ v - 1 > 0
        BY <3>0, <3>5, <4>0, <1>f
      <4>2. Open' BY <1>0, <3>1, <4>1 DEF Open
      <4>3. LkTakes(Byte(b.c, b.i + 1))'
        BY <1>b, <1>w, <3>1, <4>1 DEF LkTakes, i, l
      <4>4. Ready(b)' BY <1>0, <1>p, <4>1, <4>2, <4>3 DEF Ready, i, l
      <4> QED BY <3>1, <4>4
    <3> QED BY <3>4, <3>5
  <2>4. h = 0 \/ h = 1 \/ h = 2 BY <1>f
  <2> QED BY <2>1, <2>2, <2>3, <2>4
<1> HIDE DEF op, n, h, v
<1>1. TypeOK'
  BY <1>0, <1>h, <1>y DEF IInv, TypeOK, stateVars
<1>2. NoMixedCommand' BY <1>p DEF NoMixedCommand
<1>3. ParserShape' BY <1>0 DEF IInv, ParserShape, Idle
<1>4. LkShape'
  <2>1. Idle' BY <1>0, <1>f DEF Idle
  <2> QED BY <1>0, <1>y, <2>1 DEF LkShape
<1>5. StreamInv'
  <2>1. StreamSized'
    <3>1. transfer_size' = IF Sets(Rest, 1) /\ Rest[1].i = SentLength(Rest[1].c)
                             THEN Rest[1].c.n ELSE transfer_size
      BY <1>0, <1>s DEF stateVars
    <3> QED BY <1>0, <1>h, <3>1, SizedAfterByte DEF IInv
  <2> QED BY <1>0, <1>h, <1>y, <2>1, StreamTaken DEF IInv
<1>6. SessionInv'
  BY <1>0, <1>f, <1>h DEF IInv, SessionInv, Empty, Idle
<1>7. HostDataOK' BY <1>0 DEF IInv, HostDataOK
<1>8. TakesByte BY <1>0, <1>b, <1>h, <1>p, <1>r, <1>y DEF TakesByte
<1> QED BY <1>1, <1>2, <1>3, <1>4, <1>5, <1>6, <1>7, <1>8 DEF IInv

-----------------------------------------------------------------------------
(* The parser's steps. *)

ParserCounts ==
  /\ P.need \in {0, 1, 2} /\ P.got \in 0..P.need
  /\ P.op # 0 /\ P.pay_need = 0 => P.got < P.need
  /\ P.pay_need \in Nat /\ P.pay_got \in 0..P.pay_need

StateTypes ==
  /\ transfer_size \in 1..TransferMax /\ mode \in {"NONE", "AGB", "DMG"}
  /\ page_terminator_due \in BOOLEAN
  /\ answer.kind \in {"NONE", "PONG", "DATA", "ACK", "ERROR"}

ParserRecord ==
  [op : Nat, need : 0..2, got : 0..2, arg : Nat,
   pay_need : Nat, pay_got : Nat, pay_over : BOOLEAN]

(* What is left to show of such a step. *)
LEMMA FeedKeeps ==
  ASSUME IInv, Feeding, moved' = TRUE, Len(batch') <= RxMax,
         UNCHANGED <<stale, pc, was_configured, late, lk, hostVars>>,
         ParserCounts', ParserShape', StateTypes', NoMixedCommand', StreamInv'
  PROVE  IInv'
<1>0. pc = "feed" /\ pc' = "feed"
  BY DEF Feeding
<1>1. TypeOK'
  BY DEF IInv, TypeOK, ParserCounts, StateTypes, hostVars
<1>2. LkShape' BY <1>0 DEF IInv, LkShape
<1>3. SessionInv'
  BY <1>0 DEF IInv, SessionInv, Empty, hostVars
<1>4. HostDataOK' BY DEF IInv, HostDataOK, hostVars
<1> QED BY <1>1, <1>2, <1>3, <1>4 DEF IInv

LEMMA ResetIs ==
  /\ ParserReset.op = 0 /\ ParserReset.need = 0 /\ ParserReset.got = 0
  /\ ParserReset.arg = 0 /\ ParserReset.pay_need = 0 /\ ParserReset.pay_got = 0
  /\ ParserReset \in ParserRecord
BY DEF ParserReset, ParserRecord

LEMMA ResetHolds ==
  ASSUME P' = ParserReset PROVE ParserCounts' /\ ParserShape'
<1>1. ParserCounts' BY ResetIs DEF ParserCounts
<1>2. ParserShape' BY ResetIs DEF ParserShape, ParserRecord
<1> QED BY <1>1, <1>2

Opened(p, op, arg, n, o) ==
  [p EXCEPT !.op = op, !.arg = arg, !.pay_need = n, !.pay_over = o]

OpenedAsAsked(p, op, arg, n, o) ==
  LET q == Opened(p, op, arg, n, o) IN
  /\ q \in ParserRecord
  /\ q.op = op /\ q.need = p.need /\ q.got = p.got /\ q.arg = arg
  /\ q.pay_need = n /\ q.pay_got = p.pay_got

LEMMA PayloadOpens ==
  ASSUME NEW p \in ParserRecord, NEW op \in Nat, NEW arg \in Nat, NEW n \in Nat,
         NEW o \in BOOLEAN
  PROVE  OpenedAsAsked(p, op, arg, n, o)
<1> DEFINE q == Opened(p, op, arg, n, o)
<1>1. q \in ParserRecord BY DEF ParserRecord, Opened
<1>2. q.op = op /\ q.arg = arg /\ q.pay_need = n BY DEF ParserRecord, Opened
<1>3. q.need = p.need /\ q.got = p.got /\ q.pay_got = p.pay_got
  BY DEF ParserRecord, Opened
<1> QED BY <1>1, <1>2, <1>3 DEF OpenedAsAsked

(* The header is in, and so is its last byte b. *)
LEMMA HeaderDoneIs ==
  ASSUME IInv, pc' = "feed", NEW b \in ByteOf, NEW op, NEW arg,
         b.c.op = op, b.i = 1 + SentArgs(op), HeaderDone(op, arg, b.c),
         arg = IF SentArgs(op) = 0 THEN 0 ELSE b.c.n,
         op \in SizedOps => b.c.n = transfer_size,
         P.pay_need = 0, P.need \in 0..2, P.got \in 0..P.need,
         \A x \in parts' : x = b.c.id
  PROVE  /\ ParserCounts' /\ ParserShape' /\ StateTypes' /\ Ready(b)'
         /\ transfer_size' = IF op = CMD_SET_SIZE /\ b.i = SentLength(b.c)
                               THEN b.c.n ELSE transfer_size
<1> DEFINE n == PayloadLen(op, arg)
<1>0. /\ b.c \in Command /\ op \in Nat /\ b.c.n \in Nat
      /\ SentPayload(b.c) \in Nat /\ SentArgs(op) \in 0..2
      /\ SentLength(b.c) = 1 + SentArgs(op) + SentPayload(b.c)
  BY ByteIs
<1>1. n = SentPayload(b.c)
  <2>1. CASE op \in SizedOps
    BY <2>1 DEF PayloadLen, SentPayload, PayloadOps
  <2>2. CASE op = CMD_BATCH
    BY <2>2, ArgsAre, Opcodes DEF PayloadLen, SentPayload, PayloadOps
  <2>3. CASE op \notin SizedOps /\ op # CMD_BATCH
    BY <2>3 DEF PayloadLen, SentPayload, PayloadOps
  <2> QED BY <2>1, <2>2, <2>3
<1>2. CASE n = 0
  <2>1. P' = ParserReset /\ Execute(op, arg, b.c) BY <1>2 DEF HeaderDone
  <2>2. op = CMD_SET_SIZE => arg \in Sizes /\ arg = b.c.n
    BY <1>0, ArgsAre DEF Command
  <2>3. /\ transfer_size' = IF op = CMD_SET_SIZE THEN arg ELSE transfer_size
        /\ StateTypes'
    BY <2>1, <2>2, ExecuteIs DEF StateTypes
  <2>4. b.i = SentLength(b.c) BY <1>0, <1>1, <1>2
  <2>5. ~Open' BY <2>1, ResetIs DEF Open
  <2>6. Ready(b)' BY <2>4, <2>5 DEF Ready
  <2> QED BY <2>1, <2>2, <2>3, <2>4, <2>6, ResetHolds
<1>3. CASE n # 0
  <2> DEFINE o == n > PayloadMax
             q == Opened(P, op, arg, n, o)
  <2>0. P' = q /\ UNCHANGED <<stateVars, answer>> BY <1>3 DEF HeaderDone, Opened
  <2>1. P \in ParserRecord /\ P.pay_got = 0 /\ arg \in Nat /\ n \in Nat
    <3>1. P.pay_got \in 0..P.pay_need BY DEF IInv, TypeOK
    <3> QED BY <1>0, <1>1, <3>1 DEF IInv, ParserShape, ParserRecord
  <2>2. /\ q \in ParserRecord
        /\ q.op = op /\ q.need = P.need /\ q.got = P.got /\ q.arg = arg
        /\ q.pay_need = n /\ q.pay_got = 0
    <3>1. o \in BOOLEAN OBVIOUS
    <3> HIDE DEF n, o
    <3>2. op \in Nat /\ P \in ParserRecord /\ arg \in Nat /\ n \in Nat
      BY <1>0, <2>1
    <3>3. OpenedAsAsked(P, op, arg, n, o)
      BY <3>1, <3>2, PayloadOpens, Zenon
    <3> QED BY <2>1, <3>3 DEF OpenedAsAsked
  <2>3. op \in PayloadOps /\ op # 0 /\ op # CMD_SET_SIZE
    BY <1>1, <1>3, Opcodes DEF SentPayload, PayloadOps
  <2>4. b.i # SentLength(b.c) /\ n > 0 BY <1>0, <1>1, <1>3
  <2>h. /\ P' \in ParserRecord
        /\ P'.op = op /\ P'.need = P.need /\ P'.got = P.got
        /\ P'.pay_need = n /\ P'.pay_got = 0
    BY <2>0, <2>2
  <2> HIDE DEF q, n, o
  <2>5. ParserCounts' BY <1>3, <2>1, <2>h DEF ParserCounts
  <2>6. ParserShape'
    BY <2>3, <2>4, <2>h DEF ParserShape, ParserRecord, Idle
  <2>7. StateTypes'
    BY <2>0 DEF StateTypes, IInv, TypeOK, stateVars
  <2>8. Open' BY <2>3, <2>h DEF Open
  <2>9. ParserTakes(Byte(b.c, b.i + 1))'
    <3>1. Byte(b.c, b.i + 1).c = b.c /\ Byte(b.c, b.i + 1).i = 2 + SentArgs(op)
      BY <1>0 DEF Byte
    <3> QED BY <1>0, <1>1, <1>3, <2>h, <3>1 DEF ParserTakes
  <2>10. Ready(b)' BY <2>4, <2>8, <2>9 DEF Ready
  <2>11. transfer_size' = transfer_size BY <2>0 DEF stateVars
  <2> QED BY <2>3, <2>5, <2>6, <2>7, <2>10, <2>11
<1> QED BY <1>2, <1>3

LEMMA FeedOpcodeKeeps ==
  ASSUME IInv, FeedOpcode PROVE IInv' /\ TakesByte
<1> SUFFICES ASSUME NEW b, b = Rest[1] PROVE IInv' /\ TakesByte
  OBVIOUS
<1> DEFINE op == b.c.op
<1>0. /\ Feeding /\ pc = "feed" /\ pc' = "feed" /\ batch # <<>> /\ Idle
      /\ moved' = TRUE /\ batch' = Tail(batch) /\ wire' = wire
      /\ alive' = alive /\ host_size' = host_size
      /\ UNCHANGED <<stale, pc, was_configured, late, lk, hostVars>>
  BY DEF FeedOpcode, Feeding, hostVars
<1>h. /\ Rest # <<>> /\ Head(batch) = b
      /\ batch' \in Seq(ByteOf) /\ wire' \in Seq(ByteOf)
      /\ Len(batch') <= RxMax
      /\ Rest' \in Seq(ByteOf) /\ Behind(Rest, Rest', 1)
  BY <1>0, FromBatch
<1>o. ~Open /\ P.op = 0 /\ P = ParserReset
  BY <1>0 DEF Open, Idle, IInv, ParserShape
<1>b. /\ b \in ByteOf /\ b.i = 1 /\ ValueOf(b) = op /\ op \in Nat
      /\ op \in SizedOps => b.c.n = transfer_size
      /\ SentPayload(b.c) \in Nat /\ SentLength(b.c) = 1 + SentArgs(op) + SentPayload(b.c)
  BY <1>h, <1>o, HeadIs, ValueIs, ByteIs
<1>p. parts' = {b.c.id} /\ (\A x \in parts' : x = b.c.id)
  BY <1>h DEF FeedOpcode
<1>a. ArgLen(op) = SentArgs(op) /\ SentArgs(op) \in 0..2
  BY ArgsAre
<1>1. /\ ParserCounts' /\ ParserShape' /\ StateTypes' /\ Ready(b)'
      /\ transfer_size' = IF op = CMD_SET_SIZE /\ b.i = SentLength(b.c)
                            THEN b.c.n ELSE transfer_size
  <2>1. CASE ArgLen(op) = 0
    <3>1. HeaderDone(op, 0, b.c) BY <2>1, <1>h, <1>b DEF FeedOpcode
    <3>2. /\ P.pay_need = 0 /\ P.need \in 0..2 /\ P.got \in 0..P.need
      BY <1>o, ResetIs
    <3>3. b.i = 1 + SentArgs(op) /\ SentArgs(op) = 0 BY <2>1, <1>a, <1>b
    <3> QED BY <1>0, <1>b, <1>p, <3>1, <3>2, <3>3, HeaderDoneIs
  <2>2. CASE ArgLen(op) # 0
    <3>1. /\ P' = [ParserReset EXCEPT !.op = op, !.need = ArgLen(op)]
          /\ UNCHANGED <<stateVars, answer>>
      BY <2>2, <1>h, <1>b DEF FeedOpcode
    <3>2. op # 0 /\ op # CMD_RESYNC BY <2>2, <1>a, ArgsAre, Opcodes
    <3>3. /\ P' \in ParserRecord
          /\ P'.op = op /\ P'.need = SentArgs(op) /\ P'.got = 0
          /\ P'.pay_need = 0 /\ P'.pay_got = 0
      <4> DEFINE a == SentArgs(op)
      <4>1. P' = [ParserReset EXCEPT !.op = op, !.need = a] /\ a \in 0..2
        BY <3>1, <1>a
      <4> HIDE DEF a, op
      <4>2. op \in Nat BY <1>b DEF op
      <4>3. /\ P' \in ParserRecord /\ P'.op = op /\ P'.need = a /\ P'.got = 0
            /\ P'.pay_need = 0 /\ P'.pay_got = 0
        BY <4>1, <4>2, ResetIs DEF ParserRecord
      <4> QED BY <4>3 DEF a, op
    <3>4. ParserCounts' BY <2>2, <1>a, <3>3 DEF ParserCounts
    <3>5. ParserShape'
      BY <2>2, <1>a, <3>2, <3>3 DEF ParserShape, ParserRecord, Idle
    <3>6. StateTypes' BY <3>1 DEF StateTypes, IInv, TypeOK, stateVars
    <3>7. b.i # SentLength(b.c) BY <2>2, <1>a, <1>b
    <3>8. Open' BY <1>0, <3>2, <3>3 DEF Open
    <3>9. ParserTakes(Byte(b.c, b.i + 1))'
      <4>1. Byte(b.c, b.i + 1).c = b.c /\ Byte(b.c, b.i + 1).i = 2
        BY <1>b DEF Byte
      <4> QED BY <3>3, <4>1 DEF ParserTakes
    <3>10. Ready(b)' BY <1>0, <1>p, <3>7, <3>8, <3>9 DEF Ready
    <3>11. transfer_size' = transfer_size BY <3>1 DEF stateVars
    <3> QED BY <3>4, <3>5, <3>6, <3>7, <3>10, <3>11
  <2> QED BY <2>1, <2>2
<1> HIDE DEF op
<1>2. StreamInv'
  <2>1. StreamSized'
    <3>1. transfer_size' = IF Sets(Rest, 1) /\ Rest[1].i = SentLength(Rest[1].c)
                             THEN Rest[1].c.n ELSE transfer_size
      BY <1>1 DEF Sets, op
    <3> QED BY <1>0, <1>h, <3>1, SizedAfterByte DEF IInv
  <2> QED BY <1>0, <1>h, <1>1, <2>1, StreamTaken DEF IInv
<1>3. NoMixedCommand' BY <1>p DEF NoMixedCommand
<1>4. TakesByte BY <1>b, <1>h, <1>p, <1>1 DEF TakesByte
<1> QED BY <1>0, <1>h, <1>1, <1>2, <1>3, <1>4, FeedKeeps

LEMMA FeedArgKeeps ==
  ASSUME IInv, FeedArg PROVE IInv' /\ TakesByte
<1> SUFFICES ASSUME NEW b, b = Rest[1] PROVE IInv' /\ TakesByte
  OBVIOUS
<1> DEFINE op == b.c.op
<1>0. /\ Feeding /\ pc = "feed" /\ pc' = "feed" /\ batch # <<>>
      /\ P.op # 0 /\ P.pay_need = 0
      /\ moved' = TRUE /\ batch' = Tail(batch) /\ wire' = wire
      /\ alive' = alive /\ host_size' = host_size
      /\ UNCHANGED <<stale, pc, was_configured, late, lk, hostVars>>
  BY DEF FeedArg, Feeding, hostVars
<1>h. /\ Rest # <<>> /\ Head(batch) = b
      /\ batch' \in Seq(ByteOf) /\ wire' \in Seq(ByteOf)
      /\ Len(batch') <= RxMax
      /\ Rest' \in Seq(ByteOf) /\ Behind(Rest, Rest', 1)
  BY <1>0, FromBatch
<1>o. Open BY <1>0 DEF Open
<1>f. /\ P \in ParserRecord /\ P.need = SentArgs(P.op) /\ P.got < P.need
      /\ P.need \in 0..2 /\ P.got \in 0..P.need /\ P.got \in Nat /\ P.pay_got = 0
  <2>1. P \in ParserRecord /\ P.need = SentArgs(P.op) /\ P.got < P.need
    BY <1>0 DEF IInv, ParserShape, ParserRecord
  <2>2. P.need \in 0..2 /\ P.got \in 0..P.need /\ P.pay_got \in 0..P.pay_need
    BY DEF IInv, TypeOK
  <2> QED BY <1>0, <2>1, <2>2
<1>b. /\ b \in ByteOf /\ op = P.op /\ b.i = 2 + P.got /\ op \in Nat
      /\ op \in SizedOps => b.c.n = transfer_size
      /\ \A x \in parts : x = b.c.id
      /\ ValueOf(b) \in Nat
      /\ SentPayload(b.c) \in Nat /\ SentLength(b.c) = 1 + SentArgs(op) + SentPayload(b.c)
      /\ b.c.n \in Nat
  <2>1. b \in ByteOf /\ ParserTakes(b) BY <1>0, <1>h, <1>o, HeadIs
  <2>2. op = P.op /\ b.i = 2 + P.got BY <1>0, <2>1 DEF ParserTakes
  <2> QED BY <1>h, <1>o, <2>1, <2>2, HeadIs, ValueIs, ByteIs
<1>p. b.c.id \in parts' /\ \A x \in parts' : x = b.c.id
  BY <1>b, <1>h DEF FeedArg
<1>1. /\ ParserCounts' /\ ParserShape' /\ StateTypes' /\ Ready(b)'
      /\ transfer_size' = IF op = CMD_SET_SIZE /\ b.i = SentLength(b.c)
                            THEN b.c.n ELSE transfer_size
  <2>1. CASE P.got + 1 >= P.need
    <3>1. HeaderDone(P.op, ValueOf(b), b.c) BY <2>1, <1>h DEF FeedArg, Complete
    <3>2. b.i = 1 + SentArgs(op) /\ SentArgs(op) # 0 /\ b.i # 1
      <4> DEFINE g == P.got
                 e == P.need
      <4>1. g \in Nat /\ e \in 0..2 /\ g < e /\ g + 1 >= e BY <2>1, <1>f
      <4>2. e = SentArgs(op) /\ b.i = 2 + g BY <1>f, <1>b
      <4> HIDE DEF g, e
      <4> QED BY <4>1, <4>2
    <3>3. b.i <= 1 + SentArgs(b.c.op) BY <3>2, ArgsAre
    <3>4. ValueOf(b) = b.c.n BY <1>b, <3>2, <3>3, ValueIs
    <3> QED BY <1>0, <1>b, <1>f, <1>p, <3>1, <3>2, <3>4, HeaderDoneIs
  <2>2. CASE ~(P.got + 1 >= P.need)
    <3> DEFINE v == ValueOf(b)
               g == P.got
    <3>1. /\ P' = [P EXCEPT !.got = g + 1, !.arg = v]
          /\ UNCHANGED <<stateVars, answer>>
      BY <2>2, <1>h DEF FeedArg, Complete
    <3>2. g \in Nat /\ g + 1 < P.need /\ P.need \in 0..2 /\ v \in Nat
      BY <2>2, <1>f, <1>b
    <3>3. b.i = 2 + g /\ P.need = SentArgs(op) BY <1>b, <1>f
    <3> HIDE DEF v, g
    <3>4. /\ P' \in ParserRecord /\ P'.op = P.op /\ P'.need = P.need
          /\ P'.got = g + 1 /\ P'.pay_need = 0 /\ P'.pay_got = 0
      <4>1. g + 1 \in 0..2 BY <3>2
      <4> QED BY <1>0, <1>f, <3>1, <3>2, <4>1 DEF ParserRecord
    <3>5. ParserCounts' BY <3>2, <3>4 DEF ParserCounts
    <3>6. ParserShape'
      BY <1>0, <1>f, <3>2, <3>4 DEF ParserShape, ParserRecord, Idle
    <3>7. StateTypes' BY <3>1 DEF StateTypes, IInv, TypeOK, stateVars
    <3>8. b.i # SentLength(b.c)
      <4>1. b.i < 1 + SentArgs(op) /\ SentArgs(op) \in 0..2 BY <3>2, <3>3
      <4> QED BY <3>2, <3>3, <4>1, <1>b
    <3>9. Open' BY <1>0, <3>4 DEF Open
    <3>10. ParserTakes(Byte(b.c, b.i + 1))'
      <4>1. Byte(b.c, b.i + 1).c = b.c /\ Byte(b.c, b.i + 1).i = 2 + (g + 1)
        BY <3>2, <3>3 DEF Byte
      <4> QED BY <1>b, <3>4, <4>1 DEF ParserTakes
    <3>11. Ready(b)' BY <1>0, <1>p, <3>8, <3>9, <3>10 DEF Ready
    <3>12. transfer_size' = transfer_size BY <3>1 DEF stateVars
    <3> QED BY <3>5, <3>6, <3>7, <3>8, <3>11, <3>12
  <2> QED BY <2>1, <2>2
<1> HIDE DEF op
<1>2. StreamInv'
  <2>1. StreamSized'
    <3>1. transfer_size' = IF Sets(Rest, 1) /\ Rest[1].i = SentLength(Rest[1].c)
                             THEN Rest[1].c.n ELSE transfer_size
      BY <1>1 DEF Sets, op
    <3> QED BY <1>0, <1>h, <3>1, SizedAfterByte DEF IInv
  <2> QED BY <1>0, <1>h, <1>1, <2>1, StreamTaken DEF IInv
<1>3. NoMixedCommand' BY <1>p DEF NoMixedCommand
<1>4. TakesByte BY <1>b, <1>h, <1>p, <1>1 DEF TakesByte
<1> QED BY <1>0, <1>h, <1>1, <1>2, <1>3, <1>4, FeedKeeps

(* The payload in the batch is all one command's. *)
LEMMA RunIs ==
  ASSUME NEW s \in Seq(ByteOf), Framed(s), NEW k \in 1..Len(s),
         s[1].i + (k - 1) <= SentLength(s[1].c)
  PROVE  \A m \in 1..k : s[m].c = s[1].c /\ s[m].i = s[1].i + (m - 1)
<1> SUFFICES ASSUME NEW m \in 1..k
             PROVE  s[m].c = s[1].c /\ s[m].i = s[1].i + (m - 1)
  OBVIOUS
<1>1. 1 \in 1..Len(s) /\ m \in 1..Len(s) /\ s[1] \in ByteOf
  OBVIOUS
<1> DEFINE i == s[1].i
           l == SentLength(s[1].c)
<1>2. i \in Nat /\ 1 <= i /\ l \in Nat /\ i + (k - 1) <= l
  BY <1>1, ByteIs
<1> HIDE DEF i, l
<1>3. i + (m - 1) \in 1..l BY <1>2
<1> QED BY <1>1, <1>3 DEF Framed, i, l

LEMMA FeedPayloadKeeps ==
  ASSUME IInv, FeedPayload, NEW k, k = MinOf(P.pay_need - P.pay_got, Len(batch))
  PROVE  IInv' /\ TakesRun(k)
<1> SUFFICES ASSUME NEW s, s = Rest, NEW b, b = s[k] PROVE IInv' /\ TakesRun(k)
  OBVIOUS
<1> DEFINE c  == s[1].c
           n  == P.pay_need
           g  == P.pay_got
           a  == SentArgs(P.op)
<1>0. /\ Feeding /\ pc = "feed" /\ pc' = "feed" /\ batch # <<>>
      /\ n # 0 /\ batch' = SubSeq(batch, k + 1, Len(batch)) /\ wire' = wire
      /\ parts' = parts \cup {batch[j].c.id : j \in 1..k}
      /\ moved' = TRUE /\ alive' = alive /\ host_size' = host_size
      /\ UNCHANGED <<stale, stateVars, pc, was_configured, late, lk, hostVars>>
  BY DEF FeedPayload, Feeding, hostVars
<1>t. batch \in Seq(ByteOf) /\ wire \in Seq(ByteOf) /\ Len(batch) <= RxMax
  BY DEF IInv, StreamInv, TypeOK
<1>f. /\ P \in ParserRecord /\ P.op # 0 /\ g < n /\ g \in Nat /\ n \in Nat
      /\ P.need \in 0..2 /\ P.got \in 0..P.need /\ Open
  <2>1. P \in ParserRecord /\ P.op # 0 /\ g < n /\ g \in Nat /\ n \in Nat
    BY <1>0 DEF IInv, ParserShape, ParserRecord
  <2>2. P.need \in 0..2 /\ P.got \in 0..P.need BY DEF IInv, TypeOK
  <2> QED BY <1>0, <2>1, <2>2 DEF Open
<1>k. k \in 1..Len(batch) /\ k \in 0..Len(batch) /\ g + k <= n /\ k \in Nat /\ k > 0
  <2>1. Len(batch) \in Nat /\ Len(batch) >= 1 BY <1>0, <1>t
  <2> DEFINE e == Len(batch)
  <2>2. e \in Nat /\ e >= 1 /\ k = MinOf(n - g, e) BY <2>1
  <2> HIDE DEF e, n, g
  <2>3. k \in 1..e /\ g + k <= n BY <1>f, <2>2 DEF MinOf
  <2> QED BY <2>2, <2>3 DEF e
<1>s. /\ s \in Seq(ByteOf) /\ Framed(s) /\ s # <<>> /\ k \in 1..Len(s)
      /\ \A j \in 1..Len(batch) : s[j] = batch[j]
  <2>1. RestKnown BY <1>t, RestIs
  <2>2. \A j \in 1..Len(batch) : s[j] = batch[j] BY <1>t, JoinedIs DEF Rest
  <2>3. k \in 1..Len(s)
    <3>1. Len(s) = Len(batch) + Len(wire) /\ Len(wire) \in Nat
      BY <1>t, <2>1 DEF RestKnown
    <3> QED BY <1>k, <3>1
  <2> QED BY <1>0, <2>1, <2>2, <2>3 DEF RestKnown, IInv, StreamInv
<1>h. /\ batch' \in Seq(ByteOf) /\ wire' \in Seq(ByteOf) /\ Len(batch') <= RxMax
      /\ Rest' \in Seq(ByteOf) /\ Behind(s, Rest', k)
  <2>1. batch' \in Seq(ByteOf) /\ Behind(batch, batch', k) BY <1>0, <1>k, <1>t, SuffixIs
  <2>2. Behind(s, Rest', k) BY <1>0, <1>t, <2>1, BehindBatch DEF Rest
  <2>3. Rest' \in Seq(ByteOf) BY <1>0, <1>t, <2>1, JoinedIs DEF Rest
  <2>4. Len(batch') <= RxMax
    <3>1. Len(batch') = Len(batch) - k /\ Len(batch) \in Nat BY <1>t, <2>1 DEF Behind
    <3> QED BY <1>k, <1>t, <3>1, ConstantsAre
  <2> QED BY <1>0, <1>t, <2>1, <2>2, <2>3, <2>4
<1>b. /\ s[1] \in ByteOf /\ c.op = P.op /\ n = SentPayload(c) /\ s[1].i = 2 + a + g
      /\ \A x \in parts : x = c.id
      /\ a \in 0..2 /\ SentLength(c) = 1 + a + n
  <2>1. s[1] \in ByteOf /\ ParserTakes(s[1]) /\ \A x \in parts : x = c.id
    BY <1>0, <1>f, <1>s, HeadIs
  <2>2. c.op = P.op /\ n = SentPayload(c) /\ s[1].i = 2 + a + g
    BY <1>0, <2>1 DEF ParserTakes
  <2> QED BY <2>1, <2>2, ByteIs
<1>m. \A m \in 1..k : s[m].c = c /\ s[m].i = s[1].i + (m - 1)
  <2>1. (2 + a + g) + (k - 1) <= 1 + a + n
    <3> HIDE DEF a, g, n
    <3> QED BY <1>b, <1>f, <1>k
  <2>2. s[1].i + (k - 1) <= SentLength(s[1].c) BY <1>b, <2>1
  <2> QED BY <1>s, <2>2, RunIs
<1>l. /\ b.c = c /\ b.i = 1 + a + g + k /\ b = batch[k]
      /\ b.i \in Nat
  <2>1. k \in 1..k BY <1>k
  <2>2. b.c = c /\ b.i = (2 + a + g) + (k - 1) BY <1>b, <1>m, <2>1
  <2>3. (2 + a + g) + (k - 1) = 1 + a + g + k /\ 1 + a + g + k \in Nat
    <3> HIDE DEF a, g, n
    <3> QED BY <1>b, <1>f, <1>k
  <2> QED BY <1>k, <1>s, <2>2, <2>3
<1>p. \A x \in parts' : x = b.c.id
  <2>1. \A j \in 1..k : batch[j].c = c
    <3>1. \A j \in 1..k : j \in 1..Len(batch) BY <1>k
    <3> QED BY <1>m, <1>s, <3>1
  <2> QED BY <1>0, <1>b, <1>l, <2>1
<1>o. P.op \in PayloadOps /\ P.op # CMD_SET_SIZE
  <2>1. P.op \in PayloadOps BY <1>0, <1>b DEF SentPayload
  <2> QED BY <2>1, Opcodes DEF PayloadOps
<1> HIDE DEF c, n, g, a
<1>1. ParserCounts' /\ ParserShape' /\ StateTypes' /\ Ready(b)'
  <2>1. CASE g + k >= n
    <3>1. /\ P' = ParserReset
          /\ \E v \in PayloadVerdicts : Answered(batch[k].c, v, 0)
      BY <2>1 DEF FeedPayload, Complete, g, n
    <3>2. PayloadVerdicts \subseteq {"ACK", "ERROR"}
      BY DEF PayloadVerdicts, Verdicts
    <3>3. answer'.kind \in {"ACK", "ERROR"}
      <4>1. PICK v \in PayloadVerdicts : Answered(batch[k].c, v, 0) BY <3>1
      <4>2. answer' = Answer(batch[k].c.id, v, 0) BY <4>1 DEF Answered
      <4> QED BY <3>2, <4>2 DEF Answer
    <3>4. StateTypes' BY <1>0, <3>3 DEF StateTypes, IInv, TypeOK, stateVars
    <3>5. b.i = SentLength(b.c)
      <4>1. g + k = n BY <2>1, <1>f, <1>k
      <4>2. 1 + a + g + k = 1 + a + n BY <4>1, <1>b, <1>f, <1>k
      <4> QED BY <4>2, <1>b, <1>l
    <3>6. ~Open' BY <1>0, <3>1, ResetIs DEF Open
    <3>7. Ready(b)' BY <3>5, <3>6 DEF Ready
    <3> QED BY <3>1, <3>4, <3>7, ResetHolds
  <2>2. CASE ~(g + k >= n)
    <3>1. P' = [P EXCEPT !.pay_got = g + k] /\ UNCHANGED answer
      BY <2>2 DEF FeedPayload, Complete, g, n
    <3>2. /\ P' \in ParserRecord /\ P'.op = P.op /\ P'.need = P.need
          /\ P'.got = P.got /\ P'.pay_need = n /\ P'.pay_got = g + k
      <4>1. g + k \in Nat BY <1>f, <1>k
      <4> QED BY <1>f, <3>1, <4>1 DEF ParserRecord, n
    <3>3. ParserCounts' BY <2>2, <1>0, <1>f, <1>k, <3>2 DEF ParserCounts
    <3>4. ParserShape'
      BY <2>2, <1>0, <1>f, <1>k, <3>2 DEF ParserShape, ParserRecord, Idle
    <3>5. StateTypes' BY <1>0, <3>1 DEF StateTypes, IInv, TypeOK, stateVars
    <3>6. b.i # SentLength(b.c) BY <2>2, <1>b, <1>f, <1>k, <1>l
    <3>7. Open' BY <1>0, <1>f, <3>2 DEF Open
    <3>8. ParserTakes(Byte(b.c, b.i + 1))'
      <4>1. 1 + a + g + k + 1 = 2 + a + (g + k) BY <1>b, <1>f, <1>k
      <4>2. Byte(b.c, b.i + 1).c = c /\ Byte(b.c, b.i + 1).i = 2 + a + (g + k)
        BY <1>l, <4>1 DEF Byte
      <4> QED BY <1>0, <1>b, <3>2, <4>2 DEF ParserTakes, a
    <3>9. Ready(b)' BY <1>0, <1>p, <3>6, <3>7, <3>8 DEF Ready
    <3> QED BY <3>3, <3>4, <3>5, <3>9
  <2> QED BY <2>1, <2>2
<1>2. StreamInv'
  <2>1. \A m \in 1..k : ~Sets(s, m)
    BY <1>b, <1>m, <1>o DEF Sets, c
  <2>2. StreamSized'
    BY <1>0, <1>h, <2>1, SizedAfterRun DEF IInv, stateVars
  <2> QED BY <1>0, <1>h, <1>k, <1>1, <2>2, StreamTaken DEF IInv
<1>3. NoMixedCommand' BY <1>p DEF NoMixedCommand
<1>4. TakesRun(k)
  <2>1. \A m \in 1..k - 1 : ~Ends(s[m])
    <3> SUFFICES ASSUME NEW m \in 1..k - 1 PROVE ~Ends(s[m])
      OBVIOUS
    <3>1. m \in 1..k /\ m < k BY <1>k
    <3>2. s[m].c = c /\ s[m].i = (2 + a + g) + (m - 1) BY <1>b, <1>m, <3>1
    <3>3. (2 + a + g) + (m - 1) # 1 + a + n
      BY <3>1, <1>b, <1>f, <1>k
    <3> QED BY <3>2, <3>3, <1>b DEF Ends
  <2>2. b \in ByteOf BY <1>s
  <2> QED BY <2>1, <2>2, <1>b, <1>h, <1>l, <1>o, <1>s, <1>1 DEF TakesRun, c, n
<1> QED BY <1>0, <1>h, <1>1, <1>2, <1>3, <1>4, FeedKeeps

-----------------------------------------------------------------------------

LEMMA InitHolds ==
  Init => IInv
<1> SUFFICES ASSUME Init PROVE IInv
  OBVIOUS
<1>0. /\ P = ParserReset /\ moved = FALSE /\ stale = FALSE
      /\ mode \in {"NONE", "DMG"} /\ page_terminator_due \in BOOLEAN
      /\ transfer_size \in Sizes /\ host_size = transfer_size
      /\ pc = "top" /\ batch = <<>> /\ was_configured = TRUE /\ late = FALSE
      /\ lk = NoLk /\ answer = Answer(0, "NONE", 0) /\ parts = {}
      /\ configured = TRUE /\ wire = <<>> /\ alive = TRUE /\ away = "no"
      /\ sent = 0
  BY DEF Init
<1>i. Idle BY <1>0, ResetIs DEF Idle
<1>z. transfer_size \in 1..TransferMax
  <2>1. transfer_size \in Nat /\ 1 <= transfer_size /\ transfer_size <= TransferMax
    BY <1>0, ConstantsAre
  <2> QED BY <2>1, ConstantsAre
<1>e. /\ batch \in Seq(ByteOf) /\ wire \in Seq(ByteOf) /\ Rest = <<>>
      /\ Len(batch) = 0
  <2>1. <<>> \in Seq(ByteOf) /\ Len(<<>>) = 0 OBVIOUS
  <2>2. Rest = <<>> BY <1>0, <2>1, EmptyJoins DEF Rest
  <2> QED BY <1>0, <2>1, <2>2
<1>1. TypeOK
  <2>1. answer.kind = "NONE" BY <1>0 DEF Answer
  <2>2. /\ P.need = 0 /\ P.got = 0 /\ P.op = 0 /\ P.pay_need = 0 /\ P.pay_got = 0
        /\ Len(batch) <= RxMax
    BY <1>0, <1>e, ResetIs, ConstantsAre
  <2>3. {moved, stale, page_terminator_due, was_configured, late, configured, alive}
          \subseteq BOOLEAN
    BY <1>0
  <2>4. lk \in [header : 0..2, want : Nat, refused : BOOLEAN]
    BY <1>0, NoLkIs
  <2>5. 0 \in 0..0 /\ 0 \in Nat /\ 0 \in {0, 1, 2}
    OBVIOUS
  <2>6. /\ mode \in {"NONE", "AGB", "DMG"} /\ pc \in {"top", "rx", "wait", "feed", "lk"}
        /\ away \in {"no", "short", "long", "noticed"}
        /\ answer.kind \in {"NONE", "PONG", "DATA", "ACK", "ERROR"}
    BY <1>0, <2>1
  <2> QED BY <1>z, <2>2, <2>3, <2>4, <2>5, <2>6 DEF TypeOK
<1>2. NoMixedCommand BY <1>0 DEF NoMixedCommand
<1>3. ParserShape BY <1>0, ResetIs DEF ParserShape, ParserRecord
<1>4. LkShape BY <1>0, NoLkIs DEF LkShape
<1>5. StreamInv
  <2>1. ~Open BY <1>0, ResetIs DEF Open
  <2>2. SentWhole /\ HeadIsExpected BY <1>e, <2>1 DEF SentWhole, HeadIsExpected
  <2>3. Len(Rest) = 0 BY <1>e, <1>0
  <2>4. Framed(Rest) BY <2>3 DEF Framed
  <2>5. Sized(Rest, transfer_size) BY <2>3 DEF Sized
  <2>6. SizedAfter(Rest, transfer_size, host_size)
    BY <1>0, <2>3 DEF SizedAfter, SizeFrom
  <2> QED BY <1>e, <2>2, <2>4, <2>5, <2>6 DEF StreamInv
<1>6. SessionInv BY <1>0, <1>i DEF SessionInv
<1>7. HostDataOK BY <1>0 DEF HostDataOK
<1> QED BY <1>1, <1>2, <1>3, <1>4, <1>5, <1>6, <1>7 DEF IInv

LEMMA StutterKeeps ==
  ASSUME IInv, UNCHANGED vars PROVE IInv'
<1>0. UNCHANGED <<P, moved, stale, mode, transfer_size, page_terminator_due, pc, batch,
                  was_configured, late, lk, answer, parts, configured, wire, alive,
                  away, host_size, sent>>
  BY DEF vars, parserVars, stateVars, loopVars, hostVars
<1>1. TypeOK' BY <1>0 DEF IInv, TypeOK
<1>2. NoMixedCommand' BY <1>0 DEF IInv, NoMixedCommand
<1>3. ParserShape' BY <1>0 DEF IInv, ParserShape, Idle
<1>4. LkShape' BY <1>0 DEF IInv, LkShape, Idle
<1>5. StreamInv'
  <2>1. Rest' = Rest BY <1>0 DEF Rest
  <2> QED BY <1>0, <2>1, StreamStays DEF IInv, StreamInv
<1>6. SessionInv' BY <1>0 DEF IInv, SessionInv, Empty, Idle
<1>7. HostDataOK' BY <1>0 DEF IInv, HostDataOK
<1> QED BY <1>1, <1>2, <1>3, <1>4, <1>5, <1>6, <1>7 DEF IInv

LEMMA StepKeeps ==
  ASSUME QuickReset = FALSE
  PROVE  IInv /\ [Next]_vars => IInv'
<1> SUFFICES ASSUME IInv, [Next]_vars PROVE IInv'
  OBVIOUS
<1>1. CASE Top BY <1>1, TopKeeps
<1>2. CASE Receive BY <1>2, TakeBatchKeeps DEF Receive
<1>3. CASE ReceiveNothing BY <1>3, ReceiveNothingKeeps
<1>4. CASE WaitReceive BY <1>4, TakeBatchKeeps DEF WaitReceive
<1>5. CASE WaitGiveUp BY <1>5, WaitGiveUpKeeps
<1>6. CASE BatchDone BY <1>6, BatchDoneKeeps
<1>7. CASE FeedOpcode BY <1>7, FeedOpcodeKeeps
<1>8. CASE FeedArg BY <1>8, FeedArgKeeps
<1>9. CASE FeedPayload
  <2>1. PICK k : k = MinOf(P.pay_need - P.pay_got, Len(batch)) OBVIOUS
  <2> QED BY <1>9, <2>1, FeedPayloadKeeps
<1>10. CASE LkStart BY <1>10, LkStartKeeps
<1>11. CASE LkReceive BY <1>11, LkReceiveKeeps
<1>12. CASE LkGiveUp BY <1>12, LkGiveUpKeeps
<1>13. CASE LkDone BY <1>13, LkDoneKeeps
<1>14. CASE Issue BY <1>14, IssueKeeps
<1>15. CASE HostDies BY <1>15, HostDiesKeeps
<1>16. CASE LinkReset BY <1>16, LinkResetKeeps
<1>17. CASE Reopen BY <1>17, ReopenKeeps
<1>18. CASE Elapse BY <1>18, ElapseKeeps
<1>19. CASE UNCHANGED vars BY <1>19, StutterKeeps
<1> QED
  BY <1>1, <1>2, <1>3, <1>4, <1>5, <1>6, <1>7, <1>8, <1>9, <1>10, <1>11, <1>12,
     <1>13, <1>14, <1>15, <1>16, <1>17, <1>18, <1>19
     DEF Next, Loop, Environment

(* Whatever the sizes of the buffers and batches, the three readers of the  *)
(* stream, the parser a batch at a time, the wait loop and                  *)
(* fw_lk_conn_recv(), leave each other the next byte they would take.       *)
THEOREM Invariance ==
  ASSUME QuickReset = FALSE
  PROVE  Spec => []IInv
<1>1. Init => IInv BY InitHolds
<1>2. IInv /\ [Next]_vars => IInv' BY StepKeeps
<1> QED BY <1>1, <1>2, PTL DEF Spec

(* The parser is sound: its counts have their ranges, the next byte in      *)
(* reach is what fw_proto_feed() takes it for, and no command is put        *)
(* together from two commands' bytes.                                       *)
THEOREM ParserIsSound ==
  ASSUME QuickReset = FALSE
  PROVE  Spec => []ParserSound
<1>1. IInv => ParserSound
  <2> SUFFICES ASSUME IInv PROVE ParserSound
    OBVIOUS
  <2>1. TypeOK /\ NoMixedCommand BY DEF IInv
  <2>2. InFrame
    <3> SUFFICES ASSUME pc # "lk", Rest # <<>>
                 PROVE  Rest[1].i = NextExpected /\ Head(Rest) = Rest[1]
      BY DEF InFrame
    <3>1. Head(Rest) = Rest[1]
      <4>1. RestKnown BY RestIs DEF IInv, StreamInv
      <4> QED BY <4>1, TailIs DEF RestKnown
    <3>2. CASE P.op # 0
      <4>1. ParserTakes(Rest[1]) BY <3>2, HeadIs DEF Open
      <4>2. ~Idle BY <3>2 DEF Idle
      <4> QED BY <3>1, <4>1, <4>2 DEF ParserTakes, NextExpected
    <3>3. CASE P.op = 0
      <4>1. P.pay_need = 0 BY <3>3 DEF IInv, ParserShape
      <4>2. Idle BY <3>3, <4>1 DEF Idle
      <4>3. Rest[1].i = 1 BY <3>3, HeadIs DEF Open
      <4> QED BY <3>1, <4>2, <4>3 DEF NextExpected
    <3> QED BY <3>2, <3>3
  <2> QED BY <2>1, <2>2 DEF ParserSound
<1> QED BY <1>1, Invariance, PTL

-----------------------------------------------------------------------------
(* The commands the host awaits an answer to, and the device as a server of *)
(* whole commands.                                                          *)

(* Commands stand in the stream in the order of their ids, each once. *)
Ordered(s) ==
  \A k, m \in 1..Len(s) : k < m =>
    \/ s[k].c.id < s[m].c.id
    \/ s[m].c = s[k].c /\ s[m].i = s[k].i + (m - k)

(* A command inside lk_loop() whose bytes are all in, and how it is judged. *)
Held == pc = "lk" /\ lk.header + lk.want = 0

LkJudges(c) ==
  /\ c.op \in PayloadOps
  /\ lk.refused <=> c.n > IF c.op = CMD_BATCH THEN BatchMax ELSE LkPayloadMax

(* The host awaits an answer to just the commands that end in the stream,   *)
(* and to the one LK holds, which is the oldest.                            *)
AwaitedAreDue ==
  \A c \in awaiting :
    c.id <= sent /\ (Arrived(c, Rest) \/ (Held /\ c.id \in parts))

DueAreAwaited ==
  \A k \in 1..Len(Rest) :
    /\ Rest[k].c.id <= sent
    /\ Rest[k].i = SentLength(Rest[k].c) => Rest[k].c \in awaiting

HeldIsOldest ==
  Held => \E c \in awaiting :
            /\ parts = {c.id} /\ LkJudges(c)
            /\ \A k \in 1..Len(Rest) : c.id < Rest[k].c.id

(* The verdicts the readers keep fit the command they are about. *)
VerdictsFit ==
  /\ pc = "lk" /\ lk.header = 0 /\ lk.want > 0 /\ Rest # <<>> => LkJudges(Rest[1].c)
  /\ P.pay_need # 0 =>
       /\ P.pay_over = (P.pay_need > PayloadMax)
       /\ P.op = CMD_BATCH => P.arg = P.pay_need

DueInv ==
  /\ awaiting \subseteq Command
  /\ \A c, d \in awaiting : c.id = d.id => c = d
  /\ Ordered(Rest)
  /\ AwaitedAreDue /\ DueAreAwaited /\ HeldIsOldest /\ VerdictsFit

LEMMA ArrivedIs ==
  ASSUME NEW s \in Seq(ByteOf), NEW c
  PROVE  Arrived(c, s) <=> \E k \in 1..Len(s) : s[k].c = c /\ Ends(s[k])
<1>1. \A k \in 1..Len(s) : s[k] = [c |-> s[k].c, i |-> s[k].i]
  <2>1. \A b \in ByteOf : b = [c |-> b.c, i |-> b.i]
    BY DEF ByteOf
  <2> QED BY <2>1
<1>2. \A k \in 1..Len(s) :
        s[k] = Byte(c, SentLength(c)) <=> s[k].c = c /\ Ends(s[k])
  BY <1>1 DEF Byte, Ends
<1> QED BY <1>2 DEF Arrived

LEMMA OrderedBehind ==
  ASSUME NEW s \in Seq(ByteOf), NEW t \in Seq(ByteOf), NEW d,
         Behind(s, t, d), Ordered(s)
  PROVE  Ordered(t)
<1> SUFFICES ASSUME NEW k \in 1..Len(t), NEW m \in 1..Len(t), k < m
             PROVE  \/ t[k].c.id < t[m].c.id
                    \/ t[m].c = t[k].c /\ t[m].i = t[k].i + (m - k)
  BY DEF Ordered
<1>1. /\ k + d \in 1..Len(s) /\ m + d \in 1..Len(s) /\ k + d < m + d
      /\ (m + d) - (k + d) = m - k
  BY DEF Behind
<1>2. t[k] = s[k + d] /\ t[m] = s[m + d]
  BY DEF Behind
<1> QED BY <1>1, <1>2 DEF Ordered

LEMMA OrderedBefore ==
  ASSUME NEW s \in Seq(ByteOf), NEW t \in Seq(ByteOf),
         Len(t) <= Len(s), \A k \in 1..Len(t) : t[k] = s[k], Ordered(s)
  PROVE  Ordered(t)
<1> SUFFICES ASSUME NEW k \in 1..Len(t), NEW m \in 1..Len(t), k < m
             PROVE  \/ t[k].c.id < t[m].c.id
                    \/ t[m].c = t[k].c /\ t[m].i = t[k].i + (m - k)
  BY DEF Ordered
<1>1. k \in 1..Len(s) /\ m \in 1..Len(s)
  OBVIOUS
<1>2. t[k] = s[k] /\ t[m] = s[m]
  OBVIOUS
<1> QED BY <1>1, <1>2 DEF Ordered

LEMMA OrderedWith ==
  ASSUME NEW s \in Seq(ByteOf), NEW t \in Seq(ByteOf), NEW c,
         SentLength(c) \in Nat, Extends(s, t, c), Ordered(s),
         \A k \in 1..Len(s) : s[k].c.id < c.id
  PROVE  Ordered(t)
<1> DEFINE l == Len(s)
           w == SentLength(c)
<1>0. /\ l \in Nat /\ w \in Nat /\ Len(t) = l + w
      /\ \A k \in 1..l : t[k] = s[k] /\ s[k].c.id < c.id
      /\ \A k \in 1..w : t[l + k].c = c /\ t[l + k].i = k
      /\ \A k, m \in 1..l : k < m =>
           \/ s[k].c.id < s[m].c.id
           \/ s[m].c = s[k].c /\ s[m].i = s[k].i + (m - k)
  BY DEF Extends, Ordered
<1> HIDE DEF l, w
<1>n. \A k \in l + 1..l + w : t[k].c = c /\ t[k].i = k - l
  <2> SUFFICES ASSUME NEW k \in l + 1..l + w PROVE t[k].c = c /\ t[k].i = k - l
    OBVIOUS
  <2>1. k - l \in 1..w /\ l + (k - l) = k BY <1>0
  <2>2. t[l + (k - l)].c = c /\ t[l + (k - l)].i = k - l BY <2>1, <1>0
  <2> QED BY <2>1, <2>2
<1> SUFFICES ASSUME NEW k \in 1..l + w, NEW m \in 1..l + w, k < m
             PROVE  \/ t[k].c.id < t[m].c.id
                    \/ t[m].c = t[k].c /\ t[m].i = t[k].i + (m - k)
  BY <1>0 DEF Ordered
<1>1. CASE m <= l
  <2>1. k \in 1..l /\ m \in 1..l BY <1>1, <1>0
  <2>2. t[k] = s[k] /\ t[m] = s[m] BY <2>1, <1>0
  <2> QED BY <2>1, <2>2, <1>0
<1>2. CASE k <= l /\ m > l
  <2>1. k \in 1..l /\ m \in l + 1..l + w BY <1>2, <1>0
  <2>2. t[k] = s[k] /\ s[k].c.id < c.id BY <2>1, <1>0
  <2>3. t[m].c = c BY <2>1, <1>n
  <2> QED BY <2>2, <2>3
<1>3. CASE k > l
  <2>1. k \in l + 1..l + w /\ m \in l + 1..l + w BY <1>3, <1>0
  <2>2. t[k].c = c /\ t[k].i = k - l /\ t[m].c = c /\ t[m].i = m - l BY <2>1, <1>n
  <2>3. m - l = (k - l) + (m - k) BY <1>0
  <2> QED BY <2>2, <2>3
<1> QED BY <1>0, <1>1, <1>2, <1>3

(* Behind the last byte of a command come later commands only. *)
LEMMA LaterCommands ==
  ASSUME NEW s \in Seq(ByteOf), Ordered(s), NEW d \in 1..Len(s), Ends(s[d]),
         NEW m \in 1..Len(s), d < m
  PROVE  s[d].c.id < s[m].c.id
<1> SUFFICES ASSUME s[m].c = s[d].c, s[m].i = s[d].i + (m - d) PROVE FALSE
  BY DEF Ordered
<1>1. s[d] \in ByteOf /\ s[m] \in ByteOf OBVIOUS
<1> DEFINE i == s[d].i
           j == s[m].i
           l == SentLength(s[d].c)
<1>2. i \in Nat /\ j \in Nat /\ l \in Nat /\ i = l /\ j <= l /\ j = i + (m - d)
  BY <1>1, ByteIs DEF Ends
<1> HIDE DEF i, j, l
<1> QED BY <1>2

(* d bytes that end no command are taken. *)
LEMMA StillArrived ==
  ASSUME NEW s \in Seq(ByteOf), NEW t \in Seq(ByteOf), NEW d, Behind(s, t, d),
         \A m \in 1..d : ~Ends(s[m]), NEW c, Arrived(c, s)
  PROVE  Arrived(c, t)
<1>1. PICK k \in 1..Len(s) : s[k].c = c /\ Ends(s[k])
  BY ArrivedIs
<1>2. d \in 0..Len(s) /\ Len(t) = Len(s) - d BY DEF Behind
<1>3. k > d
  <2>1. SUFFICES ASSUME k <= d PROVE FALSE BY <1>2
  <2>2. k \in 1..d BY <1>2, <2>1
  <2> QED BY <1>1, <2>2
<1>4. k - d \in 1..Len(t) /\ (k - d) + d = k BY <1>2, <1>3
<1>5. t[k - d] = s[k] BY <1>4 DEF Behind
<1> QED BY <1>1, <1>4, <1>5, ArrivedIs

(* The d-th byte is the first to end a command: every other command that    *)
(* ends in the stream is later, and ends behind it.                         *)
LEMMA FirstToEnd ==
  ASSUME NEW s \in Seq(ByteOf), NEW t \in Seq(ByteOf), NEW d \in 1..Len(s),
         Behind(s, t, d), Ordered(s),
         \A m \in 1..d - 1 : ~Ends(s[m]), Ends(s[d]), NEW c, Arrived(c, s),
         c # s[d].c
  PROVE  s[d].c.id < c.id /\ Arrived(c, t)
<1>1. PICK k \in 1..Len(s) : s[k].c = c /\ Ends(s[k])
  BY ArrivedIs
<1>2. Len(t) = Len(s) - d BY DEF Behind
<1>3. k > d
  <2>1. SUFFICES ASSUME k <= d PROVE FALSE OBVIOUS
  <2>2. k \in 1..d - 1 \/ k = d BY <2>1
  <2> QED BY <1>1, <2>2
<1>4. k - d \in 1..Len(t) /\ (k - d) + d = k BY <1>2, <1>3
<1>5. t[k - d] = s[k] BY <1>4 DEF Behind
<1>6. s[d].c.id < s[k].c.id BY <1>3, LaterCommands
<1> QED BY <1>1, <1>4, <1>5, <1>6, ArrivedIs

(* DueInv after a step that leaves stream t. *)
LEMMA DueAfter ==
  ASSUME NEW t, t = Rest', awaiting' \subseteq Command,
         \A c, e \in awaiting' : c.id = e.id => c = e,
         Ordered(t),
         \A c \in awaiting' :
           c.id <= sent' /\ (Arrived(c, t) \/ (Held' /\ c.id \in parts')),
         \A k \in 1..Len(t) : t[k].c.id <= sent' /\ (Ends(t[k]) => t[k].c \in awaiting'),
         Held' => \E c \in awaiting' :
                    /\ parts' = {c.id} /\ LkJudges(c)'
                    /\ \A k \in 1..Len(t) : c.id < t[k].c.id,
         VerdictsFit'
  PROVE  DueInv'
<1>1. Ordered(Rest)' BY DEF Ordered
<1>2. AwaitedAreDue' BY DEF AwaitedAreDue, Arrived
<1>3. DueAreAwaited' BY DEF DueAreAwaited, Ends
<1>4. HeldIsOldest' BY DEF HeldIsOldest
<1> QED BY <1>1, <1>2, <1>3, <1>4 DEF DueInv

(* A step that takes no byte and moves no command. *)
LEMMA DueStays ==
  ASSUME DueInv, Rest' = Rest, UNCHANGED <<awaiting, sent, parts, lk>>,
         pc' = "lk" <=> pc = "lk", P' = P \/ P'.pay_need = 0
  PROVE  DueInv'
<1>1. Held' <=> Held BY DEF Held
<1>2. AwaitedAreDue' BY <1>1 DEF DueInv, AwaitedAreDue, Arrived
<1>3. DueAreAwaited' BY DEF DueInv, DueAreAwaited
<1>4. HeldIsOldest' BY <1>1 DEF DueInv, HeldIsOldest, LkJudges
<1>5. VerdictsFit' BY DEF DueInv, VerdictsFit, LkJudges
<1>6. Ordered(Rest)' BY DEF DueInv, Ordered
<1> QED BY <1>2, <1>3, <1>4, <1>5, <1>6 DEF DueInv

(* Bytes are taken that end no command. *)
LEMMA DueTakenOpen ==
  ASSUME DueInv, Rest \in Seq(ByteOf), Rest' \in Seq(ByteOf),
         NEW d, Behind(Rest, Rest', d), \A m \in 1..d : ~Ends(Rest[m]),
         ~Held, ~Held', UNCHANGED <<awaiting, sent>>, VerdictsFit'
  PROVE  DueInv'
<1> SUFFICES ASSUME NEW s, s = Rest, NEW t, t = Rest' PROVE DueInv'
  OBVIOUS
<1>1. /\ s \in Seq(ByteOf) /\ t \in Seq(ByteOf) /\ Behind(s, t, d)
      /\ \A m \in 1..d : ~Ends(s[m])
      /\ awaiting \subseteq Command /\ \A c, e \in awaiting : c.id = e.id => c = e
      /\ Ordered(s)
  BY DEF DueInv
<1>2. \A c \in awaiting : c.id <= sent /\ Arrived(c, s)
  BY DEF DueInv, AwaitedAreDue
<1>3. \A k \in 1..Len(s) : s[k].c.id <= sent /\ (Ends(s[k]) => s[k].c \in awaiting)
  BY DEF DueInv, DueAreAwaited, Ends
<1>4. Ordered(t) BY <1>1, OrderedBehind
<1>5. \A c \in awaiting : Arrived(c, t) BY <1>1, <1>2, StillArrived
<1>6. \A k \in 1..Len(t) : t[k].c.id <= sent /\ (Ends(t[k]) => t[k].c \in awaiting)
  <2>1. \A k \in 1..Len(t) : k + d \in 1..Len(s) /\ t[k] = s[k + d]
    BY <1>1 DEF Behind
  <2> QED BY <1>3, <2>1
<1> QED BY <1>1, <1>2, <1>4, <1>5, <1>6, DueAfter

(* Bytes are taken, of which the last is the only one to end a command, and *)
(* the command is answered: it was the oldest the host awaited.             *)
LEMMA DueTakenWhole ==
  ASSUME DueInv, Rest \in Seq(ByteOf), Rest' \in Seq(ByteOf),
         NEW d \in 1..Len(Rest), Behind(Rest, Rest', d),
         \A m \in 1..d - 1 : ~Ends(Rest[m]), Ends(Rest[d]),
         ~Held, ~Held', sent' = sent,
         NEW c, c = Rest[d].c, awaiting' = {e \in awaiting : e.id # c.id},
         VerdictsFit'
  PROVE  /\ DueInv'
         /\ c \in awaiting /\ awaiting' = awaiting \ {c}
         /\ \A e \in awaiting \ {c} : c.id < e.id
<1> SUFFICES ASSUME NEW s, s = Rest, NEW t, t = Rest'
             PROVE  /\ DueInv'
                    /\ c \in awaiting /\ awaiting' = awaiting \ {c}
                    /\ \A e \in awaiting \ {c} : c.id < e.id
  OBVIOUS
<1>1. /\ s \in Seq(ByteOf) /\ t \in Seq(ByteOf) /\ Behind(s, t, d) /\ d \in 1..Len(s)
      /\ \A m \in 1..d - 1 : ~Ends(s[m])
      /\ Ends(s[d]) /\ c = s[d].c
      /\ awaiting \subseteq Command /\ \A f, e \in awaiting : f.id = e.id => f = e
      /\ Ordered(s)
  BY DEF DueInv
<1>2. \A e \in awaiting : e.id <= sent /\ Arrived(e, s)
  BY DEF DueInv, AwaitedAreDue
<1>3. \A k \in 1..Len(s) : s[k].c.id <= sent /\ (Ends(s[k]) => s[k].c \in awaiting)
  BY DEF DueInv, DueAreAwaited, Ends
<1>4. Ordered(t) BY <1>1, OrderedBehind
<1>5. c \in awaiting BY <1>1, <1>3
<1>6. \A e \in awaiting \ {c} : c.id < e.id /\ Arrived(e, t)
  BY <1>1, <1>2, FirstToEnd
<1>7. awaiting' = awaiting \ {c} BY <1>1, <1>5
<1>8. \A k \in 1..Len(t) : t[k].c.id <= sent /\ (Ends(t[k]) => t[k].c \in awaiting')
  <2> SUFFICES ASSUME NEW k \in 1..Len(t)
               PROVE  t[k].c.id <= sent /\ (Ends(t[k]) => t[k].c \in awaiting')
    OBVIOUS
  <2>1. k + d \in 1..Len(s) /\ t[k] = s[k + d] /\ d < k + d
    BY <1>1 DEF Behind
  <2>2. c.id < t[k].c.id BY <1>1, <2>1, LaterCommands
  <2>3. c.id \in Nat /\ t[k].c.id \in Nat
    <3>1. \A e \in Command : e.id \in Nat BY DEF Command
    <3>2. t[k] \in ByteOf /\ s[d] \in ByteOf BY <1>1
    <3> QED BY <1>1, <3>1, <3>2, ByteIs
  <2> QED BY <1>3, <2>1, <2>2, <2>3
<1>9. DueInv' BY <1>1, <1>2, <1>4, <1>6, <1>7, <1>8, DueAfter
<1> QED BY <1>5, <1>6, <1>7, <1>9

(* ... or LK has them, and answers next. *)
LEMMA DueTakenByLk ==
  ASSUME DueInv, Rest \in Seq(ByteOf), Rest' \in Seq(ByteOf), Rest # <<>>,
         Behind(Rest, Rest', 1), Ends(Rest[1]), ~Held, Held',
         UNCHANGED <<awaiting, sent>>, NEW c, c = Rest[1].c,
         parts' = {c.id}, LkJudges(c)', VerdictsFit'
  PROVE  DueInv'
<1> SUFFICES ASSUME NEW s, s = Rest, NEW t, t = Rest' PROVE DueInv'
  OBVIOUS
<1>1. /\ s \in Seq(ByteOf) /\ t \in Seq(ByteOf) /\ Behind(s, t, 1) /\ 1 \in 1..Len(s)
      /\ \A m \in 1..1 - 1 : ~Ends(s[m])
      /\ Ends(s[1]) /\ c = s[1].c
      /\ awaiting \subseteq Command /\ \A f, e \in awaiting : f.id = e.id => f = e
      /\ Ordered(s)
  BY DEF DueInv
<1>2. \A e \in awaiting : e.id <= sent /\ Arrived(e, s)
  BY DEF DueInv, AwaitedAreDue
<1>3. \A k \in 1..Len(s) : s[k].c.id <= sent /\ (Ends(s[k]) => s[k].c \in awaiting)
  BY DEF DueInv, DueAreAwaited, Ends
<1>4. Ordered(t) BY <1>1, OrderedBehind
<1>5. c \in awaiting BY <1>1, <1>3
<1>6. \A e \in awaiting : e = c \/ Arrived(e, t)
  BY <1>1, <1>2, FirstToEnd
<1>7. \A k \in 1..Len(t) : c.id < t[k].c.id /\ t[k].c.id <= sent
                           /\ (Ends(t[k]) => t[k].c \in awaiting)
  <2> SUFFICES ASSUME NEW k \in 1..Len(t)
               PROVE  c.id < t[k].c.id /\ t[k].c.id <= sent
                      /\ (Ends(t[k]) => t[k].c \in awaiting)
    OBVIOUS
  <2>1. k + 1 \in 1..Len(s) /\ t[k] = s[k + 1] /\ 1 < k + 1
    BY <1>1 DEF Behind
  <2> QED BY <1>1, <1>3, <2>1, LaterCommands
<1> QED BY <1>1, <1>2, <1>4, <1>5, <1>6, <1>7, DueAfter

-----------------------------------------------------------------------------
(* The server's vocabulary is the device's. *)

LEMMA ServerWords ==
  /\ Server!ReadOps = ReadOps /\ Server!SizedOps = SizedOps
  /\ Server!PayloadOps = PayloadOps
  /\ Server!CMD_PING = CMD_PING /\ Server!CMD_RESYNC = CMD_RESYNC
  /\ Server!CMD_SET_SIZE = CMD_SET_SIZE /\ Server!CMD_READ_3D = CMD_READ_3D
  /\ Server!CMD_FLASH_PROGRAM = CMD_FLASH_PROGRAM
  /\ Server!CMD_SET_MODE_AGB = CMD_SET_MODE_AGB
  /\ Server!CMD_SET_MODE_DMG = CMD_SET_MODE_DMG
<1>1. /\ Server!CMD_PING = CMD_PING /\ Server!CMD_RESYNC = CMD_RESYNC
      /\ Server!CMD_SET_SIZE = CMD_SET_SIZE /\ Server!CMD_READ_3D = CMD_READ_3D
      /\ Server!CMD_FLASH_PROGRAM = CMD_FLASH_PROGRAM
      /\ Server!CMD_SET_MODE_AGB = CMD_SET_MODE_AGB
      /\ Server!CMD_SET_MODE_DMG = CMD_SET_MODE_DMG
      /\ Server!CMD_CART_READ = CMD_CART_READ /\ Server!CMD_BATCH = CMD_BATCH
      /\ Server!CMD_SAVE_WRITE = CMD_SAVE_WRITE
  BY DEF Server!CMD_PING, CMD_PING, Server!CMD_RESYNC, CMD_RESYNC,
         Server!CMD_SET_SIZE, CMD_SET_SIZE, Server!CMD_READ_3D, CMD_READ_3D,
         Server!CMD_FLASH_PROGRAM, CMD_FLASH_PROGRAM,
         Server!CMD_SET_MODE_AGB, CMD_SET_MODE_AGB,
         Server!CMD_SET_MODE_DMG, CMD_SET_MODE_DMG,
         Server!CMD_CART_READ, CMD_CART_READ, Server!CMD_BATCH, CMD_BATCH,
         Server!CMD_SAVE_WRITE, CMD_SAVE_WRITE
<1> QED BY <1>1 DEF Server!ReadOps, ReadOps, Server!SizedOps, SizedOps,
                    Server!PayloadOps, PayloadOps

(* The two limits of the abstract server enclose the three of the device. *)
Fits == MinOf(MinOf(PayloadMax, LkPayloadMax), BatchMax)
Most == MaxOf(MaxOf(PayloadMax, LkPayloadMax), BatchMax)

LEMMA LimitsAre ==
  /\ Fits \in Nat /\ Most \in Nat
  /\ \A max \in {PayloadMax, LkPayloadMax, BatchMax} :
       max \in Nat /\ Fits <= max /\ max <= Most
BY ConstantsAre DEF Fits, Most, MinOf, MaxOf

LEMMA LegalIs ==
  ASSUME NEW c, NEW kind
  PROVE  Server!Legal(c, kind) <=>
           \/ kind = "PONG"  /\ c.op = CMD_PING
           \/ kind = "DATA"  /\ c.op \in ReadOps
           \/ kind = "ACK"   /\ c.op \in {CMD_SET_MODE_AGB, CMD_SET_MODE_DMG, CMD_SET_SIZE}
           \/ kind = "ACK"   /\ c.op = CMD_RESYNC /\ ~page_terminator_due
           \/ kind = "ACK"   /\ c.op \in PayloadOps /\ c.n <= Most
           \/ kind = "ERROR" /\ c.op \in PayloadOps /\ (c.n = 0 \/ c.n > Fits)
           \/ kind = "ERROR" /\ c.op = CMD_FLASH_PROGRAM
BY ServerWords DEF Server!Legal, Fits, Most

(* The oldest command has its answer. *)
LEMMA Serves ==
  ASSUME NEW c \in awaiting, \A e \in awaiting \ {c} : c.id < e.id,
         awaiting' = awaiting \ {c}, alive' = alive,
         \/ \E kind \in {"PONG", "DATA", "ACK", "ERROR"} :
              /\ Server!Legal(c, kind)
              /\ answer' = Answer(c.id, kind, IF c.op \in ReadOps THEN transfer_size
                                              ELSE IF c.op = CMD_PING THEN c.n ELSE 0)
         \/ c.op = CMD_RESYNC /\ page_terminator_due /\ answer' = answer,
         transfer_size' = IF c.op = CMD_SET_SIZE THEN c.n ELSE transfer_size,
         page_terminator_due' \in
           IF c.op = CMD_READ_3D THEN {TRUE}
           ELSE IF c.op \in PayloadOps THEN {page_terminator_due, FALSE} ELSE {FALSE}
  PROVE  Server!Serve
<1>1. Server!AnswerValue(c) = IF c.op \in ReadOps THEN transfer_size
                              ELSE IF c.op = CMD_PING THEN c.n ELSE 0
  BY ServerWords DEF Server!AnswerValue
<1>2. \A i, k, n : Server!Answer(i, k, n) = Answer(i, k, n)
  BY DEF Server!Answer, Answer
<1>3. \/ \E kind \in {"PONG", "DATA", "ACK", "ERROR"} :
           /\ Server!Legal(c, kind)
           /\ answer' = Server!Answer(c.id, kind, Server!AnswerValue(c))
      \/ c.op = Server!CMD_RESYNC /\ page_terminator_due /\ answer' = answer
  BY <1>1, <1>2, ServerWords
<1> QED BY <1>3, ServerWords DEF Server!Serve

LEMMA OpsDiffer ==
  /\ CMD_RESYNC \notin PayloadOps \cup ReadOps
  /\ CMD_PING \notin PayloadOps \cup ReadOps
  /\ CMD_SET_SIZE \notin PayloadOps \cup ReadOps
  /\ CMD_SET_MODE_AGB \notin PayloadOps \cup ReadOps
  /\ CMD_SET_MODE_DMG \notin PayloadOps \cup ReadOps
  /\ \A op \in PayloadOps : op \notin ReadOps /\ op # CMD_PING /\ op # CMD_SET_SIZE
                            /\ op # CMD_READ_3D
  /\ CMD_READ_3D \in ReadOps /\ CMD_FLASH_PROGRAM \in PayloadOps
  /\ CMD_PING # CMD_RESYNC /\ CMD_PING # CMD_SET_SIZE
  /\ CMD_PING \notin {CMD_SET_MODE_AGB, CMD_SET_MODE_DMG}
  /\ CMD_RESYNC \notin {CMD_SET_MODE_AGB, CMD_SET_MODE_DMG, CMD_SET_SIZE}
  /\ CMD_READ_3D # CMD_BATCH
BY DEF PayloadOps, SizedOps, ReadOps, CMD_RESYNC, CMD_PING, CMD_SET_SIZE,
  CMD_SET_MODE_AGB, CMD_SET_MODE_DMG, CMD_READ_3D, CMD_FLASH_PROGRAM, CMD_BATCH,
  CMD_CART_READ, CMD_SAVE_WRITE

(* execute() answers a command without a payload as the server does. *)
LEMMA ExecuteServes ==
  ASSUME IInv, NEW c \in Command, c \in awaiting,
         \A e \in awaiting \ {c} : c.id < e.id,
         awaiting' = awaiting \ {c}, alive' = alive,
         NEW arg, Execute(c.op, arg, c), SentPayload(c) = 0,
         c.op \in {CMD_PING, CMD_SET_SIZE} => arg = c.n
  PROVE  Server!Serve
<1> DEFINE op == c.op
           Answers(kind, n) == answer' = Answer(c.id, kind, n)
<1>1. /\ op = CMD_PING => Answers("PONG", arg)
      /\ op # CMD_PING /\ op \in ReadOps => Answers("DATA", transfer_size)
      /\ op = CMD_RESYNC /\ page_terminator_due => answer' = answer
      /\ op = CMD_RESYNC /\ ~page_terminator_due => Answers("ACK", 0)
      /\ op \in {CMD_SET_MODE_AGB, CMD_SET_MODE_DMG, CMD_SET_SIZE} => Answers("ACK", 0)
      /\ op \in PayloadOps => Answers("ERROR", 0)
  BY OpsDiffer DEF Execute, Answered, NotAnswered
<1>2. transfer_size' = IF op = CMD_SET_SIZE THEN c.n ELSE transfer_size
  BY ExecuteIs DEF Command
<1>3. page_terminator_due' = (op = CMD_READ_3D)
  BY DEF Execute, TerminatorAfter
<1>4. op \in PayloadOps => c.n = 0
  BY DEF SentPayload
<1>5. op \in {CMD_SET_SIZE} \cup PayloadOps \cup ReadOps \cup PlainOps
  BY DEF Command
<1>6. \/ \E kind \in {"PONG", "DATA", "ACK", "ERROR"} :
           /\ Server!Legal(c, kind)
           /\ Answers(kind, IF op \in ReadOps THEN transfer_size
                            ELSE IF op = CMD_PING THEN c.n ELSE 0)
      \/ op = CMD_RESYNC /\ page_terminator_due /\ answer' = answer
  <2> HIDE DEF op, Answers
  <2>0. \A kind : Server!Legal(c, kind) <=>
           \/ kind = "PONG"  /\ op = CMD_PING
           \/ kind = "DATA"  /\ op \in ReadOps
           \/ kind = "ACK"   /\ op \in {CMD_SET_MODE_AGB, CMD_SET_MODE_DMG, CMD_SET_SIZE}
           \/ kind = "ACK"   /\ op = CMD_RESYNC /\ ~page_terminator_due
           \/ kind = "ACK"   /\ op \in PayloadOps /\ c.n <= Most
           \/ kind = "ERROR" /\ op \in PayloadOps /\ (c.n = 0 \/ c.n > Fits)
           \/ kind = "ERROR" /\ op = CMD_FLASH_PROGRAM
    BY LegalIs DEF op
  <2>1. CASE op = CMD_PING
    <3>1. arg = c.n BY <2>1 DEF op
    <3> QED BY <1>1, <2>0, <2>1, <3>1, OpsDiffer
  <2>2. CASE op \in ReadOps BY <1>1, <2>0, <2>2, OpsDiffer
  <2>3. CASE op = CMD_RESYNC BY <1>1, <2>0, <2>3, OpsDiffer
  <2>4. CASE op \in {CMD_SET_MODE_AGB, CMD_SET_MODE_DMG, CMD_SET_SIZE}
    BY <1>1, <2>0, <2>4, OpsDiffer
  <2>5. CASE op \in PayloadOps BY <1>1, <1>4, <2>0, <2>5, OpsDiffer
  <2> QED BY <1>5, <2>1, <2>2, <2>3, <2>4, <2>5 DEF PlainOps
<1>7. page_terminator_due' \in
        IF op = CMD_READ_3D THEN {TRUE}
        ELSE IF op \in PayloadOps THEN {page_terminator_due, FALSE} ELSE {FALSE}
  BY <1>3
<1> QED BY <1>2, <1>6, <1>7, Serves

-----------------------------------------------------------------------------
(* Steps of the device that are none of the server's. *)

ServerStep == Server!Next \/ UNCHANGED Server!serverVars

LEMMA QuietStep ==
  ASSUME UNCHANGED <<awaiting, answer, stateVars, alive>> PROVE ServerStep
BY DEF ServerStep, Server!serverVars, stateVars

LEMMA ServeStep ==
  ASSUME Server!Serve PROVE ServerStep
BY DEF ServerStep, Server!Next

LEMMA TopServes ==
  ASSUME DueInv, Top PROVE DueInv' /\ ServerStep
<1>1. /\ pc = "top" /\ pc' = "rx"
      /\ UNCHANGED <<awaiting, answer, stateVars, alive, sent, parts, lk, batch, wire>>
  BY DEF Top
<1>2. P' = P \/ P'.pay_need = 0
  BY ResetIs DEF Top
<1>3. Rest' = Rest BY <1>1 DEF Rest
<1>4. DueInv' BY <1>1, <1>2, <1>3, DueStays
<1> QED BY <1>1, <1>4, QuietStep

LEMMA TakeBatchServes ==
  ASSUME IInv, DueInv, pc \in {"rx", "wait"}, TakeBatch PROVE DueInv' /\ ServerStep
<1>1. /\ pc' = "feed" /\ P' = P
      /\ UNCHANGED <<awaiting, answer, stateVars, alive, sent, parts, lk>>
  BY DEF TakeBatch, parserVars
<1>t. batch = <<>> /\ wire \in Seq(ByteOf)
  BY DEF IInv, SessionInv, StreamInv
<1>s. PICK k \in 1..MinOf(RxMax, Len(wire)) :
        /\ batch' = SubSeq(wire, 1, k)
        /\ wire' = SubSeq(wire, k + 1, Len(wire))
  BY DEF TakeBatch
<1>k. k \in 0..Len(wire)
  <2>1. Len(wire) \in Nat /\ RxMax \in Nat BY <1>t, ConstantsAre
  <2> QED BY <2>1 DEF MinOf
<1>3. Rest' = Rest
  <2>1. Rest' = wire BY <1>t, <1>s, <1>k, CutAndJoined DEF Rest
  <2>2. Rest = wire BY <1>t, EmptyJoins DEF Rest
  <2> QED BY <2>1, <2>2
<1>4. DueInv' BY <1>1, <1>3, DueStays
<1> QED BY <1>1, <1>4, QuietStep

LEMMA IdleServes ==
  ASSUME DueInv, ReceiveNothing \/ WaitGiveUp \/ BatchDone \/ Elapse
  PROVE  DueInv' /\ ServerStep
<1>1. /\ pc' = "lk" <=> pc = "lk"
      /\ UNCHANGED <<P, awaiting, answer, stateVars, alive, sent, parts, lk, batch, wire>>
  BY DEF ReceiveNothing, WaitGiveUp, BatchDone, Elapse, parserVars, hostVars
<1>3. Rest' = Rest BY <1>1 DEF Rest
<1>4. DueInv' BY <1>1, <1>3, DueStays
<1> QED BY <1>1, <1>4, QuietStep

-----------------------------------------------------------------------------
(* The parser's steps answer the command whose last byte they take.         *)

LEMMA PayloadLenIs ==
  ASSUME NEW c, NEW arg, c.op \in SizedOps => c.n = transfer_size,
         arg = IF SentArgs(c.op) = 0 THEN 0 ELSE c.n
  PROVE  PayloadLen(c.op, arg) = SentPayload(c)
<1>1. CASE c.op \in SizedOps
  BY <1>1 DEF PayloadLen, SentPayload, PayloadOps
<1>2. CASE c.op = CMD_BATCH
  BY <1>2, ArgsAre, Opcodes DEF PayloadLen, SentPayload, PayloadOps
<1>3. CASE c.op \notin SizedOps /\ c.op # CMD_BATCH
  BY <1>3 DEF PayloadLen, SentPayload, PayloadOps
<1> QED BY <1>1, <1>2, <1>3

LEMMA ParserLeavesLk ==
  ASSUME pc # "lk", pc' # "lk" PROVE ~Held /\ ~Held'
BY DEF Held

(* The header's last byte is taken. *)
LEMMA HeaderServes ==
  ASSUME IInv, DueInv, IInv', TakesByte, pc = "feed", pc' = "feed",
         UNCHANGED <<sent, alive>>, P.pay_need = 0,
         NEW arg, HeaderDone(Rest[1].c.op, arg, Rest[1].c),
         arg = IF SentArgs(Rest[1].c.op) = 0 THEN 0 ELSE Rest[1].c.n
  PROVE  DueInv' /\ ServerStep
<1> SUFFICES ASSUME NEW b \in ByteOf, b = Rest[1], Ready(b)', Rest # <<>>,
                    Rest' \in Seq(ByteOf), Behind(Rest, Rest', 1)
             PROVE  DueInv' /\ ServerStep
  BY DEF TakesByte
<1> DEFINE op == b.c.op
           n  == PayloadLen(op, arg)
<1>0. /\ Rest \in Seq(ByteOf) /\ 1 \in 1..Len(Rest)
      /\ op \in SizedOps => b.c.n = transfer_size
      /\ b.c \in Command
      /\ ~Held /\ ~Held'
  <2>1. RestKnown BY RestIs DEF IInv, StreamInv
  <2> QED BY <2>1, HeadIs, ByteIs, ParserLeavesLk DEF RestKnown
<1>1. n = SentPayload(b.c) BY <1>0, PayloadLenIs
<1>2. HeaderDone(op, arg, b.c) OBVIOUS
<1>3. P'.op = 0 <=> Ends(b)
  BY DEF Ready, Open, Ends
<1>4. CASE n = 0
  <2>1. P' = ParserReset /\ Execute(op, arg, b.c) BY <1>2, <1>4 DEF HeaderDone
  <2>2. Ends(b) /\ VerdictsFit' BY <1>3, <2>1, ResetIs DEF VerdictsFit
  <2>3. awaiting' = {e \in awaiting : e.id # b.c.id}
    BY <2>1 DEF Execute, Answered, NotAnswered
  <2>4. /\ DueInv' /\ b.c \in awaiting /\ awaiting' = awaiting \ {b.c}
        /\ \A e \in awaiting \ {b.c} : b.c.id < e.id
    <3>1. PICK c : c = Rest[1].c OBVIOUS
    <3>2. \A m \in 1..1 - 1 : ~Ends(Rest[m]) OBVIOUS
    <3>3. /\ DueInv' /\ c \in awaiting /\ awaiting' = awaiting \ {c}
          /\ \A e \in awaiting \ {c} : c.id < e.id
      BY <1>0, <2>2, <2>3, <3>1, <3>2, DueTakenWhole
    <3> QED BY <3>1, <3>3
  <2>5. op \in {CMD_PING, CMD_SET_SIZE} => arg = b.c.n
    <3>1. op \in {CMD_PING, CMD_SET_SIZE} => SentArgs(op) # 0
      BY DEF SentArgs
    <3> QED BY <3>1
  <2>6. Server!Serve
    BY <1>0, <1>1, <1>4, <2>1, <2>4, <2>5, ExecuteServes
  <2> QED BY <2>4, <2>6, ServeStep
<1>5. CASE n # 0
  <2> DEFINE o == n > PayloadMax
  <2>1. /\ P' = Opened(P, op, arg, n, o)
        /\ UNCHANGED <<stateVars, answer, awaiting>>
    BY <1>2, <1>5 DEF HeaderDone, Opened
  <2>2. P \in ParserRecord BY DEF IInv, ParserShape, ParserRecord
  <2>3. P'.pay_need = n /\ P'.pay_over = o /\ P'.arg = arg /\ P'.op = op
    BY <2>1, <2>2 DEF Opened, ParserRecord
  <2>4. op # 0 /\ (op = CMD_BATCH => n = arg)
    BY <1>1, <1>5, Opcodes DEF SentPayload, PayloadLen
  <2>5. ~Ends(b) BY <1>3, <2>3, <2>4
  <2>6. VerdictsFit'
    <3>1. P'.pay_over = (P'.pay_need > PayloadMax) BY <2>3
    <3>2. P'.op = CMD_BATCH => P'.arg = P'.pay_need BY <2>3, <2>4
    <3> QED BY <3>1, <3>2 DEF VerdictsFit
  <2>7. \A m \in 1..1 : ~Ends(Rest[m]) BY <2>5
  <2>8. DueInv' BY <1>0, <2>1, <2>6, <2>7, DueTakenOpen
  <2> QED BY <2>1, <2>8, QuietStep
<1> QED BY <1>4, <1>5

(* A byte of the header that is not the last one is taken. *)
LEMMA ArgumentServes ==
  ASSUME IInv, DueInv, TakesByte, pc = "feed", pc' = "feed",
         UNCHANGED <<sent, alive, stateVars, answer, awaiting>>,
         P'.op # 0, P'.pay_need = 0
  PROVE  DueInv' /\ ServerStep
<1>1. PICK b \in ByteOf : /\ b = Rest[1] /\ Ready(b)' /\ Rest # <<>>
                          /\ Rest' \in Seq(ByteOf) /\ Behind(Rest, Rest', 1)
  BY DEF TakesByte
<1>2. Rest \in Seq(ByteOf) /\ ~Held /\ ~Held'
  <2>1. RestKnown BY RestIs DEF IInv, StreamInv
  <2> QED BY <2>1, ParserLeavesLk DEF RestKnown
<1>3. \A m \in 1..1 : ~Ends(Rest[m])
  <2>1. Open' BY DEF Open
  <2> QED BY <1>1, <2>1 DEF Ready, Ends
<1>4. VerdictsFit' BY DEF VerdictsFit
<1>5. DueInv' BY <1>1, <1>2, <1>3, <1>4, DueTakenOpen
<1> QED BY <1>5, QuietStep

LEMMA FeedOpcodeServes ==
  ASSUME IInv, DueInv, FeedOpcode PROVE DueInv' /\ ServerStep
<1>0. /\ pc = "feed" /\ pc' = "feed" /\ UNCHANGED <<sent, alive>>
      /\ batch # <<>> /\ batch' = Tail(batch) /\ wire' = wire /\ Idle
  BY DEF FeedOpcode, Feeding, hostVars
<1>1. IInv' /\ TakesByte BY FeedOpcodeKeeps
<1>2. PICK b : b = Rest[1] OBVIOUS
<1>3. Head(batch) = b /\ Rest # <<>> BY <1>0, <1>2, FromBatch
<1>4. /\ b \in ByteOf /\ b.i = 1 /\ ValueOf(b) = b.c.op
      /\ ArgLen(b.c.op) = SentArgs(b.c.op) /\ SentArgs(b.c.op) \in 0..2
  <2>1. ~Open BY <1>0 DEF Open, Idle
  <2> QED BY <1>2, <1>3, <2>1, HeadIs, ValueIs, ArgsAre
<1>5. CASE ArgLen(b.c.op) = 0
  <2>1. HeaderDone(b.c.op, 0, b.c) BY <1>3, <1>4, <1>5 DEF FeedOpcode
  <2>2. P.pay_need = 0 BY <1>0 DEF Idle
  <2> QED BY <1>0, <1>1, <1>2, <1>4, <1>5, <2>1, <2>2, HeaderServes
<1>6. CASE ArgLen(b.c.op) # 0
  <2>1. /\ P' = [ParserReset EXCEPT !.op = b.c.op, !.need = ArgLen(b.c.op)]
        /\ UNCHANGED <<stateVars, answer, awaiting>>
    BY <1>3, <1>4, <1>6 DEF FeedOpcode
  <2>2. b.c.op # 0 BY <1>4, <1>6, ArgsAre
  <2>3. P'.op # 0 /\ P'.pay_need = 0 BY <2>1, <2>2 DEF ParserReset
  <2> QED BY <1>0, <1>1, <2>1, <2>3, ArgumentServes
<1> QED BY <1>5, <1>6

LEMMA FeedArgServes ==
  ASSUME IInv, DueInv, FeedArg PROVE DueInv' /\ ServerStep
<1>0. /\ pc = "feed" /\ pc' = "feed" /\ UNCHANGED <<sent, alive>>
      /\ batch # <<>> /\ batch' = Tail(batch) /\ wire' = wire
      /\ P.op # 0 /\ P.pay_need = 0
  BY DEF FeedArg, Feeding, hostVars
<1>1. IInv' /\ TakesByte BY FeedArgKeeps
<1>2. PICK b : b = Rest[1] OBVIOUS
<1>3. Head(batch) = b /\ Rest # <<>> BY <1>0, <1>2, FromBatch
<1>4. b \in ByteOf /\ b.c.op = P.op /\ b.i = 2 + P.got
  <2>1. Open /\ pc # "lk" BY <1>0 DEF Open
  <2>2. b \in ByteOf /\ ParserTakes(b) BY <1>2, <1>3, <2>1, HeadIs
  <2> QED BY <1>0, <2>2 DEF ParserTakes
<1>f. /\ P \in ParserRecord /\ P.need = SentArgs(P.op) /\ P.got < P.need
      /\ P.need \in 0..2 /\ P.got \in 0..2
  BY <1>0 DEF IInv, ParserShape, ParserRecord
<1>5. CASE Complete(P.got + 1, P.need)
  <2>1. HeaderDone(P.op, ValueOf(b), b.c) BY <1>3, <1>5 DEF FeedArg
  <2>2. b.i # 1 /\ b.i <= 1 + SentArgs(b.c.op) /\ SentArgs(b.c.op) # 0
    <3> DEFINE g == P.got
               e == P.need
    <3>1. g \in 0..2 /\ e \in 0..2 /\ g < e /\ e = SentArgs(b.c.op) /\ b.i = 2 + g
      BY <1>f, <1>4
    <3> HIDE DEF g, e
    <3> QED BY <3>1
  <2>3. ValueOf(b) = b.c.n BY <1>4, <2>2, ValueIs
  <2> QED BY <1>0, <1>1, <1>2, <1>4, <2>1, <2>2, <2>3, HeaderServes
<1>6. CASE ~Complete(P.got + 1, P.need)
  <2>1. /\ P' = [P EXCEPT !.got = P.got + 1, !.arg = ValueOf(b)]
        /\ UNCHANGED <<stateVars, answer, awaiting>>
    BY <1>3, <1>6 DEF FeedArg
  <2>2. P'.op # 0 /\ P'.pay_need = 0 BY <1>0, <1>f, <2>1 DEF ParserRecord
  <2> QED BY <1>0, <1>1, <2>1, <2>2, ArgumentServes
<1> QED BY <1>5, <1>6

LEMMA FeedPayloadServes ==
  ASSUME IInv, DueInv, FeedPayload PROVE DueInv' /\ ServerStep
<1>k. PICK k : k = MinOf(P.pay_need - P.pay_got, Len(batch)) OBVIOUS
<1>0. /\ pc = "feed" /\ pc' = "feed" /\ P.pay_need # 0
      /\ UNCHANGED <<sent, alive, stateVars>>
  BY DEF FeedPayload, Feeding, hostVars
<1>1. IInv' /\ TakesRun(k) BY <1>k, FeedPayloadKeeps
<1>2. PICK b \in ByteOf :
        /\ k \in 1..Len(Rest) /\ b = Rest[k] /\ b = batch[k] /\ Ready(b)'
        /\ Rest' \in Seq(ByteOf) /\ Behind(Rest, Rest', k)
        /\ \A m \in 1..k - 1 : ~Ends(Rest[m])
        /\ b.c.op = P.op /\ P.op \in PayloadOps /\ P.pay_need = SentPayload(b.c)
  BY <1>1 DEF TakesRun
<1>3. Rest \in Seq(ByteOf) /\ ~Held /\ ~Held' /\ P \in ParserRecord
  <2>1. RestKnown BY RestIs DEF IInv, StreamInv
  <2> QED BY <1>0, <2>1, ParserLeavesLk DEF RestKnown, IInv, ParserShape, ParserRecord
<1>4. P'.op = 0 <=> Ends(b) BY <1>0, <1>2 DEF Ready, Open, Ends
<1>c. /\ b.c \in Command /\ b.c.n \in Nat /\ P.pay_need = b.c.n
      /\ P.pay_over = (b.c.n > PayloadMax)
      /\ P.op = CMD_BATCH => P.arg = b.c.n
  <2>1. P.pay_need = b.c.n BY <1>2 DEF SentPayload
  <2> QED BY <1>0, <1>2, <2>1, ByteIs DEF DueInv, VerdictsFit
<1>5. CASE Complete(P.pay_got + k, P.pay_need)
  <2>1. PICK v \in PayloadVerdicts : P' = ParserReset /\ Answered(batch[k].c, v, 0)
    BY <1>k, <1>5 DEF FeedPayload
  <2>2. Ends(b) /\ VerdictsFit' BY <1>0, <1>4, <2>1, ResetIs DEF VerdictsFit
  <2>3. PICK c : c = Rest[k].c OBVIOUS
  <2>4. /\ answer' = Answer(c.id, v, 0)
        /\ awaiting' = {e \in awaiting : e.id # c.id}
    BY <1>2, <2>1, <2>3 DEF Answered
  <2>5. /\ DueInv' /\ c \in awaiting /\ awaiting' = awaiting \ {c}
        /\ \A e \in awaiting \ {c} : c.id < e.id
    BY <1>0, <1>2, <1>3, <2>2, <2>3, <2>4, DueTakenWhole
  <2>6. v \in {"ACK", "ERROR"} /\ Server!Legal(c, v)
    <3>1. c = b.c /\ c.op = P.op BY <1>2, <2>3
    <3>n. c.n \in Nat /\ P.pay_over = (c.n > PayloadMax) BY <1>c, <3>1
    <3>v. /\ v \in {"ACK", "ERROR"}
          /\ v = "ERROR" => \/ P.pay_over \/ c.op = CMD_FLASH_PROGRAM
                           \/ c.n > BatchMax
          /\ v = "ACK" => ~P.pay_over
      BY <1>c, <2>1, <3>1 DEF PayloadVerdicts, Verdicts
    <3>l. /\ PayloadMax \in Nat /\ Fits <= PayloadMax /\ PayloadMax <= Most
          /\ BatchMax \in Nat /\ Fits <= BatchMax
          /\ Fits \in Nat /\ Most \in Nat
      BY LimitsAre
    <3>o. P.pay_over => c.n > PayloadMax BY <3>n
    <3>p. ~P.pay_over => ~(c.n > PayloadMax) BY <3>n
    <3>2. v = "ERROR" => c.n > Fits \/ c.op = CMD_FLASH_PROGRAM
      <4>1. c.n > PayloadMax => c.n > Fits BY <3>n, <3>l
      <4>2. c.n > BatchMax => c.n > Fits BY <3>n, <3>l
      <4> QED BY <3>v, <3>o, <4>1, <4>2
    <3>3. v = "ACK" => c.n <= Most
      <4>1. ~(c.n > PayloadMax) => c.n <= Most BY <3>n, <3>l
      <4> QED BY <3>v, <3>p, <4>1
    <3>4. v \in {"ACK", "ERROR"} BY <3>v
    <3> QED BY <1>2, <3>1, <3>2, <3>3, <3>4, LegalIs
  <2>7. c.op \in PayloadOps BY <1>2, <2>3
  <2>8. Server!Serve
    <3>1. c.op \notin ReadOps /\ c.op # CMD_PING /\ c.op # CMD_SET_SIZE /\ c.op # CMD_READ_3D
      BY <2>7, OpsDiffer
    <3>2. UNCHANGED <<transfer_size, page_terminator_due>> BY <1>0 DEF stateVars
    <3> QED BY <1>0, <2>4, <2>5, <2>6, <2>7, <3>1, <3>2, Serves
  <2> QED BY <2>5, <2>8, ServeStep
<1>6. CASE ~Complete(P.pay_got + k, P.pay_need)
  <2>1. /\ P' = [P EXCEPT !.pay_got = P.pay_got + k]
        /\ UNCHANGED <<answer, awaiting>>
    BY <1>k, <1>6 DEF FeedPayload
  <2>2. /\ P'.op = P.op /\ P'.pay_need = P.pay_need /\ P'.pay_over = P.pay_over
        /\ P'.arg = P.arg
    BY <1>3, <2>1 DEF ParserRecord
  <2>3. ~Ends(b)
    <3>1. P.op # 0 BY <1>0 DEF IInv, ParserShape
    <3> QED BY <1>4, <2>2, <3>1
  <2>4. \A m \in 1..k : ~Ends(Rest[m])
    <3>1. \A m \in 1..k : m \in 1..k - 1 \/ m = k BY <1>2
    <3> QED BY <1>2, <2>3, <3>1
  <2>5. VerdictsFit' BY <1>0, <2>2 DEF DueInv, VerdictsFit
  <2>6. DueInv' BY <1>0, <1>2, <1>3, <2>1, <2>4, <2>5, DueTakenOpen
  <2> QED BY <1>0, <2>1, <2>6, QuietStep
<1> QED BY <1>5, <1>6

-----------------------------------------------------------------------------
(* LK's dispatcher takes a command and answers it in a step of its own.     *)

(* A byte is taken on LK's behalf. *)
LEMMA LkTakenServes ==
  ASSUME IInv, DueInv, TakesByte, ~Held, pc' = "lk", P' = P, P.pay_need = 0,
         UNCHANGED <<sent, alive, stateVars, answer, awaiting>>,
         NEW c, c = Rest[1].c, lk'.header = 0 => LkJudges(c)',
         lk'.header \in Nat, lk'.want \in Nat
  PROVE  DueInv' /\ ServerStep
<1>1. PICK b \in ByteOf : /\ b = Rest[1] /\ Ready(b)' /\ Rest # <<>>
                          /\ Rest' \in Seq(ByteOf) /\ Behind(Rest, Rest', 1)
                          /\ b.c.id \in parts' /\ \A x \in parts' : x = b.c.id
  BY DEF TakesByte
<1>2. Rest \in Seq(ByteOf) /\ Framed(Rest)
  <2>1. RestKnown BY RestIs DEF IInv, StreamInv
  <2> QED BY <2>1 DEF RestKnown, IInv, StreamInv
<1>3. Open' <=> lk'.header + lk'.want > 0 BY DEF Open
<1>4. CASE Ends(b)
  <2>1. ~Open' BY <1>1, <1>4 DEF Ready, Ends
  <2>2. lk'.header = 0 /\ lk'.want = 0 BY <1>3, <2>1
  <2>3. Held' BY <2>2 DEF Held
  <2>4. VerdictsFit' BY <2>2 DEF VerdictsFit
  <2>5. parts' = {c.id} BY <1>1
  <2>6. DueInv' BY <1>1, <1>2, <1>4, <2>2, <2>3, <2>4, <2>5, DueTakenByLk
  <2> QED BY <2>6, QuietStep
<1>5. CASE ~Ends(b)
  <2>1. Open' BY <1>1, <1>5 DEF Ready, Ends
  <2>2. ~Held' BY <1>3, <2>1 DEF Held
  <2>3. Rest' # <<>> => (Rest')[1].c = c
    <3> SUFFICES ASSUME NEW t, t = Rest', t # <<>> PROVE t[1].c = c
      OBVIOUS
    <3>1. t \in Seq(ByteOf) /\ Behind(Rest, t, 1) /\ Rest \in Seq(ByteOf)
      BY <1>1, <1>2
    <3>2. 1 \in 1..Len(t) /\ 1 \in 1..Len(Rest) /\ 1 + 1 \in 1..Len(Rest)
          /\ t[1] = Rest[1 + 1]
      BY <3>1 DEF Behind
    <3>3. Rest[1 + 1] = Byte(Rest[1].c, Rest[1].i + 1)
      BY <1>1, <1>2, <1>5, <3>2, NextByte DEF Ends
    <3> QED BY <3>2, <3>3 DEF Byte
  <2>4. VerdictsFit'
    <3>1. lk'.header = 0 /\ Rest' # <<>> => LkJudges(Rest[1].c)'
      BY <2>3 DEF LkJudges
    <3> QED BY <3>1 DEF VerdictsFit
  <2>5. \A m \in 1..1 : ~Ends(Rest[m]) BY <1>1, <1>5
  <2>6. DueInv' BY <1>1, <1>2, <2>2, <2>4, <2>5, DueTakenOpen
  <2> QED BY <2>6, QuietStep
<1> QED BY <1>4, <1>5

LEMMA LkStartServes ==
  ASSUME IInv, DueInv, LkStart PROVE DueInv' /\ ServerStep
<1>0. /\ pc = "feed" /\ pc' = "lk" /\ batch # <<>> /\ Idle /\ P' = P
      /\ batch' = Tail(batch) /\ wire' = wire /\ P.pay_need = 0
      /\ UNCHANGED <<sent, alive, stateVars, answer, awaiting>>
  BY DEF LkStart, Feeding, parserVars, hostVars, Idle
<1>1. IInv' /\ TakesByte BY LkStartKeeps
<1>2. PICK b : b = Rest[1] OBVIOUS
<1>3. Head(batch) = b /\ Rest # <<>> BY <1>0, <1>2, FromBatch
<1>4. /\ b \in ByteOf /\ b.i = 1 /\ ValueOf(b) = b.c.op
      /\ b.c.op \in SizedOps => b.c.n = transfer_size
  <2>1. ~Open BY <1>0 DEF Open, Idle
  <2> QED BY <1>2, <1>3, <2>1, HeadIs, ValueIs
<1>5. PICK c : c = b.c OBVIOUS
<1>6. /\ c.op = CMD_SAVE_WRITE \/ c.op = CMD_BATCH
      /\ lk' = IF c.op = CMD_BATCH THEN [NoLk EXCEPT !.header = 2]
               ELSE Admit(transfer_size, LkPayloadMax)
  BY <1>3, <1>4, <1>5 DEF LkStart, Routed
<1>7. lk'.header = 0 => LkJudges(c)'
  <2>1. CASE c.op = CMD_BATCH BY <1>6, <2>1 DEF NoLk
  <2>2. CASE c.op # CMD_BATCH
    <3>1. c.op \in SizedOps /\ c.op \in PayloadOps
      BY <1>6, <2>2 DEF SizedOps, PayloadOps
    <3>2. lk'.refused = (c.n > LkPayloadMax) BY <1>4, <1>5, <1>6, <2>2, <3>1 DEF Admit
    <3> QED BY <2>2, <3>1, <3>2 DEF LkJudges
  <2> QED BY <2>1, <2>2
<1>8. lk'.header \in Nat /\ lk'.want \in Nat BY <1>1 DEF IInv, LkShape
<1>9. ~Held BY <1>0 DEF Held
<1>10. c = Rest[1].c BY <1>2, <1>5
<1> QED BY <1>0, <1>1, <1>7, <1>8, <1>9, <1>10, LkTakenServes

LEMMA LkReceiveServes ==
  ASSUME IInv, DueInv, LkReceive PROVE DueInv' /\ ServerStep
<1>0. /\ pc = "lk" /\ pc' = "lk" /\ P' = P /\ lk.header + lk.want > 0 /\ Rest # <<>>
      /\ UNCHANGED <<sent, alive, stateVars, answer, awaiting>>
  BY DEF LkReceive, LkWants, parserVars, Rest
<1>1. IInv' /\ TakesByte BY LkReceiveKeeps
<1>2. PICK b : b = Rest[1] OBVIOUS
<1>f. /\ lk.header \in 0..2 /\ lk.want \in Nat /\ (lk.header > 0 => lk.want = 0)
      /\ lk \in [header : 0..2, want : Nat, refused : BOOLEAN]
      /\ Open /\ P.pay_need = 0
  BY <1>0, LkFacts DEF Idle
<1>3. Head(batch \o wire) = b
  <2>1. RestKnown BY RestIs DEF IInv, StreamInv
  <2> QED BY <1>0, <1>2, <2>1, TailIs DEF RestKnown, Rest
<1>4. b \in ByteOf /\ LkTakes(b) BY <1>0, <1>2, <1>f, HeadIs
<1>5. PICK c : c = b.c OBVIOUS
<1>6. lk' = CASE lk.header = 2 -> [lk EXCEPT !.header = 1]
              [] lk.header = 1 -> Admit(ValueOf(b), BatchMax)
              [] OTHER -> [lk EXCEPT !.want = lk.want - 1]
  BY <1>3 DEF LkReceive
<1>7. lk'.header = 0 => LkJudges(c)'
  <2>1. CASE lk.header = 2
    <3>1. lk'.header = 1 BY <1>6, <1>f, <2>1
    <3> QED BY <3>1
  <2>2. CASE lk.header = 1
    <3>1. c.op = CMD_BATCH /\ b.i + 1 = 4 BY <1>4, <1>5, <2>2 DEF LkTakes
    <3>2. b.i \in Nat /\ b.i # 1 /\ b.i <= 1 + SentArgs(c.op)
      <4>1. b.i \in Nat BY <1>4, ByteIs
      <4>2. SentArgs(c.op) = 2 BY <3>1, ArgsAre
      <4> QED BY <3>1, <4>1, <4>2
    <3>3. ValueOf(b) = c.n BY <1>4, <1>5, <3>2, ValueIs
    <3>4. lk'.refused = (c.n > BatchMax) BY <1>6, <2>2, <3>3 DEF Admit
    <3>5. c.op \in PayloadOps BY <3>1 DEF PayloadOps
    <3> QED BY <3>1, <3>4, <3>5 DEF LkJudges
  <2>3. CASE lk.header = 0
    <3>1. LkJudges(c)
      BY <1>0, <1>2, <1>5, <1>f, <2>3 DEF DueInv, VerdictsFit
    <3>2. lk'.refused = lk.refused
      <4>1. lk' = [lk EXCEPT !.want = lk.want - 1] BY <1>6, <2>3
      <4> QED BY <1>f, <4>1
    <3> QED BY <3>1, <3>2 DEF LkJudges
  <2> QED BY <1>f, <2>1, <2>2, <2>3
<1>8. lk'.header \in Nat /\ lk'.want \in Nat BY <1>1 DEF IInv, LkShape
<1>9. ~Held BY <1>0, <1>f DEF Held
<1>10. c = Rest[1].c BY <1>2, <1>5
<1> QED BY <1>0, <1>1, <1>7, <1>8, <1>9, <1>10, <1>f, LkTakenServes

LEMMA LkDoneServes ==
  ASSUME IInv, DueInv, LkDone PROVE DueInv' /\ ServerStep
<1>0. /\ pc = "lk" /\ pc' = "feed" /\ P' = P /\ lk.header + lk.want = 0
      /\ UNCHANGED <<sent, alive, transfer_size, page_terminator_due, batch, wire>>
  BY DEF LkDone, parserVars, stateVars, hostVars
<1>1. Held /\ ~Held' BY <1>0 DEF Held
<1>2. Rest' = Rest BY <1>0 DEF Rest
<1>3. PICK c \in awaiting : /\ parts = {c.id} /\ LkJudges(c)
                            /\ \A k \in 1..Len(Rest) : c.id < Rest[k].c.id
  BY <1>1 DEF DueInv, HeldIsOldest
<1>4. /\ answer' = Answer(c.id, IF lk.refused THEN "ERROR" ELSE "ACK", 0)
      /\ awaiting' = {e \in awaiting : e.id # c.id}
  <2>1. PICK id \in parts :
          Answered([id |-> id], IF lk.refused THEN "ERROR" ELSE "ACK", 0)
    BY DEF LkDone
  <2>2. id = c.id BY <1>3
  <2> QED BY <2>1, <2>2 DEF Answered
<1>5. awaiting' = awaiting \ {c} BY <1>3, <1>4 DEF DueInv
<1>s. Rest \in Seq(ByteOf)
  <2>1. RestKnown BY RestIs DEF IInv, StreamInv
  <2> QED BY <2>1 DEF RestKnown
<1>6. \A e \in awaiting \ {c} : Arrived(e, Rest) /\ c.id < e.id
  <2> SUFFICES ASSUME NEW e \in awaiting \ {c} PROVE Arrived(e, Rest) /\ c.id < e.id
    OBVIOUS
  <2>1. Arrived(e, Rest)
    <3>1. e.id # c.id BY <1>3 DEF DueInv
    <3> QED BY <1>3, <3>1 DEF DueInv, AwaitedAreDue
  <2>2. PICK k \in 1..Len(Rest) : Rest[k].c = e BY <1>s, <2>1, ArrivedIs
  <2> QED BY <1>3, <2>1, <2>2
<1>7. DueInv'
  <2> SUFFICES ASSUME NEW t, t = Rest' PROVE DueInv'
    OBVIOUS
  <2>1. \A k \in 1..Len(t) : t[k].c.id <= sent' /\ (Ends(t[k]) => t[k].c \in awaiting')
    <3> SUFFICES ASSUME NEW k \in 1..Len(t)
                 PROVE  t[k].c.id <= sent' /\ (Ends(t[k]) => t[k].c \in awaiting')
      OBVIOUS
    <3>1. t[k] = Rest[k] /\ k \in 1..Len(Rest) BY <1>2
    <3>2. c.id < t[k].c.id BY <1>3, <3>1
    <3>3. t[k].c # c
      <4>1. c.id \in Nat BY <1>3 DEF DueInv, Command
      <4> QED BY <3>2, <4>1
    <3> QED BY <1>0, <1>5, <3>1, <3>3 DEF DueInv, DueAreAwaited, Ends
  <2>2. VerdictsFit' BY <1>0 DEF VerdictsFit, DueInv
  <2>3. \A e \in awaiting' : e.id <= sent' /\ Arrived(e, t)
    BY <1>0, <1>2, <1>5, <1>6 DEF DueInv, AwaitedAreDue
  <2>4. /\ awaiting' \subseteq Command
        /\ \A f, e \in awaiting' : f.id = e.id => f = e
        /\ Ordered(t)
    BY <1>2, <1>5 DEF DueInv
  <2> QED BY <1>1, <2>1, <2>2, <2>3, <2>4, DueAfter
<1>8. Server!Serve
  <2> DEFINE v == IF lk.refused THEN "ERROR" ELSE "ACK"
  <2>1. c.n \in Nat /\ c.op \in PayloadOps BY <1>3 DEF DueInv, Command, LkJudges
  <2>2. v \in {"ERROR", "ACK"} /\ Server!Legal(c, v)
    <3>1. v = "ERROR" => c.n > Fits BY <1>3, <2>1, LimitsAre DEF LkJudges
    <3>2. v = "ACK" => c.n <= Most BY <1>3, <2>1, LimitsAre DEF LkJudges
    <3>3. v \in {"ERROR", "ACK"} OBVIOUS
    <3> HIDE DEF v
    <3> QED BY <2>1, <3>1, <3>2, <3>3, LegalIs
  <2>3. answer' = Answer(c.id, v, 0) BY <1>4
  <2> HIDE DEF v
  <2>4. c.op \notin ReadOps /\ c.op # CMD_PING /\ c.op # CMD_SET_SIZE /\ c.op # CMD_READ_3D
    BY <2>1, OpsDiffer
  <2> QED BY <1>0, <1>5, <1>6, <2>1, <2>2, <2>3, <2>4, Serves
<1> QED BY <1>7, <1>8, ServeStep

-----------------------------------------------------------------------------
(* The host and the link. *)

(* Nobody is there any more when the dispatcher gives up. *)
LEMMA LkGiveUpServes ==
  ASSUME IInv, DueInv, LkGiveUp PROVE DueInv' /\ ServerStep
<1>0. /\ pc = "lk" /\ pc' = "feed" /\ lk.header + lk.want > 0 /\ P' = P
      /\ answer' = Answer(0, "ERROR", 0) /\ Rest = <<>> /\ Rest' = <<>>
      /\ UNCHANGED <<alive, sent, stateVars, awaiting>>
  BY DEF LkGiveUp, LkWants, parserVars, hostVars, Rest
<1>1. Open /\ P.pay_need = 0 BY <1>0, LkFacts DEF Idle
<1>2. alive = FALSE BY <1>0, <1>1 DEF IInv, TypeOK, StreamInv, SentWhole
<1>3. ~Held /\ ~Held'
  <2>1. lk.header \in Nat /\ lk.want \in Nat BY <1>0, LkFacts
  <2> QED BY <1>0, <2>1 DEF Held
<1>4. awaiting = {}
  <2> SUFFICES ASSUME NEW c \in awaiting PROVE FALSE
    OBVIOUS
  <2>1. Arrived(c, Rest) BY <1>3 DEF DueInv, AwaitedAreDue
  <2>2. Len(Rest) = 0 BY <1>0
  <2> QED BY <2>1, <2>2 DEF Arrived
<1>5. DueInv'
  <2>1. PICK t : t = Rest' OBVIOUS
  <2>2. Len(t) = 0 BY <1>0, <2>1
  <2>3. Ordered(t) BY <2>2 DEF Ordered
  <2>4. VerdictsFit' BY <1>0, <1>1 DEF VerdictsFit
  <2> QED BY <1>0, <1>3, <1>4, <2>1, <2>2, <2>3, <2>4, DueAfter
<1>6. Server!StrayError
  <2>1. Server!Answer(0, "ERROR", 0) = Answer(0, "ERROR", 0) BY DEF Server!Answer, Answer
  <2> QED BY <1>0, <1>2, <2>1 DEF Server!StrayError, stateVars
<1> QED BY <1>5, <1>6 DEF ServerStep, Server!Next

LEMMA IssueServes ==
  ASSUME IInv, DueInv, Issue PROVE DueInv' /\ ServerStep
<1>0. /\ alive /\ sent' = sent + 1 /\ sent \in Nat
      /\ UNCHANGED <<P, stateVars, pc, batch, lk, answer, parts, alive>>
  BY DEF Issue, parserVars, loopVars, IInv, HostDataOK
<1>x. PICK x \in Choices :
        LET c == [id |-> sent + 1, op |-> x.op, n |-> x.n] IN
          /\ wire' = wire \o [i \in 1..SentLength(c) |-> Byte(c, i)]
          /\ awaiting' = awaiting \cup {c}
          /\ host_size' = IF c.op = CMD_SET_SIZE THEN c.n ELSE host_size
  BY DEF Issue
<1> SUFFICES ASSUME NEW c, c = [id |-> sent + 1, op |-> x.op, n |-> x.n],
                    NEW w, w = [i \in 1..SentLength(c) |-> Byte(c, i)],
                    NEW s, s = Rest, NEW t, t = Rest'
             PROVE  DueInv' /\ ServerStep
  OBVIOUS
<1>y. wire' = wire \o w /\ awaiting' = awaiting \cup {c} /\ c.id = sent + 1
  BY <1>x
<1>c. c \in Command BY ChoicesAre DEF IInv
<1>w. /\ SentLength(c) \in Nat /\ SentLength(c) >= 1
      /\ w \in Seq(ByteOf) /\ Len(w) = SentLength(c)
      /\ \A k \in 1..SentLength(c) : w[k].c = c /\ w[k].i = k
  BY <1>c, SentBytesAre
<1>t. batch \in Seq(ByteOf) /\ wire \in Seq(ByteOf) BY DEF IInv, StreamInv
<1>1. t = s \o w
  <2>1. batch' \o wire' = batch \o (wire \o w) BY <1>0, <1>y
  <2>2. batch \o (wire \o w) = (batch \o wire) \o w BY <1>t, <1>w
  <2> QED BY <2>1, <2>2 DEF Rest
<1>2. s \in Seq(ByteOf) /\ Len(s) \in Nat /\ (s # <<>> <=> Len(s) > 0)
  BY <1>t, RestIs DEF RestKnown
<1>3. /\ t \in Seq(ByteOf) /\ Len(t) = Len(s) + Len(w)
      /\ \A k \in 1..Len(s) : t[k] = s[k]
      /\ \A k \in 1..Len(w) : t[Len(s) + k] = w[k]
  BY <1>w, <1>1, <1>2, JoinedIs
<1>4. Extends(s, t, c) BY <1>w, <1>3 DEF Extends
<1>d. /\ awaiting \subseteq Command /\ \A f, e \in awaiting : f.id = e.id => f = e
      /\ Ordered(s)
      /\ \A e \in awaiting : e.id <= sent /\ (Arrived(e, s) \/ (Held /\ e.id \in parts))
      /\ \A k \in 1..Len(s) : s[k].c.id <= sent /\ (Ends(s[k]) => s[k].c \in awaiting)
      /\ Held => \E e \in awaiting : /\ parts = {e.id} /\ LkJudges(e)
                                     /\ \A k \in 1..Len(s) : e.id < s[k].c.id
  BY DEF DueInv, AwaitedAreDue, DueAreAwaited, HeldIsOldest, Ends
<1>i. /\ \A e \in awaiting : e.id \in Nat /\ e.id < c.id
      /\ \A k \in 1..Len(s) : s[k].c.id \in Nat /\ s[k].c.id < c.id
  <2>1. \A e \in Command : e.id \in Nat BY DEF Command
  <2>2. \A k \in 1..Len(s) : s[k].c \in Command
    <3>1. \A k \in 1..Len(s) : s[k] \in ByteOf BY <1>2
    <3> QED BY <3>1, ByteIs
  <2> QED BY <1>0, <1>y, <1>d, <2>1, <2>2
<1>5. Ordered(t) BY <1>2, <1>3, <1>4, <1>w, <1>d, <1>i, OrderedWith
<1>6. Held' <=> Held BY <1>0 DEF Held
<1>7. \A k \in 1..Len(t) :
        \/ k \in 1..Len(s) /\ t[k] = s[k]
        \/ t[k].c = c
  <2> SUFFICES ASSUME NEW k \in 1..Len(t), k \notin 1..Len(s) PROVE t[k].c = c
    BY <1>3
  <2>1. PICK m : m = k - Len(s) OBVIOUS
  <2>2. m \in 1..SentLength(c) /\ Len(s) + m = k BY <2>1, <1>2, <1>3, <1>w
  <2>3. t[Len(s) + m].c = c BY <2>2, <1>4 DEF Extends
  <2> QED BY <2>2, <2>3
<1>8. \A e \in awaiting' :
        e.id <= sent' /\ (Arrived(e, t) \/ (Held' /\ e.id \in parts'))
  <2>1. ASSUME NEW e \in awaiting
        PROVE  e.id <= sent' /\ (Arrived(e, t) \/ (Held' /\ e.id \in parts'))
    <3>1. e.id <= sent' BY <1>0, <1>d, <1>i
    <3>2. Arrived(e, s) => Arrived(e, t)
      <4> SUFFICES ASSUME Arrived(e, s) PROVE Arrived(e, t)
        OBVIOUS
      <4>1. PICK k \in 1..Len(s) : s[k] = Byte(e, SentLength(e)) BY DEF Arrived
      <4>2. k \in 1..Len(t) /\ t[k] = s[k] BY <1>2, <1>3, <1>w
      <4> QED BY <4>1, <4>2 DEF Arrived
    <3> QED BY <1>0, <1>6, <1>d, <3>1, <3>2
  <2>2. c.id <= sent' BY <1>0, <1>y
  <2>3. Arrived(c, t)
    <3>1. PICK k : k = Len(s) + SentLength(c) OBVIOUS
    <3>2. k \in 1..Len(t) /\ SentLength(c) \in 1..SentLength(c) BY <3>1, <1>2, <1>3, <1>w
    <3>3. t[k].c = c /\ t[k].i = SentLength(c) BY <3>1, <3>2, <1>4 DEF Extends
    <3>4. Ends(t[k]) BY <3>3 DEF Ends
    <3> QED BY <1>3, <3>2, <3>3, <3>4, ArrivedIs
  <2> QED BY <1>y, <2>1, <2>2, <2>3
<1>9. \A k \in 1..Len(t) : t[k].c.id <= sent' /\ (Ends(t[k]) => t[k].c \in awaiting')
  BY <1>0, <1>7, <1>d, <1>i, <1>y
<1>10. Held' => \E e \in awaiting' : /\ parts' = {e.id} /\ LkJudges(e)'
                                     /\ \A k \in 1..Len(t) : e.id < t[k].c.id
  <2> SUFFICES ASSUME Held
               PROVE  \E e \in awaiting' : /\ parts' = {e.id} /\ LkJudges(e)'
                                           /\ \A k \in 1..Len(t) : e.id < t[k].c.id
    BY <1>6
  <2>1. PICK e \in awaiting : /\ parts = {e.id} /\ LkJudges(e)
                              /\ \A k \in 1..Len(s) : e.id < s[k].c.id
    BY <1>d
  <2>2. LkJudges(e)' BY <1>0, <2>1 DEF LkJudges
  <2>3. \A k \in 1..Len(t) : e.id < t[k].c.id BY <1>7, <1>i, <2>1
  <2>4. parts' = {e.id} /\ e \in awaiting' BY <1>0, <1>y, <2>1
  <2> QED BY <2>2, <2>3, <2>4
<1>11. VerdictsFit'
  <2>1. CASE s = <<>>
    <3>1. ~Open BY <1>0, <2>1 DEF IInv, StreamInv, SentWhole
    <3>2. pc = "lk" => lk.header \in Nat /\ lk.want \in Nat /\ ~(lk.header + lk.want > 0)
      <4>1. pc = "lk" => ~(lk.header + lk.want > 0) BY <3>1 DEF Open
      <4> QED BY <4>1 DEF IInv, LkShape
    <3>3. pc = "lk" => ~(lk.want > 0) BY <3>2
    <3> QED BY <1>0, <3>3 DEF VerdictsFit, DueInv
  <2>2. CASE s # <<>>
    <3>1. 1 \in 1..Len(s) BY <1>2, <2>2
    <3>2. (Rest')[1] = Rest[1] BY <1>3, <3>1
    <3> QED BY <1>0, <2>2, <3>2 DEF VerdictsFit, DueInv, LkJudges
  <2> QED BY <2>1, <2>2
<1>12. /\ awaiting' \subseteq Command
       /\ \A f, e \in awaiting' : f.id = e.id => f = e
  BY <1>c, <1>d, <1>i, <1>y
<1>13. DueInv' BY <1>5, <1>8, <1>9, <1>10, <1>11, <1>12, DueAfter
<1>14. Server!Issue
  <2>1. c \in awaiting' /\ \A e \in awaiting : e.id < c.id BY <1>i, <1>y
  <2> QED BY <1>0, <1>y, <2>1 DEF Server!Issue, stateVars
<1> QED BY <1>13, <1>14 DEF ServerStep, Server!Next

(* The rest of what was on its way is lost, and with it the commands whose  *)
(* last bytes were: those are later than any that stay.                     *)
LEMMA DueCut ==
  ASSUME IInv, DueInv, UNCHANGED <<P, lk, parts, pc, batch, stateVars, answer, sent>>,
         NEW d \in 0..Len(wire), wire' = SubSeq(wire, 1, d),
         awaiting' = StillDue(batch \o wire'), alive' = FALSE
  PROVE  DueInv' /\ ServerStep
<1> SUFFICES ASSUME NEW s, s = Rest, NEW t, t = Rest' PROVE DueInv' /\ ServerStep
  OBVIOUS
<1>1. batch \in Seq(ByteOf) /\ wire \in Seq(ByteOf) BY DEF IInv, StreamInv
<1>2. wire' \in Seq(ByteOf) /\ Len(wire') = d /\ \A k \in 1..d : wire'[k] = wire[k]
  BY <1>1, PrefixIs
<1>3. /\ s \in Seq(ByteOf) /\ Len(s) = Len(batch) + Len(wire)
      /\ \A k \in 1..Len(batch) : s[k] = batch[k]
      /\ \A k \in 1..Len(wire) : s[Len(batch) + k] = wire[k]
  BY <1>1, JoinedIs DEF Rest
<1>4. t = batch \o wire' BY DEF Rest
<1>5. /\ t \in Seq(ByteOf) /\ Len(t) = Len(batch) + d
      /\ \A k \in 1..Len(batch) : t[k] = batch[k]
      /\ \A k \in 1..d : t[Len(batch) + k] = wire'[k]
  BY <1>1, <1>2, <1>4, JoinedIs
<1>6. Len(t) <= Len(s) /\ \A k \in 1..Len(t) : k \in 1..Len(s) /\ t[k] = s[k]
  <2>1. Len(batch) \in Nat /\ Len(wire) \in Nat /\ d \in Nat /\ d <= Len(wire)
    BY <1>1
  <2>2. ASSUME NEW k \in 1..Len(t) PROVE k \in 1..Len(s) /\ t[k] = s[k]
    <3>0. k \in 1..Len(s) BY <1>3, <1>5, <2>1
    <3>1. CASE k <= Len(batch)
      <4>1. k \in 1..Len(batch) BY <3>1
      <4> QED BY <3>0, <4>1, <1>3, <1>5
    <3>2. CASE k > Len(batch)
      <4>0. PICK m : m = k - Len(batch) OBVIOUS
      <4>1. m \in 1..d /\ m \in 1..Len(wire) /\ Len(batch) + m = k
        BY <3>2, <4>0, <2>1, <1>5
      <4>2. t[Len(batch) + m] = wire'[m] /\ s[Len(batch) + m] = wire[m]
        BY <4>1, <1>3, <1>5
      <4> QED BY <3>0, <4>1, <4>2, <1>2
    <3>3. k <= Len(batch) \/ k > Len(batch) BY <2>1
    <3> QED BY <3>1, <3>2, <3>3
  <2> QED BY <2>1, <2>2, <1>3, <1>5
<1>d. /\ awaiting \subseteq Command /\ \A f, e \in awaiting : f.id = e.id => f = e
      /\ Ordered(s)
      /\ \A e \in awaiting : e.id <= sent /\ (Arrived(e, s) \/ (Held /\ e.id \in parts))
      /\ \A k \in 1..Len(s) : s[k].c.id <= sent /\ (Ends(s[k]) => s[k].c \in awaiting)
      /\ Held => \E e \in awaiting : /\ parts = {e.id} /\ LkJudges(e)
                                     /\ \A k \in 1..Len(s) : e.id < s[k].c.id
  BY DEF DueInv, AwaitedAreDue, DueAreAwaited, HeldIsOldest, Ends
<1>7. awaiting' = {e \in awaiting : Arrived(e, t) \/ (Held /\ e.id \in parts)}
  BY <1>4 DEF StillDue, Held
<1>8. Held' <=> Held BY DEF Held
<1>9. Ordered(t) BY <1>3, <1>5, <1>6, <1>d, OrderedBefore
<1>10. \A k \in 1..Len(t) : t[k].c.id <= sent /\ (Ends(t[k]) => t[k].c \in awaiting')
  <2> SUFFICES ASSUME NEW k \in 1..Len(t)
               PROVE  t[k].c.id <= sent /\ (Ends(t[k]) => t[k].c \in awaiting')
    OBVIOUS
  <2>1. t[k].c.id <= sent /\ (Ends(t[k]) => t[k].c \in awaiting)
    BY <1>6, <1>d
  <2>2. PICK e : e = t[k].c OBVIOUS
  <2>3. Ends(t[k]) => Arrived(e, t) BY <1>5, <2>2, ArrivedIs
  <2> QED BY <1>7, <2>1, <2>2, <2>3
<1>11. Held => \E e \in awaiting' : /\ parts = {e.id} /\ LkJudges(e)
                                    /\ \A k \in 1..Len(t) : e.id < t[k].c.id
  <2> SUFFICES ASSUME Held
               PROVE  \E e \in awaiting' : /\ parts = {e.id} /\ LkJudges(e)
                                           /\ \A k \in 1..Len(t) : e.id < t[k].c.id
    OBVIOUS
  <2>1. PICK e \in awaiting : /\ parts = {e.id} /\ LkJudges(e)
                              /\ \A k \in 1..Len(s) : e.id < s[k].c.id
    BY <1>d
  <2> QED BY <1>6, <1>7, <2>1
<1>12. VerdictsFit'
  <2>1. t # <<>> => s # <<>> /\ t[1] = s[1]
    <3> SUFFICES ASSUME t # <<>> PROVE s # <<>> /\ t[1] = s[1]
      OBVIOUS
    <3>1. 1 \in 1..Len(t) BY <1>5
    <3>2. 1 \in 1..Len(s) /\ t[1] = s[1] BY <3>1, <1>6
    <3> QED BY <3>2, <1>3
  <2>2. VerdictsFit BY DEF DueInv
  <2>3. Rest' # <<>> => Rest # <<>> /\ (Rest')[1] = Rest[1] BY <2>1
  <2> QED BY <2>2, <2>3 DEF VerdictsFit, LkJudges
<1>13. awaiting' \subseteq awaiting BY <1>7
<1>14. DueInv'
  <2>1. /\ awaiting' \subseteq Command
        /\ \A f, e \in awaiting' : f.id = e.id => f = e
    BY <1>d, <1>13
  <2>2. \A e \in awaiting' :
          e.id <= sent' /\ (Arrived(e, t) \/ (Held' /\ e.id \in parts'))
    BY <1>7, <1>8, <1>d
  <2>3. Held' => \E e \in awaiting' : /\ parts' = {e.id} /\ LkJudges(e)'
                                      /\ \A k \in 1..Len(t) : e.id < t[k].c.id
    BY <1>8, <1>11 DEF LkJudges
  <2> QED BY <1>9, <1>10, <1>12, <2>1, <2>2, <2>3, DueAfter
<1>15. \A c \in awaiting', e \in awaiting \ awaiting' : c.id < e.id
  <2> SUFFICES ASSUME NEW c \in awaiting', NEW e \in awaiting \ awaiting'
               PROVE  c.id < e.id
    OBVIOUS
  <2>1. Arrived(e, s) /\ ~Arrived(e, t) BY <1>7, <1>d
  <2>2. PICK m \in 1..Len(s) : s[m].c = e /\ Ends(s[m]) BY <2>1, <1>3, ArrivedIs
  <2>3. m > Len(t)
    <3>1. m \in 1..Len(t) => t[m] = s[m] BY <1>6
    <3>2. m \notin 1..Len(t) BY <2>1, <2>2, <3>1, <1>5, ArrivedIs
    <3> QED BY <3>2, <1>3, <1>5
  <2>4. CASE Arrived(c, t)
    <3>1. PICK k \in 1..Len(t) : t[k].c = c /\ Ends(t[k]) BY <2>4, <1>5, ArrivedIs
    <3>2. k \in 1..Len(s) /\ s[k].c = c /\ Ends(s[k]) /\ k < m
      BY <3>1, <2>3, <1>5, <1>6
    <3> QED BY <2>2, <3>2, <1>3, <1>d, LaterCommands
  <2>5. CASE Held /\ c.id \in parts
    BY <2>2, <2>5, <1>d
  <2> QED BY <2>4, <2>5, <1>7
<1>16. Server!HostLeaves
  BY <1>13, <1>15 DEF Server!HostLeaves, stateVars
<1> QED BY <1>14, <1>16 DEF ServerStep, Server!Next

LEMMA HostDiesServes ==
  ASSUME IInv, DueInv, HostDies PROVE DueInv' /\ ServerStep
<1>1. /\ alive' = FALSE
      /\ UNCHANGED <<P, lk, parts, pc, batch, stateVars, answer, sent>>
  BY DEF HostDies, parserVars, loopVars
<1>2. PICK d \in 0..Len(wire) : /\ wire' = SubSeq(wire, 1, d)
                                /\ awaiting' = StillDue(batch \o wire')
  BY DEF HostDies
<1> QED BY <1>1, <1>2, DueCut

LEMMA LinkResetServes ==
  ASSUME IInv, DueInv, LinkReset PROVE DueInv' /\ ServerStep
<1>1. /\ alive' = FALSE /\ wire' = <<>> /\ awaiting' = StillDue(batch)
      /\ UNCHANGED <<P, lk, parts, pc, batch, stateVars, answer, sent>>
  BY DEF LinkReset, parserVars, loopVars
<1>2. batch \in Seq(ByteOf) /\ wire \in Seq(ByteOf) BY DEF IInv, StreamInv
<1>3. 0 \in 0..Len(wire) /\ wire' = SubSeq(wire, 1, 0) BY <1>1, <1>2
<1>4. batch \o wire' = batch BY <1>1, <1>2, EmptyJoins
<1>5. awaiting' = StillDue(batch \o wire') BY <1>1, <1>4
<1> QED BY <1>1, <1>3, <1>5, DueCut

(* A new session finds nothing awaited. *)
LEMMA ReopenServes ==
  ASSUME QuickReset = FALSE, IInv, DueInv, Reopen PROVE DueInv' /\ ServerStep
<1>0. /\ alive' = TRUE /\ wire' = <<>> /\ awaiting' = StillDue(batch)
      /\ UNCHANGED <<P, lk, parts, pc, batch, stateVars, answer, sent>>
  BY DEF Reopen, parserVars, loopVars
<1>1. Empty
  <2>1. away = "noticed" \/ ~was_configured BY DEF Reopen, SessionMayOpen
  <2> QED BY <2>1 DEF IInv, SessionInv
<1>2. pc # "lk" /\ batch = <<>> /\ wire = <<>>
  BY <1>1 DEF Empty, IInv, SessionInv
<1>3. Rest = <<>> /\ Rest' = Rest BY <1>0, <1>2 DEF Rest
<1>4. awaiting = {}
  <2> SUFFICES ASSUME NEW c \in awaiting PROVE FALSE
    OBVIOUS
  <2>1. Arrived(c, Rest) BY <1>2 DEF DueInv, AwaitedAreDue, Held
  <2>2. Len(Rest) = 0 BY <1>3
  <2> QED BY <2>1, <2>2 DEF Arrived
<1>5. awaiting' = awaiting BY <1>0, <1>4 DEF StillDue
<1>6. DueInv' BY <1>0, <1>3, <1>5, DueStays
<1>7. Server!HostReturns BY <1>0, <1>5 DEF Server!HostReturns, stateVars
<1> QED BY <1>6, <1>7 DEF ServerStep, Server!Next

LEMMA DueAtStart ==
  Init => DueInv /\ Server!Init
<1> SUFFICES ASSUME Init PROVE DueInv /\ Server!Init
  OBVIOUS
<1>1. /\ P = ParserReset /\ pc = "top" /\ batch = <<>> /\ wire = <<>>
      /\ awaiting = {} /\ answer = Answer(0, "NONE", 0) /\ alive = TRUE
      /\ transfer_size \in Sizes /\ page_terminator_due \in BOOLEAN
  BY DEF Init
<1>2. Len(Rest) = 0
  <2>1. Rest = <<>> BY <1>1 DEF Rest
  <2> QED BY <2>1
<1>3. DueInv
  <2>1. ~Held BY <1>1 DEF Held
  <2>2. VerdictsFit BY <1>1, ResetIs DEF VerdictsFit
  <2>3. Ordered(Rest) BY <1>2 DEF Ordered
  <2> QED BY <1>1, <1>2, <2>1, <2>2, <2>3
          DEF DueInv, AwaitedAreDue, DueAreAwaited, HeldIsOldest
<1>4. Server!Answer(0, "NONE", 0) = Answer(0, "NONE", 0) BY DEF Server!Answer, Answer
<1> QED BY <1>1, <1>3, <1>4 DEF Server!Init

LEMMA StepServes ==
  ASSUME QuickReset = FALSE
  PROVE  IInv /\ DueInv /\ [Next]_vars => DueInv' /\ ServerStep
<1> SUFFICES ASSUME IInv, DueInv, [Next]_vars PROVE DueInv' /\ ServerStep
  OBVIOUS
<1>1. CASE Top BY <1>1, TopServes
<1>2. CASE Receive BY <1>2, TakeBatchServes DEF Receive
<1>3. CASE ReceiveNothing BY <1>3, IdleServes
<1>4. CASE WaitReceive BY <1>4, TakeBatchServes DEF WaitReceive
<1>5. CASE WaitGiveUp BY <1>5, IdleServes
<1>6. CASE BatchDone BY <1>6, IdleServes
<1>7. CASE FeedOpcode BY <1>7, FeedOpcodeServes
<1>8. CASE FeedArg BY <1>8, FeedArgServes
<1>9. CASE FeedPayload BY <1>9, FeedPayloadServes
<1>10. CASE LkStart BY <1>10, LkStartServes
<1>11. CASE LkReceive BY <1>11, LkReceiveServes
<1>12. CASE LkGiveUp BY <1>12, LkGiveUpServes
<1>13. CASE LkDone BY <1>13, LkDoneServes
<1>14. CASE Issue BY <1>14, IssueServes
<1>15. CASE HostDies BY <1>15, HostDiesServes
<1>16. CASE LinkReset BY <1>16, LinkResetServes
<1>17. CASE Reopen BY <1>17, ReopenServes
<1>18. CASE Elapse BY <1>18, IdleServes
<1>19. CASE UNCHANGED vars
  <2>1. UNCHANGED <<P, stateVars, pc, batch, wire, lk, answer, parts, alive, sent, awaiting>>
    BY <1>19 DEF vars, parserVars, loopVars, hostVars
  <2>2. Rest' = Rest BY <2>1 DEF Rest
  <2> QED BY <2>1, <2>2, DueStays, QuietStep
<1> QED
  BY <1>1, <1>2, <1>3, <1>4, <1>5, <1>6, <1>7, <1>8, <1>9, <1>10, <1>11, <1>12,
     <1>13, <1>14, <1>15, <1>16, <1>17, <1>18, <1>19
     DEF Next, Loop, Environment

(* Whatever the sizes of the buffers and batches, the parser, the receive   *)
(* loop and LK's dispatcher together answer the host's commands one by one, *)
(* in their turn, each once and with the answer its kind calls for; what a  *)
(* host that goes away loses are its last commands.                         *)
THEOREM DispatchImplementsCommandServer ==
  ASSUME QuickReset = FALSE
  PROVE  Spec => ImplementsCommandServer
<1>1. Init => IInv /\ DueInv /\ Server!Init BY InitHolds, DueAtStart
<1>2. IInv /\ DueInv /\ [Next]_vars => IInv' /\ DueInv' /\ ServerStep
  BY StepKeeps, StepServes
<1>3. IInv /\ DueInv /\ [Next]_vars => IInv' /\ DueInv' /\ [Server!Next]_(Server!serverVars)
  BY <1>2 DEF ServerStep
<1> QED BY <1>1, <1>3, PTL DEF Spec, ImplementsCommandServer, Server!Spec
=============================================================================
