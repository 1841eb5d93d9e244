--------------------------- MODULE HostLinkProofs ---------------------------
(***************************************************************************)
(* Theorems about HostLink for every length, address, number of reads,     *)
(* retries, null bytes and stands of the link, checked by TLAPS: what      *)
(* ReadROM() returns is what it was asked for, an ACK is taken for its own *)
(* command, the driver's memory is true and a call leaves nothing owed.    *)
(***************************************************************************)
EXTENDS HostLink, TLAPS

Waits == {"ack", "resync", "nullack", "drain"}
Setting == Waits \cup {"set"}
Reading == {"data", "check", "drop", "done"}

Nothing == down = << >> /\ up = << >> /\ port = << >>

(* The device holds what the command in hand sets. *)
Applied == dev[Head(call.todo).key] = Head(call.todo).val

Pending(key) == \E i \in 1 .. Len(call.todo) : call.todo[i].key = key

Holds(key, v) == dev[key] = v \/ Pending(key)

(* Nothing is owed where a call starts, sends a command or returns. *)
QuietAtRest == call.pc \in {"idle", "set"} => Nothing

(* One command is out, and it is done once it is no longer on its way. *)
OneIsOut ==
  call.pc = "ack" =>
    /\ Len(down) + Len(up) + Len(port) = 1
    /\ down = << >> => Applied

(* While an answer is awaited, only the command in hand and null bytes are *)
(* on their way, and it is on its way or done.                             *)
OnlyThisOne ==
  call.pc \in Waits =>
    /\ call.todo # << >>
    /\ \A i \in 1 .. Len(down) : down[i] \in {Head(call.todo), NullCmd}
    /\ Applied \/ \E i \in 1 .. Len(down) : down[i] = Head(call.todo)

(* ReadROM() sets what the region needs, or the device holds it already. *)
ReadIsSetUp ==
  call.pc \in Setting /\ ~call.sets =>
    /\ call.len \in Lengths /\ call.num \in Nat \ {0}
    /\ call.n = 0 /\ call.buf = << >>
    /\ \A i \in 1 .. Len(call.todo) :
         call.todo[i] \in {SetCmd("xfer", call.len), SetCmd("address", call.at),
                           SetCmd("mode", 1)}
    /\ Holds("xfer", call.len) /\ Holds("address", call.at) /\ Holds("mode", 1)

(* Other code's write has made the driver forget once it is sent. *)
OthersForget ==
  call.pc \in Setting /\ call.sets =>
    /\ Len(call.todo) <= 1
    /\ \A i \in 1 .. Len(call.todo) : call.todo[i].key \in {"xfer", "mode"}
    /\ call.pc \in Waits \/ call.todo = << >> => memo = [xfer |-> 0, mode |-> 0]

(* A command that goes out may go out once more than it has gone. *)
RetriesLeft == call.pc \in {"set", "ack"} => call.retries > 0

MemoIsTrue ==
  call.pc = "idle" =>
    /\ memo.xfer # 0 => dev.xfer = memo.xfer
    /\ memo.mode # 0 => dev.mode = memo.mode

(* While a region is read nothing but reads is on its way. *)
OnlyReads ==
  call.pc \in Reading =>
    /\ \A i \in 1 .. Len(down) : down[i] = ReadCmd
    /\ call.len \in Lengths
    /\ dev.xfer = call.len /\ dev.mode = 1
    /\ memo = [xfer |-> call.len, mode |-> 1]

Kept == Len(call.buf)
Got == Kept + Len(port) + Len(up)

(* Every byte so far is there, in order, and the device stands after it. *)
Whole ==
  /\ Got + call.len * Len(down) = call.len * call.issued
  /\ dev.address = call.at + Got
  /\ \A i \in 1 .. Kept : call.buf[i] = Byte(call.at + i - 1)
  /\ \A i \in 1 .. Len(port) : port[i] = Byte(call.at + Kept + i - 1)
  /\ \A i \in 1 .. Len(up) :
       up[i] = Byte(call.at + Kept + Len(port) + i - 1)

(* A reply was cut: the bytes of the reads asked for can no longer come. *)
Short == Got + call.len * Len(down) < call.len * call.issued

StreamIsCounted ==
  call.pc \in {"data", "check", "done"} =>
    /\ call.num \in Nat \ {0}
    /\ call.n <= call.issued /\ call.issued <= call.num
    /\ Kept = call.n * call.len
    /\ call.pc = "data" => call.n < call.num
    /\ call.pc # "data" => call.n = call.num
    /\ call.pc = "done" => Nothing
    /\ Whole \/ Short

IInv ==
  /\ TypeOK /\ QuietAtRest /\ OneIsOut /\ OnlyThisOne /\ ReadIsSetUp
  /\ OthersForget /\ RetriesLeft /\ MemoIsTrue /\ OnlyReads /\ StreamIsCounted

-----------------------------------------------------------------------------
(* Types. *)

LEMMA CommandsDiffer ==
  /\ SetCmds \cap {NullCmd, ReadCmd} = {} /\ NullCmd # ReadCmd
  /\ \A c \in SetCmds : /\ c.op = "set"
                        /\ \/ c.key = "xfer" /\ c.val \in Lengths
                           \/ c.key = "mode" /\ c.val \in Modes
                           \/ c.key = "address" /\ c.val \in Addresses
  /\ \A c \in SetCmds \cup {NullCmd, ReadCmd} :
       /\ c.op = "set" <=> c \in SetCmds
       /\ c.op = "null" <=> c = NullCmd
       /\ c.op = "read" <=> c = ReadCmd
  /\ Ack \in Answers /\ \A a \in Nat : Byte(a) \in Answers
BY DEF SetCmds, SetCmd, NullCmd, ReadCmd, Ack, Byte, Answers

LEMMA HeadIsOne ==
  ASSUME NEW S, NEW s \in Seq(S), s # << >>
  PROVE  /\ Head(s) \in S /\ Tail(s) \in Seq(S) /\ Len(s) \in Nat \ {0}
         /\ Head(s) = s[1] /\ Len(Tail(s)) = Len(s) - 1
         /\ \A i \in 1 .. Len(s) - 1 : Tail(s)[i] = s[i + 1]
OBVIOUS

LEMMA RecordsKept ==
  ASSUME dev \in Devices, used \in Counts
  PROVE  /\ \A c \in SetCmds : [dev EXCEPT ![c.key] = c.val] \in Devices
         /\ [dev EXCEPT !.address = @ + dev.xfer] \in Devices
         /\ dev.xfer \in Nat \ {0}
         /\ [used EXCEPT !.stalls = @ + 1] \in Counts
         /\ [used EXCEPT !.cuts = @ + 1] \in Counts
         /\ [used EXCEPT !.calls = @ + 1] \in Counts
<1>1. ASSUME NEW c \in SetCmds PROVE [dev EXCEPT ![c.key] = c.val] \in Devices
  <2>1. CASE c.key = "xfer" BY <2>1, CommandsDiffer DEF Devices
  <2>2. CASE c.key = "mode" BY <2>2, CommandsDiffer DEF Devices
  <2>3. CASE c.key = "address" BY <2>3, CommandsDiffer, HostAssumption DEF Devices
  <2> QED BY <2>1, <2>2, <2>3, CommandsDiffer
<1>2. dev.xfer \in Nat \ {0} BY HostAssumption DEF Devices
<1>3. [dev EXCEPT !.address = @ + dev.xfer] \in Devices BY <1>2 DEF Devices
<1>4. [used EXCEPT !.stalls = @ + 1] \in Counts BY DEF Counts
<1>5. [used EXCEPT !.cuts = @ + 1] \in Counts BY DEF Counts
<1>6. [used EXCEPT !.calls = @ + 1] \in Counts BY DEF Counts
<1> QED BY <1>1, <1>2, <1>3, <1>4, <1>5, <1>6

LEMMA ReplyIs ==
  ASSUME dev \in Devices, NEW n \in Nat
  PROVE  /\ Reply(n) \in Seq(Answers) /\ Len(Reply(n)) = n
         /\ \A i \in 1 .. n : Reply(n)[i] = Byte(dev.address + i - 1)
<1>1. dev.address \in Nat BY DEF Devices
<1>2. \A i \in 1 .. n : Byte(dev.address + i - 1) \in Answers
  BY <1>1, CommandsDiffer
<1> QED BY <1>1, <1>2 DEF Reply

LEMMA IdleIsACall == Idle \in Calls /\ Idle.issued <= Idle.n + 2
BY HostAssumption DEF Idle, Calls

LEMMA StartIsACall ==
  ASSUME NEW todo \in Seq(SetCmds), NEW num \in Nat, NEW len \in Nat, NEW at \in Nat,
         NEW sets \in BOOLEAN
  PROVE  /\ Start(todo, num, len, at, sets) \in Calls
         /\ Start(todo, num, len, at, sets).issued <= Start(todo, num, len, at, sets).n + 2
BY HostAssumption DEF Start, Calls

LEMMA TypeInit == Init => TypeOK
<1> SUFFICES ASSUME Init PROVE TypeOK
  OBVIOUS
<1>1. dev \in Devices BY DEF Init, Devices
<1>2. used \in Counts BY DEF Init, Counts
<1>3. memo \in [xfer : Lengths \cup {0}, mode : {0, 1}] BY DEF Init
<1>4. down \in Seq(SetCmds \cup {NullCmd, ReadCmd}) BY DEF Init
<1>6. up \in Seq(Answers) /\ port \in Seq(Answers) BY DEF Init
<1>7. slow \in BOOLEAN BY DEF Init
<1>5. call \in Calls /\ call.issued <= call.n + 2 BY IdleIsACall DEF Init
<1> QED BY <1>1, <1>2, <1>3, <1>4, <1>5, <1>6, <1>7 DEF TypeOK

LEMMA TypeDevice ==
  ASSUME TypeOK, DeviceSet \/ DeviceNull \/ DeviceRead \/ DeviceCut
  PROVE  TypeOK'
<1>0. /\ down # << >> /\ down' = Tail(down)
      /\ Head(down) \in SetCmds \cup {NullCmd, ReadCmd}
      /\ Tail(down) \in Seq(SetCmds \cup {NullCmd, ReadCmd})
  BY HeadIsOne DEF TypeOK, DeviceSet, DeviceNull, DeviceRead, DeviceCut
<1>1. CASE DeviceSet
  <2>1. dev' \in Devices
    BY <1>0, <1>1, CommandsDiffer, RecordsKept DEF TypeOK, DeviceSet
  <2> QED BY <1>0, <1>1, <2>1, CommandsDiffer DEF TypeOK, DeviceSet
<1>2. CASE DeviceNull
  BY <1>0, <1>2, CommandsDiffer DEF TypeOK, DeviceNull
<1>3. CASE DeviceRead
  BY <1>0, <1>3, RecordsKept, ReplyIs DEF TypeOK, DeviceRead
<1>4. CASE DeviceCut
  <2>1. PICK n \in 0 .. dev.xfer - 1 : up' = up \o Reply(n)
    BY <1>4 DEF DeviceCut
  <2>2. n \in Nat /\ Reply(n) \in Seq(Answers)
    BY RecordsKept, ReplyIs DEF TypeOK
  <2> QED BY <1>0, <1>4, <2>1, <2>2, RecordsKept DEF TypeOK, DeviceCut
<1> QED BY <1>1, <1>2, <1>3, <1>4

LEMMA TypeLink ==
  ASSUME TypeOK, Deliver \/ SlowDown \/ SpeedUp
  PROVE  TypeOK'
<1>1. CASE Deliver
  BY <1>1, HeadIsOne DEF TypeOK, Deliver
<1>2. CASE SlowDown
  BY <1>2, RecordsKept DEF TypeOK, SlowDown
<1>3. CASE SpeedUp
  BY <1>3 DEF TypeOK, SpeedUp
<1> QED BY <1>1, <1>2, <1>3

(* What a call starts with is typed. *)
LEMMA TypeStart ==
  ASSUME TypeOK, ReadROM \/ SetElsewhere \/ Reconnect
  PROVE  TypeOK'
<1>0. used' \in Counts
  BY RecordsKept DEF TypeOK, ReadROM, SetElsewhere, Reconnect
<1>1. CASE ReadROM
  <2>1. PICK at \in Addresses, len \in Lengths, num \in 1 .. MaxReads :
          call' = Start(ToSet(at, len), num, len, at, FALSE)
    BY <1>1 DEF ReadROM
  <2>2. /\ at \in Nat /\ len \in Nat /\ num \in Nat
        /\ SetCmd("xfer", len) \in SetCmds /\ SetCmd("address", at) \in SetCmds
        /\ SetCmd("mode", 1) \in SetCmds
    BY HostAssumption DEF SetCmds, Modes
  <2>3. ToSet(at, len) \in Seq(SetCmds)
    BY <2>2 DEF ToSet
  <2>4. call' \in Calls /\ call'.issued <= call'.n + 2
    BY <2>1, <2>2, <2>3, StartIsACall
  <2> QED BY <1>0, <1>1, <2>4 DEF TypeOK, ReadROM
<1>2. CASE SetElsewhere
  <2>1. PICK c \in SetCmds : call' = Start(<<c>>, 0, 0, 0, TRUE)
    BY <1>2 DEF SetElsewhere, SetCmds
  <2>2. <<c>> \in Seq(SetCmds)
    OBVIOUS
  <2>3. call' \in Calls /\ call'.issued <= call'.n + 2
    BY <2>1, <2>2, StartIsACall
  <2> QED BY <1>0, <1>2, <2>3 DEF TypeOK, SetElsewhere
<1>3. CASE Reconnect
  <2>1. PICK n \in Lengths : call' = Start(<< SetCmd("xfer", n) >>, 0, 0, 0, TRUE)
    BY <1>3 DEF Reconnect
  <2>2. << SetCmd("xfer", n) >> \in Seq(SetCmds)
    BY DEF SetCmds
  <2>3. call' \in Calls /\ call'.issued <= call'.n + 2
    BY <2>1, <2>2, StartIsACall
  <2>4. dev' \in Devices
    <3>1. dev' \in [address : {0}, xfer : Lengths, mode : Modes]
      BY <1>3 DEF Reconnect
    <3> QED BY <3>1 DEF Devices
  <2> QED BY <1>0, <1>3, <2>3, <2>4 DEF TypeOK, Reconnect
<1> QED BY <1>1, <1>2, <1>3

LEMMA CallFields ==
  ASSUME NEW c \in Calls
  PROVE  /\ c.todo \in Seq(SetCmds) /\ c.buf \in Seq(Answers)
         /\ c.num \in Nat /\ c.len \in Nat /\ c.at \in Nat /\ c.n \in Nat
         /\ c.issued \in Nat /\ c.retries \in 0 .. Retries /\ c.hp \in 0 .. Hp
         /\ c.sets \in BOOLEAN
<1>1. c.sets \in BOOLEAN BY DEF Calls
<1> QED BY <1>1 DEF Calls

(* What a step writes to a call keeps it a call. *)
LEMMA CallKept ==
  ASSUME NEW c \in Calls
  PROVE  /\ \A t \in Seq(SetCmds) :
              [c EXCEPT !.pc = "set", !.todo = t, !.retries = Retries] \in Calls
         /\ \A r \in 0 .. Retries :
              [c EXCEPT !.pc = "resync", !.hp = Hp, !.retries = r] \in Calls
         /\ \A h \in 0 .. Hp : [c EXCEPT !.pc = "nullack", !.hp = h] \in Calls
         /\ \A k \in Nat : [c EXCEPT !.pc = "data", !.issued = k] \in Calls
         /\ \A b \in Seq(Answers), m \in Nat, k \in Nat, pc \in {"data", "check"} :
              [c EXCEPT !.pc = pc, !.buf = b, !.n = m, !.issued = k] \in Calls
<1>1. Retries \in 0 .. Retries /\ Hp \in 0 .. Hp
  BY HostAssumption
<1>2. ASSUME NEW t \in Seq(SetCmds)
      PROVE [c EXCEPT !.pc = "set", !.todo = t, !.retries = Retries] \in Calls
  BY <1>1 DEF Calls
<1>3. ASSUME NEW r \in 0 .. Retries
      PROVE [c EXCEPT !.pc = "resync", !.hp = Hp, !.retries = r] \in Calls
  BY <1>1 DEF Calls
<1>4. ASSUME NEW h \in 0 .. Hp PROVE [c EXCEPT !.pc = "nullack", !.hp = h] \in Calls
  BY DEF Calls
<1>5. ASSUME NEW k \in Nat PROVE [c EXCEPT !.pc = "data", !.issued = k] \in Calls
  BY DEF Calls
<1>6. ASSUME NEW b \in Seq(Answers), NEW m \in Nat, NEW k \in Nat, NEW pc \in {"data", "check"}
      PROVE [c EXCEPT !.pc = pc, !.buf = b, !.n = m, !.issued = k] \in Calls
  BY DEF Calls
<1> QED BY <1>2, <1>3, <1>4, <1>5, <1>6

(* The steps that set a variable keep the types. *)
LEMMA TypeSet ==
  ASSUME TypeOK, RetriesLeft, OnlyThisOne,
         SendSet \/ TakeAck \/ AckTimeout \/ SetDone
  PROVE  TypeOK'
<1>1. CASE SendSet
  <2>1. Head(call.todo) \in SetCmds
    BY <1>1, HeadIsOne DEF TypeOK, Calls, SendSet
  <2>2. call' \in Calls /\ call'.issued <= call'.n + 2
    BY <1>1 DEF TypeOK, Calls, SendSet
  <2>3. down' \in Seq(SetCmds \cup {NullCmd, ReadCmd})
    BY <1>1, <2>1 DEF TypeOK, SendSet
  <2>4. memo' \in [xfer : Lengths \cup {0}, mode : {0, 1}]
    BY <1>1 DEF TypeOK, SendSet
  <2> QED BY <1>1, <2>2, <2>3, <2>4 DEF TypeOK, SendSet
<1>2. CASE TakeAck
  <2>1. port' \in Seq(Answers)
    BY <1>2, HeadIsOne DEF TypeOK, TakeAck
  <2>2. Tail(call.todo) \in Seq(SetCmds)
    BY <1>2, HeadIsOne DEF TypeOK, Calls, TakeAck, OnlyThisOne, Waits
  <2>3. call' \in Calls /\ call'.issued <= call'.n + 2
    <3>1. call' \in Calls BY <1>2, <2>2, CallKept DEF TypeOK, TakeAck, NextSet
    <3>2. call'.issued = call.issued /\ call'.n = call.n
      BY <1>2 DEF TypeOK, Calls, TakeAck, NextSet
    <3> QED BY <3>1, <3>2 DEF TypeOK
  <2> QED BY <1>2, <2>1, <2>3 DEF TypeOK, TakeAck
<1>3. CASE AckTimeout
  <2>1. call.retries - 1 \in 0 .. Retries
    BY <1>3, CallFields, HostAssumption DEF TypeOK, RetriesLeft, AckTimeout
  <2>2. call' \in Calls /\ call'.issued <= call'.n + 2
    <3>1. call' \in Calls BY <1>3, <2>1, CallKept DEF TypeOK, AckTimeout
    <3>2. call'.issued = call.issued /\ call'.n = call.n
      BY <1>3 DEF TypeOK, Calls, AckTimeout
    <3> QED BY <3>1, <3>2 DEF TypeOK
  <2> QED BY <1>3, <2>2 DEF TypeOK, AckTimeout
<1>4. CASE SetDone
  BY <1>4, IdleIsACall DEF TypeOK, SetDone
<1> QED BY <1>1, <1>2, <1>3, <1>4

(* And those of the resynchronisation. *)
LEMMA TypeResync ==
  ASSUME TypeOK, OnlyThisOne,
         \/ SendNull \/ TakeNullAck \/ NullTimeout \/ DrainSome \/ DrainEnds
         \/ DropEnds
  PROVE  TypeOK'
<1>0. << >> \in Seq(Answers)
  OBVIOUS
<1>1. CASE SendNull
  <2>1. call.hp - 1 \in 0 .. Hp
    BY <1>1, CallFields, HostAssumption DEF TypeOK, SendNull
  <2>2. call' \in Calls /\ call'.issued <= call'.n + 2
    BY <1>1, <2>1 DEF TypeOK, Calls, SendNull
  <2>3. down' \in Seq(SetCmds \cup {NullCmd, ReadCmd})
    BY <1>1 DEF TypeOK, SendNull
  <2> QED BY <1>0, <1>1, <2>2, <2>3 DEF TypeOK, SendNull
<1>2. CASE TakeNullAck
  <2>1. port' \in Seq(Answers)
    BY <1>2, HeadIsOne DEF TypeOK, TakeNullAck
  <2>2. call' \in Calls /\ call'.issued <= call'.n + 2
    BY <1>2 DEF TypeOK, Calls, TakeNullAck
  <2> QED BY <1>2, <2>1, <2>2 DEF TypeOK, TakeNullAck
<1>3. CASE NullTimeout
  <2>1. call' \in Calls /\ call'.issued <= call'.n + 2
    BY <1>3 DEF TypeOK, Calls, NullTimeout
  <2> QED BY <1>3, <2>1 DEF TypeOK, NullTimeout
<1>4. CASE DrainSome
  BY <1>0, <1>4 DEF TypeOK, DrainSome
<1>5. CASE DrainEnds
  <2>1. Tail(call.todo) \in Seq(SetCmds)
    BY <1>5, HeadIsOne DEF TypeOK, Calls, DrainEnds, OnlyThisOne, Waits
  <2>2. [call EXCEPT !.pc = "set"] \in Calls
    BY DEF TypeOK, Calls
  <2>3. NextSet(call) \in Calls
    BY <2>1, CallKept DEF TypeOK, NextSet
  <2>4. call' \in Calls
    BY <1>5, <2>2, <2>3 DEF DrainEnds
  <2>5. call'.issued = call.issued /\ call'.n = call.n
    BY <1>5 DEF TypeOK, Calls, DrainEnds, NextSet
  <2> QED BY <1>0, <1>5, <2>4, <2>5 DEF TypeOK, DrainEnds
<1>6. CASE DropEnds
  BY <1>0, <1>6, IdleIsACall DEF TypeOK, DropEnds
<1> QED BY <1>1, <1>2, <1>3, <1>4, <1>5, <1>6

(* And those of a read. *)
LEMMA TypeRead ==
  ASSUME TypeOK, ReadIsSetUp, OnlyReads,
         FirstReads \/ TakeData \/ DataTimeout \/ CheckPort \/ Return
  PROVE  TypeOK'
<1>0. << >> \in Seq(Answers)
  OBVIOUS
<1>1. CASE FirstReads
  <2> DEFINE k == IF call.num > 1 THEN 2 ELSE 1
  <2>1. call' \in Calls /\ call'.issued <= call'.n + 2
    <3>1. call' \in Calls BY <1>1, CallKept DEF TypeOK, FirstReads
    <3>2. call'.issued = k /\ call'.n = call.n
      BY <1>1 DEF TypeOK, Calls, FirstReads
    <3> QED BY <3>1, <3>2, CallFields
  <2>2. Reads(k) \in Seq(SetCmds \cup {NullCmd, ReadCmd})
    BY DEF Reads
  <2>3. memo' \in [xfer : Lengths \cup {0}, mode : {0, 1}]
    BY <1>1 DEF ReadIsSetUp, Setting, FirstReads
  <2> QED BY <1>1, <2>1, <2>2, <2>3 DEF TypeOK, FirstReads
<1>2. CASE TakeData
  <2>1. call.len \in Nat
    BY DEF TypeOK, Calls
  <2>2. /\ SubSeq(port, call.len + 1, Len(port)) \in Seq(Answers)
        /\ SubSeq(port, 1, call.len) \in Seq(Answers)
    BY <1>2, <2>1 DEF TypeOK, TakeData
  <2>3. call.buf \o SubSeq(port, 1, call.len) \in Seq(Answers)
    BY <2>2 DEF TypeOK, Calls
  <2>4. call' \in Calls /\ call'.issued <= call'.n + 2
    <3> DEFINE last == call.n + 1 = call.num
               more == ~last /\ call.issued < call.num
    <3>1. /\ call.n + 1 \in Nat /\ call.issued \in Nat /\ call.issued + 1 \in Nat
          /\ call.n \in Nat /\ call.issued <= call.n + 2
      BY CallFields DEF TypeOK
    <3>2. call' = [call EXCEPT !.pc = IF last THEN "check" ELSE "data",
                     !.buf = call.buf \o SubSeq(port, 1, call.len), !.n = call.n + 1,
                     !.issued = IF more THEN call.issued + 1 ELSE call.issued]
      BY <1>2 DEF TakeData
    <3>3. (IF last THEN "check" ELSE "data") \in {"data", "check"}
      OBVIOUS
    <3>4. (IF more THEN call.issued + 1 ELSE call.issued) \in Nat
      BY <3>1
    <3>5. call' \in Calls BY <2>3, <3>1, <3>2, <3>3, <3>4, CallKept DEF TypeOK
    <3>6. call'.n = call.n + 1 /\ call'.issued <= call.issued + 1
      BY <3>1, <3>2, <3>4 DEF TypeOK, Calls
    <3> QED BY <3>1, <3>4, <3>5, <3>6, CallFields
  <2>5. down' \in Seq(SetCmds \cup {NullCmd, ReadCmd})
    BY <1>2 DEF TypeOK, TakeData
  <2> QED BY <1>2, <2>2, <2>4, <2>5 DEF TypeOK, TakeData
<1>3. CASE DataTimeout
  <2>1. call' \in Calls /\ call'.issued <= call'.n + 2
    BY <1>0, <1>3 DEF TypeOK, Calls, DataTimeout
  <2> QED BY <1>0, <1>3, <2>1 DEF TypeOK, DataTimeout
<1>4. CASE CheckPort
  <2>1. call' \in Calls /\ call'.issued <= call'.n + 2
    BY <1>0, <1>4 DEF TypeOK, Calls, CheckPort
  <2> QED BY <1>4, <2>1 DEF TypeOK, CheckPort
<1>5. CASE Return
  BY <1>5, IdleIsACall DEF TypeOK, Return
<1> QED BY <1>1, <1>2, <1>3, <1>4, <1>5

-----------------------------------------------------------------------------
(* The device and the link. *)

(* What a command on its way says of the call. *)
LEMMA OnItsWay ==
  ASSUME IInv, down # << >>
  PROVE  /\ Head(down) = down[1] /\ Len(down) \in Nat \ {0}
         /\ Len(Tail(down)) = Len(down) - 1
         /\ \A i \in 1 .. Len(Tail(down)) : Tail(down)[i] = down[i + 1]
         /\ Head(down).op # "read" =>
              /\ call.pc \in Waits
              /\ Head(call.todo) \in SetCmds
              /\ Head(call.todo) = call.todo[1] /\ Len(call.todo) \in Nat \ {0}
              /\ Head(down).op = "set" => Head(down) = Head(call.todo)
              /\ Head(down).op = "null" => Head(down) # Head(call.todo)
         /\ Head(down).op = "read" => call.pc \in {"data", "check", "drop"}
<1>1. /\ Head(down) = down[1] /\ Len(down) \in Nat \ {0}
      /\ Len(Tail(down)) = Len(down) - 1
      /\ \A i \in 1 .. Len(Tail(down)) : Tail(down)[i] = down[i + 1]
      /\ Head(down) \in SetCmds \cup {NullCmd, ReadCmd}
  BY HeadIsOne DEF IInv, TypeOK
<1>2. call.pc \in Waits \/ call.pc \in {"data", "check", "drop"}
  BY DEF IInv, QuietAtRest, Nothing, StreamIsCounted, TypeOK, Calls, Waits
<1>3. CASE call.pc \in Waits
  <2>1. /\ call.todo # << >> /\ call.todo \in Seq(SetCmds)
        /\ Head(down) \in {Head(call.todo), NullCmd}
    BY <1>1, <1>3, CallFields DEF IInv, TypeOK, OnlyThisOne
  <2>2. /\ Head(call.todo) \in SetCmds
        /\ Head(call.todo) = call.todo[1] /\ Len(call.todo) \in Nat \ {0}
    BY <2>1, HeadIsOne
  <2> QED BY <1>1, <1>3, <2>1, <2>2, CommandsDiffer
<1>4. CASE call.pc \in {"data", "check", "drop"}
  <2>1. Head(down) = ReadCmd
    BY <1>1, <1>4 DEF IInv, OnlyReads, Reading
  <2> QED BY <1>1, <1>4, <2>1, CommandsDiffer
<1> QED BY <1>2, <1>3, <1>4

LEMMA DeviceSetKeeps == IInv /\ DeviceSet => IInv'
<1> SUFFICES ASSUME IInv, DeviceSet PROVE IInv'
  OBVIOUS
<1> DEFINE c == Head(call.todo)
<1>0. TypeOK' BY TypeDevice DEF IInv
<1>1. /\ call.pc \in Waits /\ c = Head(down) /\ c \in SetCmds
      /\ c = call.todo[1] /\ Len(call.todo) \in Nat \ {0}
      /\ Len(down) \in Nat \ {0} /\ Len(Tail(down)) = Len(down) - 1
      /\ \A i \in 1 .. Len(Tail(down)) : Tail(down)[i] = down[i + 1]
  BY OnItsWay DEF DeviceSet
<1>2. /\ dev' = [dev EXCEPT ![c.key] = c.val] /\ down' = Tail(down)
      /\ call' = call /\ memo' = memo /\ port' = port /\ up' = Append(up, Ack)
  BY <1>1 DEF DeviceSet
<1>3. c.key \in {"xfer", "address", "mode"}
  BY <1>1, CommandsDiffer
<1>4. /\ dev'[c.key] = c.val
      /\ \A k \in {"xfer", "address", "mode"} : k # c.key => dev'[k] = dev[k]
  BY <1>2, <1>3 DEF IInv, TypeOK, Devices
<1>5. Applied'
  BY <1>2, <1>4 DEF Applied
<1>6. Len(down') + Len(up') + Len(port') = Len(down) + Len(up) + Len(port)
  BY <1>1, <1>2 DEF IInv, TypeOK
<1>7. OneIsOut'
  BY <1>2, <1>5, <1>6 DEF IInv, OneIsOut
<1>8. OnlyThisOne'
  BY <1>1, <1>2, <1>5 DEF IInv, TypeOK, OnlyThisOne
<1>9. ReadIsSetUp'
  <2>1. ASSUME NEW k \in {"xfer", "address", "mode"}, NEW v, Holds(k, v)
        PROVE  Holds(k, v)'
    BY <1>1, <1>2, <1>4, <2>1 DEF Holds, Pending
  <2> QED BY <1>2, <2>1 DEF IInv, ReadIsSetUp
<1> QED BY <1>0, <1>1, <1>2, <1>7, <1>8, <1>9
         DEF IInv, QuietAtRest, OthersForget, RetriesLeft, MemoIsTrue, OnlyReads,
             StreamIsCounted, Waits, Reading

LEMMA DeviceNullKeeps == IInv /\ DeviceNull => IInv'
<1> SUFFICES ASSUME IInv, DeviceNull PROVE IInv'
  OBVIOUS
<1>0. TypeOK' BY TypeDevice DEF IInv
<1>1. /\ call.pc \in Waits /\ down[1] # Head(call.todo)
      /\ Len(down) \in Nat \ {0} /\ Len(Tail(down)) = Len(down) - 1
      /\ \A i \in 1 .. Len(Tail(down)) : Tail(down)[i] = down[i + 1]
  BY OnItsWay DEF DeviceNull
<1>2. /\ dev' = dev /\ down' = Tail(down) /\ up' = Append(up, Ack)
      /\ call' = call /\ memo' = memo /\ port' = port
  BY DEF DeviceNull
<1>3. Len(down') + Len(up') + Len(port') = Len(down) + Len(up) + Len(port)
  BY <1>1, <1>2 DEF IInv, TypeOK
<1>4. Applied' <=> Applied
  BY <1>2 DEF Applied
<1>5. OneIsOut'
  <2>1. CASE call.pc = "ack"
    <3>1. Len(down) = 1
      BY <1>1, <2>1 DEF IInv, TypeOK, OneIsOut
    <3>2. Applied
      BY <1>1, <3>1 DEF IInv, OnlyThisOne
    <3> QED BY <1>2, <1>3, <1>4, <3>2, <2>1 DEF IInv, OneIsOut
  <2> QED BY <1>2, <2>1 DEF OneIsOut
<1>6. OnlyThisOne'
  <2>1. ASSUME NEW i \in 1 .. Len(down), down[i] = Head(call.todo)
        PROVE  \E j \in 1 .. Len(down') : down'[j] = Head(call.todo)
    <3>1. i - 1 \in 1 .. Len(down') /\ down'[i - 1] = down[i]
      BY <1>1, <1>2, <2>1
    <3> QED BY <2>1, <3>1
  <2>2. \A i \in 1 .. Len(down') : down'[i] \in {Head(call.todo), NullCmd}
    BY <1>1, <1>2 DEF IInv, OnlyThisOne
  <2> QED BY <1>1, <1>2, <1>4, <2>1, <2>2 DEF IInv, OnlyThisOne
<1>7. ReadIsSetUp'
  BY <1>2 DEF IInv, ReadIsSetUp, Holds, Pending
<1> QED BY <1>0, <1>1, <1>2, <1>5, <1>6, <1>7
         DEF IInv, QuietAtRest, OthersForget, RetriesLeft, MemoIsTrue, OnlyReads,
             StreamIsCounted, Waits, Reading

(* A product with one factor less, or more. *)
LEMMA OneFewer ==
  ASSUME NEW len \in Nat, NEW k \in Nat
  PROVE  /\ len * k \in Nat
         /\ k > 0 => len * (k - 1) = len * k - len
         /\ len * (k + 1) = len * k + len
OBVIOUS

(* The numbers a stream is counted in. *)
LEMMA Numbers ==
  ASSUME IInv
  PROVE  /\ Len(down) \in Nat /\ Len(up) \in Nat /\ Len(port) \in Nat
         /\ Kept \in Nat /\ Len(call.todo) \in Nat /\ Got \in Nat
         /\ call.len \in Nat /\ call.at \in Nat /\ call.n \in Nat
         /\ call.issued \in Nat /\ call.num \in Nat /\ dev.address \in Nat
         /\ call.len * Len(down) \in Nat /\ call.len * call.issued \in Nat
<1>1. /\ Len(down) \in Nat /\ Len(up) \in Nat /\ Len(port) \in Nat
      /\ Kept \in Nat /\ Len(call.todo) \in Nat
  BY CallFields DEF IInv, TypeOK, Kept
<1>2. /\ call.len \in Nat /\ call.at \in Nat /\ call.n \in Nat
      /\ call.issued \in Nat /\ call.num \in Nat
  BY CallFields DEF IInv, TypeOK
<1>3. dev.address \in Nat
  BY DEF IInv, TypeOK, Devices
<1>4. Got \in Nat
  BY <1>1 DEF Got
<1>5. call.len * Len(down) \in Nat /\ call.len * call.issued \in Nat
  BY <1>1, <1>2, OneFewer
<1> QED BY <1>1, <1>2, <1>3, <1>4, <1>5

(* A sequence put behind another. *)
LEMMA Behind ==
  ASSUME NEW S, NEW s \in Seq(S), NEW t \in Seq(S)
  PROVE  /\ Len(s \o t) = Len(s) + Len(t)
         /\ \A i \in 1 .. Len(s) : (s \o t)[i] = s[i]
         /\ \A i \in 1 .. Len(t) : (s \o t)[Len(s) + i] = t[i]
OBVIOUS

LEMMA DeviceReadKeeps == IInv /\ DeviceRead => IInv'
<1> SUFFICES ASSUME IInv, DeviceRead PROVE IInv'
  OBVIOUS
<1>0. TypeOK' BY TypeDevice DEF IInv
<1>1. /\ call.pc \in {"data", "check", "drop"}
      /\ Len(down) \in Nat \ {0} /\ Len(Tail(down)) = Len(down) - 1
      /\ \A i \in 1 .. Len(Tail(down)) : Tail(down)[i] = down[i + 1]
  BY OnItsWay DEF DeviceRead
<1>2. /\ dev' = [dev EXCEPT !.address = @ + dev.xfer] /\ down' = Tail(down)
      /\ up' = up \o Reply(dev.xfer)
      /\ call' = call /\ memo' = memo /\ port' = port
  BY DEF DeviceRead
<1>3. /\ dev.xfer = call.len /\ call.len \in Nat \ {0} /\ dev.address \in Nat
      /\ \A i \in 1 .. Len(down) : down[i] = ReadCmd
  BY <1>1, HostAssumption DEF IInv, OnlyReads, Reading, TypeOK, Devices
<1>4. /\ dev'.address = dev.address + call.len /\ dev'.xfer = dev.xfer
      /\ dev'.mode = dev.mode
  BY <1>2, <1>3 DEF IInv, TypeOK, Devices
<1>5. OnlyReads'
  BY <1>1, <1>2, <1>3, <1>4 DEF IInv, OnlyReads
<1>6. StreamIsCounted'
  <2>1. CASE call.pc = "drop"
    BY <1>2, <2>1 DEF StreamIsCounted
  <2>2. CASE call.pc # "drop"
    <3> DEFINE r == Reply(dev.xfer)
    <3>0. /\ r \in Seq(Answers) /\ Len(r) = call.len
          /\ \A i \in 1 .. call.len : r[i] = Byte(dev.address + i - 1)
      BY <1>3, ReplyIs DEF IInv, TypeOK
    <3> HIDE DEF r
    <3>1. /\ Len(up') = Len(up) + call.len
          /\ \A i \in 1 .. Len(up) : up'[i] = up[i]
          /\ \A i \in 1 .. call.len : up'[Len(up) + i] = Byte(dev.address + i - 1)
      <4>1. up \in Seq(Answers) /\ up' = up \o r
        BY <1>2 DEF IInv, TypeOK, r
      <4> QED BY <3>0, <4>1, Behind
    <3>6. Kept' = Kept
      BY <1>2 DEF Kept
    <3>2. Got' = Got + call.len
      BY <1>2, <3>1, <3>6, Numbers DEF Got
    <3>5. call.len * Len(down') = call.len * Len(down) - call.len
      <4>1. Len(down') = Len(down) - 1
        BY <1>1, <1>2
      <4>2. call.len * (Len(down) - 1) = call.len * Len(down) - call.len
        BY <1>1, <1>3, OneFewer
      <4> QED BY <4>1, <4>2
    <3>3. Short => Short'
      BY <1>2, <3>2, <3>5, Numbers DEF Short
    <3>4. ASSUME Whole PROVE Whole'
      <4>1. ASSUME NEW i \in 1 .. Len(up')
            PROVE  up'[i] = Byte(call.at + Kept + Len(port) + i - 1)
        <5>1. CASE i \in 1 .. Len(up)
          BY <3>1, <3>4, <5>1 DEF Whole
        <5>2. CASE i \notin 1 .. Len(up)
          <6>1. i - Len(up) \in 1 .. call.len /\ Len(up) + (i - Len(up)) = i
            BY <1>3, <3>1, <5>2
          <6>2. up'[i] = Byte(dev.address + (i - Len(up)) - 1)
            BY <3>1, <6>1
          <6>3. dev.address + (i - Len(up)) - 1 = call.at + Kept + Len(port) + i - 1
            <7>1. dev.address = call.at + (Kept + Len(port) + Len(up))
              BY <3>4 DEF Whole, Got
            <7>2. /\ call.at \in Nat /\ Kept \in Nat /\ Len(port) \in Nat
                  /\ Len(up) \in Nat
              BY Numbers
            <7> QED BY <7>1, <7>2
          <6> QED BY <6>2, <6>3
        <5> QED BY <5>1, <5>2
      <4>2. /\ Got' + call.len * Len(down') = call.len * call.issued
            /\ dev'.address = call.at + Got'
        <5>1. /\ Got + call.len * Len(down) = call.len * call.issued
              /\ dev.address = call.at + Got
          BY <3>4 DEF Whole
        <5>2. /\ Got \in Nat /\ call.len * Len(down) \in Nat
              /\ call.at \in Nat /\ call.len \in Nat
          BY Numbers
        <5> QED BY <1>4, <3>2, <3>5, <5>1, <5>2
      <4> QED BY <1>2, <3>4, <3>6, <4>1, <4>2 DEF Whole
    <3> QED BY <1>1, <1>2, <2>2, <3>3, <3>4, <3>6 DEF IInv, StreamIsCounted
  <2> QED BY <2>1, <2>2
<1> QED BY <1>0, <1>1, <1>2, <1>5, <1>6
         DEF IInv, QuietAtRest, OneIsOut, OnlyThisOne, ReadIsSetUp, OthersForget,
             RetriesLeft, MemoIsTrue, Waits, Setting

LEMMA DeviceCutKeeps == IInv /\ DeviceCut => IInv'
<1> SUFFICES ASSUME IInv, DeviceCut PROVE IInv'
  OBVIOUS
<1>0. TypeOK' BY TypeDevice DEF IInv
<1>1. /\ call.pc \in {"data", "check", "drop"}
      /\ Len(down) \in Nat \ {0} /\ Len(Tail(down)) = Len(down) - 1
      /\ \A i \in 1 .. Len(Tail(down)) : Tail(down)[i] = down[i + 1]
  BY OnItsWay DEF DeviceCut
<1>3. /\ dev' = dev /\ down' = Tail(down)
      /\ call' = call /\ memo' = memo /\ port' = port
  BY DEF DeviceCut
<1>4. /\ dev.xfer = call.len /\ call.len \in Nat \ {0}
      /\ \A i \in 1 .. Len(down) : down[i] = ReadCmd
  BY <1>1, HostAssumption DEF IInv, OnlyReads, Reading, TypeOK, Devices
<1>2. PICK sent \in Nat : sent < call.len /\ up' = up \o Reply(sent)
  <2>1. PICK m \in 0 .. dev.xfer - 1 : up' = up \o Reply(m)
    BY DEF DeviceCut
  <2>2. m \in Nat /\ m < call.len
    BY <1>4
  <2> QED BY <2>1, <2>2
<1>5. OnlyReads'
  BY <1>1, <1>3, <1>4 DEF IInv, OnlyReads
<1>6. StreamIsCounted'
  <2>1. CASE call.pc = "drop"
    BY <1>3, <2>1 DEF StreamIsCounted
  <2>2. CASE call.pc # "drop"
    <3>1. sent \in Nat /\ sent < call.len
      BY <1>2
    <3>2. Len(up') = Len(up) + sent
      <4>1. Reply(sent) \in Seq(Answers) /\ Len(Reply(sent)) = sent
        BY <3>1, ReplyIs DEF IInv, TypeOK
      <4>2. up \in Seq(Answers)
        BY DEF IInv, TypeOK
      <4> QED BY <1>2, <4>1, <4>2, Behind
    <3>3. Got' = Got + sent
      <4>1. Kept' = Kept /\ port' = port
        BY <1>3 DEF Kept
      <4> QED BY <3>1, <3>2, <4>1, Numbers DEF Got
    <3>5. call.len * Len(down') = call.len * Len(down) - call.len
      <4>1. Len(down') = Len(down) - 1
        BY <1>1, <1>3
      <4>2. call.len * (Len(down) - 1) = call.len * Len(down) - call.len
        BY <1>1, <1>4, OneFewer
      <4> QED BY <4>1, <4>2
    <3>6. Got + call.len * Len(down) <= call.len * call.issued
      BY <1>1, <2>2, Numbers DEF IInv, StreamIsCounted, Short, Whole
    <3>4. Short'
      <4>1. /\ Got \in Nat /\ call.len * Len(down) \in Nat /\ call.len \in Nat
            /\ call.len * call.issued \in Nat
        BY Numbers
      <4>2. Got + sent + (call.len * Len(down) - call.len) < call.len * call.issued
        BY <3>1, <3>6, <4>1
      <4> QED BY <1>3, <3>3, <3>5, <4>2 DEF Short
    <3>7. Kept' = Kept
      BY <1>3 DEF Kept
    <3> QED BY <1>1, <1>3, <2>2, <3>4, <3>7 DEF IInv, StreamIsCounted
  <2> QED BY <2>1, <2>2
<1> QED BY <1>0, <1>1, <1>3, <1>5, <1>6
         DEF IInv, QuietAtRest, OneIsOut, OnlyThisOne, ReadIsSetUp, OthersForget,
             RetriesLeft, MemoIsTrue, Waits, Setting

LEMMA DeliverKeeps == IInv /\ Deliver => IInv'
<1> SUFFICES ASSUME IInv, Deliver PROVE IInv'
  OBVIOUS
<1>0. TypeOK' BY TypeLink DEF IInv
<1>1. /\ up # << >> /\ up' = Tail(up) /\ port' = Append(port, Head(up))
      /\ down' = down /\ dev' = dev /\ call' = call /\ memo' = memo
  BY DEF Deliver
<1>2. /\ Head(up) = up[1] /\ Len(up) \in Nat \ {0} /\ Len(up') = Len(up) - 1
      /\ \A i \in 1 .. Len(up') : up'[i] = up[i + 1]
  BY <1>1, HeadIsOne DEF IInv, TypeOK
<1>3. /\ Len(port) \in Nat /\ Len(port') = Len(port) + 1
      /\ \A i \in 1 .. Len(port) : port'[i] = port[i]
      /\ port'[Len(port) + 1] = up[1]
  BY <1>1, <1>2 DEF IInv, TypeOK
<1>4. call.pc \notin {"idle", "set", "done"}
  BY <1>1 DEF IInv, QuietAtRest, StreamIsCounted, Nothing
<1>5. OneIsOut'
  <2>1. Len(down') + Len(up') + Len(port') = Len(down) + Len(up) + Len(port)
    BY <1>1, <1>2, <1>3, Numbers
  <2>2. Applied' <=> Applied
    BY <1>1 DEF Applied
  <2> QED BY <1>1, <2>1, <2>2 DEF IInv, OneIsOut
<1>6. StreamIsCounted'
  <2>1. Kept' = Kept
    BY <1>1 DEF Kept
  <2>2. Got' = Got
    BY <1>2, <1>3, <2>1, Numbers DEF Got
  <2>3. Short => Short'
    BY <1>1, <2>2 DEF Short
  <2>4. ASSUME Whole PROVE Whole'
    <3>0. Kept \in Nat /\ call.at \in Nat
      BY Numbers
    <3>1. ASSUME NEW i \in 1 .. Len(port')
          PROVE  port'[i] = Byte(call.at + Kept + i - 1)
      <4>1. CASE i \in 1 .. Len(port)
        BY <1>3, <2>4, <4>1 DEF Whole
      <4>2. CASE i = Len(port) + 1
        <5>1. up[1] = Byte(call.at + Kept + Len(port) + 1 - 1)
          BY <1>2, <2>4 DEF Whole
        <5>2. call.at + Kept + Len(port) + 1 - 1 = call.at + Kept + i - 1
          BY <1>3, <3>0, <4>2
        <5> QED BY <1>3, <4>2, <5>1, <5>2
      <4> QED BY <1>3, <4>1, <4>2
    <3>2. ASSUME NEW i \in 1 .. Len(up')
          PROVE  up'[i] = Byte(call.at + Kept + Len(port') + i - 1)
      <4>1. i + 1 \in 1 .. Len(up) /\ up'[i] = up[i + 1]
        BY <1>2
      <4>2. up[i + 1] = Byte(call.at + Kept + Len(port) + (i + 1) - 1)
        BY <2>4, <4>1 DEF Whole
      <4>3. call.at + Kept + Len(port) + (i + 1) - 1 = call.at + Kept + Len(port') + i - 1
        <5>1. i \in Nat /\ Len(port) \in Nat /\ Len(port') = Len(port) + 1
          BY <1>2, <1>3
        <5> QED BY <3>0, <5>1
      <4> QED BY <4>1, <4>2, <4>3
    <3> QED BY <1>1, <2>1, <2>2, <2>4, <3>1, <3>2 DEF Whole
  <2> QED BY <1>1, <1>4, <2>1, <2>3, <2>4 DEF IInv, StreamIsCounted
<1>7. OnlyThisOne' /\ ReadIsSetUp'
  BY <1>1 DEF IInv, OnlyThisOne, ReadIsSetUp, Applied, Holds, Pending
<1> QED BY <1>0, <1>1, <1>4, <1>5, <1>6, <1>7
         DEF IInv, QuietAtRest, OthersForget, RetriesLeft, MemoIsTrue, OnlyReads

(* A stand of the link touches nothing the invariant is about. *)
LEMMA StandKeeps == IInv /\ (SlowDown \/ SpeedUp) => IInv'
<1> SUFFICES ASSUME IInv, SlowDown \/ SpeedUp PROVE IInv'
  OBVIOUS
<1>1. TypeOK' BY TypeLink DEF IInv
<1>2. /\ down' = down /\ up' = up /\ port' = port /\ dev' = dev /\ call' = call
      /\ memo' = memo
  BY DEF SlowDown, SpeedUp
<1> QED BY <1>1, <1>2
         DEF IInv, QuietAtRest, OneIsOut, OnlyThisOne, ReadIsSetUp, OthersForget,
             RetriesLeft, MemoIsTrue, OnlyReads, StreamIsCounted, Nothing, Applied,
             Holds, Pending, Whole, Short, Got, Kept

-----------------------------------------------------------------------------
(* A call starts. *)

LEMMA Joined ==
  ASSUME NEW x, NEW a, NEW m
  PROVE  /\ LET t == << >> \o <<a>> \o << >> IN Len(t) = 1 /\ t[1] = a
         /\ LET t == << >> \o <<a>> \o <<m>> IN Len(t) = 2 /\ t[1] = a /\ t[2] = m
         /\ LET t == <<x>> \o <<a>> \o << >> IN Len(t) = 2 /\ t[1] = x /\ t[2] = a
OBVIOUS

LEMMA JoinedAll ==
  ASSUME NEW x, NEW a, NEW m
  PROVE  LET t == <<x>> \o <<a>> \o <<m>> IN
         Len(t) = 3 /\ t[1] = x /\ t[2] = a /\ t[3] = m
OBVIOUS

(* ReadROM()'s list: only what the region needs, and all of it that the *)
(* memory does not hold.                                                *)
LEMMA ToSetIs ==
  ASSUME NEW at, NEW len
  PROVE  LET t == ToSet(at, len) IN
         /\ \A i \in 1 .. Len(t) : t[i] \in {SetCmd("xfer", len), SetCmd("address", at),
                                             SetCmd("mode", 1)}
         /\ memo.xfer # len => \E i \in 1 .. Len(t) : t[i].key = "xfer"
         /\ \E i \in 1 .. Len(t) : t[i].key = "address"
         /\ memo.mode # 1 => \E i \in 1 .. Len(t) : t[i].key = "mode"
<1> DEFINE x == SetCmd("xfer", len)
           a == SetCmd("address", at)
           m == SetCmd("mode", 1)
           t == ToSet(at, len)
<1>0. x.key = "xfer" /\ a.key = "address" /\ m.key = "mode"
  BY DEF SetCmd
<1>s. t = (IF memo.xfer = len THEN << >> ELSE <<x>>) \o <<a>>
            \o (IF memo.mode = 1 THEN << >> ELSE <<m>>)
  BY DEF ToSet
<1> HIDE DEF x, a, m, t
<1>p. /\ \A i \in 1 .. Len(t) : t[i] \in {x, a, m}
      /\ memo.xfer # len => \E i \in 1 .. Len(t) : t[i].key = "xfer"
      /\ \E i \in 1 .. Len(t) : t[i].key = "address"
      /\ memo.mode # 1 => \E i \in 1 .. Len(t) : t[i].key = "mode"
  <2>1. CASE memo.xfer = len /\ memo.mode = 1
    <3>1. Len(t) = 1 /\ t[1] = a BY <1>s, <2>1, Joined
    <3> QED BY <1>0, <2>1, <3>1
  <2>2. CASE memo.xfer = len /\ memo.mode # 1
    <3>1. t = << >> \o <<a>> \o <<m>> BY <1>s, <2>2
    <3>2. Len(t) = 2 /\ t[1] = a /\ t[2] = m BY <3>1, Joined
    <3> QED BY <1>0, <2>2, <3>2
  <2>3. CASE memo.xfer # len /\ memo.mode = 1
    <3>1. Len(t) = 2 /\ t[1] = x /\ t[2] = a BY <1>s, <2>3, Joined
    <3> QED BY <1>0, <2>3, <3>1
  <2>4. CASE memo.xfer # len /\ memo.mode # 1
    <3>1. t = <<x>> \o <<a>> \o <<m>> BY <1>s, <2>4
    <3>2. LET s == <<x>> \o <<a>> \o <<m>> IN
          Len(s) = 3 /\ s[1] = x /\ s[2] = a /\ s[3] = m
      BY JoinedAll
    <3>3. Len(t) = 3 /\ t[1] = x /\ t[2] = a /\ t[3] = m BY <3>1, <3>2
    <3> QED BY <1>0, <2>4, <3>3
  <2> QED BY <2>1, <2>2, <2>3, <2>4
<1> QED BY <1>p DEF x, a, m, t

LEMMA ReadROMKeeps == IInv /\ ReadROM => IInv'
<1> SUFFICES ASSUME IInv, ReadROM PROVE IInv'
  OBVIOUS
<1>0. TypeOK' BY TypeStart DEF IInv
<1>1. PICK at \in Addresses, len \in Lengths, num \in 1 .. MaxReads :
        call' = Start(ToSet(at, len), num, len, at, FALSE)
  BY DEF ReadROM
<1>2. /\ call'.pc = "set" /\ call'.todo = ToSet(at, len) /\ call'.num = num
      /\ call'.len = len /\ call'.at = at /\ call'.n = 0 /\ call'.buf = << >>
      /\ call'.sets = FALSE /\ call'.retries = Retries
  BY <1>1 DEF Start
<1>3. /\ call.pc = "idle" /\ dev' = dev /\ memo' = memo
      /\ down' = down /\ up' = up /\ port' = port
  BY DEF ReadROM
<1>4. ReadIsSetUp'
  <2>1. /\ memo.xfer # 0 => dev.xfer = memo.xfer
        /\ memo.mode # 0 => dev.mode = memo.mode
    BY <1>3 DEF IInv, MemoIsTrue
  <2>2. len # 0 /\ num \in Nat \ {0}
    BY HostAssumption
  <2>3. Holds("xfer", len)' /\ Holds("address", at)' /\ Holds("mode", 1)'
    BY <1>2, <1>3, <2>1, <2>2, ToSetIs DEF Holds, Pending
  <2>4. \A i \in 1 .. Len(call'.todo) :
          call'.todo[i] \in {SetCmd("xfer", len), SetCmd("address", at), SetCmd("mode", 1)}
    BY <1>2, ToSetIs
  <2> QED BY <1>2, <2>2, <2>3, <2>4 DEF ReadIsSetUp
<1>5. RetriesLeft'
  BY <1>2, HostAssumption DEF RetriesLeft
<1> QED BY <1>0, <1>2, <1>3, <1>4, <1>5
         DEF IInv, QuietAtRest, Nothing, OneIsOut, OnlyThisOne, OthersForget, MemoIsTrue,
             OnlyReads, StreamIsCounted, Waits, Setting, Reading

LEMMA OtherStartKeeps == IInv /\ (SetElsewhere \/ Reconnect) => IInv'
<1> SUFFICES ASSUME IInv, SetElsewhere \/ Reconnect PROVE IInv'
  OBVIOUS
<1>0. TypeOK' BY TypeStart DEF IInv
<1>1. PICK c \in SetCmds : c.key \in {"xfer", "mode"} /\ call' = Start(<<c>>, 0, 0, 0, TRUE)
  <2>1. CASE SetElsewhere
    <3>1. PICK c \in {SetCmd("xfer", n) : n \in Lengths} \cup {SetCmd("mode", m) : m \in Modes} :
            call' = Start(<<c>>, 0, 0, 0, TRUE)
      BY <2>1 DEF SetElsewhere
    <3>2. c \in SetCmds /\ c.key \in {"xfer", "mode"}
      BY DEF SetCmds, SetCmd
    <3> QED BY <3>1, <3>2
  <2>2. CASE Reconnect
    <3>1. PICK n \in Lengths : call' = Start(<< SetCmd("xfer", n) >>, 0, 0, 0, TRUE)
      BY <2>2 DEF Reconnect
    <3>2. SetCmd("xfer", n) \in SetCmds /\ SetCmd("xfer", n).key = "xfer"
      BY DEF SetCmds, SetCmd
    <3> QED BY <3>1, <3>2
  <2> QED BY <2>1, <2>2
<1>2. /\ call'.pc = "set" /\ call'.todo = <<c>> /\ call'.sets = TRUE
      /\ call'.retries = Retries
  BY <1>1 DEF Start
<1>3. /\ call.pc = "idle" /\ memo' = memo
      /\ down' = down /\ up' = up /\ port' = port
  BY DEF SetElsewhere, Reconnect
<1>4. OthersForget'
  <2>1. Len(call'.todo) = 1 /\ call'.todo[1] = c /\ call'.todo # << >>
    BY <1>2
  <2>2. call'.pc \notin Waits
    BY <1>2 DEF Waits
  <2>3. ASSUME NEW i \in 1 .. Len(call'.todo)
        PROVE  call'.todo[i].key \in {"xfer", "mode"}
    <3>1. i = 1
      BY <2>1
    <3> QED BY <1>1, <2>1, <3>1
  <2> QED BY <2>1, <2>2, <2>3 DEF OthersForget
<1>5. RetriesLeft'
  BY <1>2, HostAssumption DEF RetriesLeft
<1> QED BY <1>0, <1>2, <1>3, <1>4, <1>5
         DEF IInv, QuietAtRest, Nothing, OneIsOut, OnlyThisOne, ReadIsSetUp, MemoIsTrue,
             OnlyReads, StreamIsCounted, Waits, Setting, Reading

-----------------------------------------------------------------------------
(* A variable is set. *)

LEMMA SendSetKeeps == IInv /\ SendSet => IInv'
<1> SUFFICES ASSUME IInv, SendSet PROVE IInv'
  OBVIOUS
<1> DEFINE c == Head(call.todo)
<1>0. TypeOK' BY TypeSet DEF IInv
<1>1. /\ call.pc = "set" /\ call.todo # << >> /\ down' = Append(down, c)
      /\ memo' = IF c.key \in {"xfer", "mode"} THEN [xfer |-> 0, mode |-> 0] ELSE memo
      /\ call' = [call EXCEPT !.pc = "ack"]
      /\ dev' = dev /\ up' = up /\ port' = port
  BY DEF SendSet
<1>2. /\ call'.pc = "ack" /\ call'.todo = call.todo /\ call'.sets = call.sets
      /\ call'.len = call.len /\ call'.num = call.num /\ call'.at = call.at
      /\ call'.n = call.n /\ call'.buf = call.buf /\ call'.retries = call.retries
  BY <1>1 DEF IInv, TypeOK, Calls
<1>3. down = << >> /\ up = << >> /\ port = << >>
  BY <1>1 DEF IInv, QuietAtRest, Nothing
<1>4. /\ down' # << >> /\ Len(down') = 1 /\ down'[1] = c
      /\ Len(up') = 0 /\ Len(port') = 0
  BY <1>1, <1>3
<1>5. /\ c = call.todo[1] /\ Len(call.todo) \in Nat \ {0}
  BY <1>1, CallFields, HeadIsOne DEF IInv, TypeOK
<1>6. OneIsOut'
  BY <1>4 DEF OneIsOut
<1>7. OnlyThisOne'
  BY <1>1, <1>2, <1>4 DEF OnlyThisOne
<1>8. ReadIsSetUp'
  BY <1>1, <1>2 DEF IInv, ReadIsSetUp, Setting, Waits, Holds, Pending
<1>9. OthersForget'
  <2>1. ASSUME call.sets PROVE c.key \in {"xfer", "mode"}
    BY <1>1, <1>5, <2>1 DEF IInv, OthersForget, Setting
  <2>2. ASSUME call.sets PROVE memo' = [xfer |-> 0, mode |-> 0]
    BY <1>1, <2>1, <2>2
  <2>3. call.pc \in Setting
    BY <1>1 DEF Setting
  <2> QED BY <1>2, <2>2, <2>3 DEF IInv, OthersForget
<1> QED BY <1>0, <1>1, <1>2, <1>6, <1>7, <1>8, <1>9
         DEF IInv, QuietAtRest, RetriesLeft, MemoIsTrue, OnlyReads, StreamIsCounted,
             Reading

(* Once the command in hand is done, the next one is as well prepared. *)
LEMMA NextIsSetUp ==
  ASSUME IInv, call.pc \in Waits, Applied,
         call' = NextSet(call), dev' = dev, memo' = memo
  PROVE  /\ call'.pc = "set" /\ ReadIsSetUp' /\ OthersForget' /\ RetriesLeft'
<1> DEFINE c == Head(call.todo)
<1>1. /\ call'.pc = "set" /\ call'.todo = Tail(call.todo) /\ call'.sets = call.sets
      /\ call'.len = call.len /\ call'.num = call.num /\ call'.at = call.at
      /\ call'.n = call.n /\ call'.buf = call.buf /\ call'.retries = Retries
  BY DEF IInv, TypeOK, Calls, NextSet
<1>2. call.todo # << >>
  BY DEF IInv, OnlyThisOne
<1>3. /\ c = call.todo[1] /\ Len(call.todo) \in Nat \ {0}
      /\ Len(call'.todo) = Len(call.todo) - 1
      /\ \A i \in 1 .. Len(call'.todo) : call'.todo[i] = call.todo[i + 1]
  BY <1>1, <1>2, CallFields, HeadIsOne DEF IInv, TypeOK
<1>4. call.pc \in Setting
  BY DEF Setting
<1>5. ReadIsSetUp'
  <2> SUFFICES ASSUME ~call.sets PROVE ReadIsSetUp'
    BY <1>1 DEF ReadIsSetUp
  <2>1. /\ \A i \in 1 .. Len(call.todo) :
             call.todo[i] \in {SetCmd("xfer", call.len), SetCmd("address", call.at),
                               SetCmd("mode", 1)}
        /\ Holds("xfer", call.len) /\ Holds("address", call.at) /\ Holds("mode", 1)
    BY <1>4 DEF IInv, ReadIsSetUp
  <2>2. ASSUME NEW k \in {"xfer", "address", "mode"}, NEW v, Holds(k, v),
               \A i \in 1 .. Len(call.todo) : call.todo[i].key = k => call.todo[i].val = v
        PROVE  Holds(k, v)'
    <3>1. CASE dev[k] = v
      BY <3>1 DEF Holds
    <3>2. CASE dev[k] # v
      <4>1. PICK i \in 1 .. Len(call.todo) : call.todo[i].key = k
        BY <2>2, <3>2 DEF Holds, Pending
      <4>2. i # 1
        BY <1>3, <2>2, <3>2, <4>1 DEF Applied
      <4>3. i - 1 \in 1 .. Len(call'.todo) /\ call'.todo[i - 1] = call.todo[i]
        BY <1>3, <4>2
      <4> QED BY <4>1, <4>3 DEF Holds, Pending
    <3> QED BY <3>1, <3>2
  <2>3. /\ \A i \in 1 .. Len(call.todo) :
             /\ call.todo[i].key = "xfer" => call.todo[i].val = call.len
             /\ call.todo[i].key = "address" => call.todo[i].val = call.at
             /\ call.todo[i].key = "mode" => call.todo[i].val = 1
    BY <2>1 DEF SetCmd
  <2>4. Holds("xfer", call.len)' /\ Holds("address", call.at)' /\ Holds("mode", 1)'
    <3>1. /\ Holds("xfer", call.len)
          /\ \A i \in 1 .. Len(call.todo) :
               call.todo[i].key = "xfer" => call.todo[i].val = call.len
      BY <2>1, <2>3
    <3>2. /\ Holds("address", call.at)
          /\ \A i \in 1 .. Len(call.todo) :
               call.todo[i].key = "address" => call.todo[i].val = call.at
      BY <2>1, <2>3
    <3>3. /\ Holds("mode", 1)
          /\ \A i \in 1 .. Len(call.todo) :
               call.todo[i].key = "mode" => call.todo[i].val = 1
      BY <2>1, <2>3
    <3> QED BY <1>1, <2>2, <3>1, <3>2, <3>3
  <2>5. \A i \in 1 .. Len(call'.todo) :
          call'.todo[i] \in {SetCmd("xfer", call.len), SetCmd("address", call.at),
                             SetCmd("mode", 1)}
    BY <1>3, <2>1
  <2> QED BY <1>1, <1>4, <2>4, <2>5 DEF IInv, ReadIsSetUp
<1>6. OthersForget'
  <2> SUFFICES ASSUME call.sets PROVE OthersForget'
    BY <1>1 DEF OthersForget
  <2>1. Len(call.todo) <= 1 /\ memo = [xfer |-> 0, mode |-> 0]
    BY <1>4 DEF IInv, OthersForget
  <2>2. Len(call'.todo) = 0
    <3>1. Len(call.todo) = 1
      <4>1. \A k \in Nat \ {0} : k <= 1 => k = 1
        OBVIOUS
      <4> QED BY <1>3, <2>1, <4>1
    <3> QED BY <1>3, <3>1
  <2> QED BY <2>1, <2>2 DEF OthersForget
<1>7. RetriesLeft'
  BY <1>1, HostAssumption DEF RetriesLeft
<1> QED BY <1>1, <1>5, <1>6, <1>7

LEMMA TakeAckKeeps == IInv /\ TakeAck => IInv' /\ Applied
<1> SUFFICES ASSUME IInv, TakeAck PROVE IInv' /\ Applied
  OBVIOUS
<1>0. TypeOK' BY TypeSet DEF IInv
<1>1. /\ call.pc = "ack" /\ port # << >> /\ port' = Tail(port)
      /\ call' = NextSet(call)
      /\ dev' = dev /\ down' = down /\ up' = up /\ memo' = memo
  BY DEF TakeAck
<1>2. Len(port) \in Nat \ {0} /\ Len(port') = Len(port) - 1
  BY <1>1, HeadIsOne DEF IInv, TypeOK
<1>3. Len(down) + Len(up) + Len(port) = 1 /\ (down = << >> => Applied)
  BY <1>1 DEF IInv, OneIsOut
<1>4. Len(down) = 0 /\ Len(up) = 0 /\ Len(port') = 0
  BY <1>2, <1>3, Numbers
<1>5. down = << >> /\ up = << >> /\ port' = << >>
  BY <1>0, <1>4 DEF IInv, TypeOK
<1>6. Applied
  BY <1>3, <1>5
<1>7. call.pc \in Waits
  BY <1>1 DEF Waits
<1>8. call'.pc = "set" /\ ReadIsSetUp' /\ OthersForget' /\ RetriesLeft'
  BY <1>1, <1>6, <1>7, NextIsSetUp
<1> QED BY <1>0, <1>1, <1>5, <1>6, <1>8
         DEF IInv, QuietAtRest, Nothing, OneIsOut, OnlyThisOne, MemoIsTrue, OnlyReads,
             StreamIsCounted, Waits, Reading

(* The steps between two tries leave the command in hand as it is. *)
LEMMA WaitingKeeps ==
  IInv /\ (AckTimeout \/ SendNull \/ TakeNullAck \/ NullTimeout) => IInv'
<1> SUFFICES ASSUME IInv, AckTimeout \/ SendNull \/ TakeNullAck \/ NullTimeout
             PROVE  IInv'
  OBVIOUS
<1>0. TypeOK' BY TypeSet, TypeResync DEF IInv
<1>1. /\ call.pc \in Waits /\ call'.pc \in Waits \ {"ack"}
      /\ call'.todo = call.todo /\ call'.sets = call.sets
      /\ call'.len = call.len /\ call'.num = call.num /\ call'.at = call.at
      /\ call'.n = call.n /\ call'.buf = call.buf
      /\ dev' = dev /\ memo' = memo
  BY DEF IInv, TypeOK, Calls, Waits, AckTimeout, SendNull, TakeNullAck, NullTimeout
<1>2. down' = down \/ down' = Append(down, NullCmd)
  BY DEF AckTimeout, SendNull, TakeNullAck, NullTimeout
<1>3. OnlyThisOne'
  <2>1. /\ \A i \in 1 .. Len(down') : \/ down'[i] = NullCmd
                                      \/ i \in 1 .. Len(down) /\ down'[i] = down[i]
        /\ \A i \in 1 .. Len(down) : i \in 1 .. Len(down') /\ down'[i] = down[i]
    <3>1. down \in Seq(SetCmds \cup {NullCmd, ReadCmd})
      BY DEF IInv, TypeOK
    <3>2. CASE down' = down
      BY <3>1, <3>2
    <3>3. CASE down' = Append(down, NullCmd)
      <4>1. /\ Len(down) \in Nat /\ Len(down') = Len(down) + 1
            /\ down'[Len(down) + 1] = NullCmd
            /\ \A i \in 1 .. Len(down) : down'[i] = down[i]
        BY <3>1, <3>3
      <4> QED BY <4>1
    <3> QED BY <1>2, <3>2, <3>3
  <2>2. Applied' <=> Applied
    BY <1>1 DEF Applied
  <2> QED BY <1>1, <2>1, <2>2 DEF IInv, OnlyThisOne
<1>4. ReadIsSetUp'
  BY <1>1 DEF IInv, ReadIsSetUp, Setting, Holds, Pending
<1>5. OthersForget'
  BY <1>1 DEF IInv, OthersForget, Setting
<1> QED BY <1>0, <1>1, <1>3, <1>4, <1>5
         DEF IInv, QuietAtRest, OneIsOut, RetriesLeft, MemoIsTrue, OnlyReads,
             StreamIsCounted, Waits, Reading

LEMMA DrainSomeKeeps == IInv /\ DrainSome => IInv'
<1> SUFFICES ASSUME IInv, DrainSome PROVE IInv'
  OBVIOUS
<1>0. TypeOK' BY TypeResync DEF IInv
<1>1. /\ call.pc \in {"drain", "drop"} /\ call' = call /\ dev' = dev
      /\ memo' = memo /\ down' = down
  BY DEF DrainSome
<1> QED BY <1>0, <1>1
         DEF IInv, QuietAtRest, OneIsOut, OnlyThisOne, ReadIsSetUp, OthersForget,
             RetriesLeft, MemoIsTrue, OnlyReads, StreamIsCounted, Applied, Holds, Pending

LEMMA DrainEndsKeeps == IInv /\ DrainEnds => IInv'
<1> SUFFICES ASSUME IInv, DrainEnds PROVE IInv'
  OBVIOUS
<1>0. TypeOK' BY TypeResync DEF IInv
<1>1. /\ call.pc = "drain" /\ port' = << >>
      /\ dev' = dev /\ down' = down /\ up' = up /\ memo' = memo
      /\ call' = IF call.retries > 0 THEN [call EXCEPT !.pc = "set"] ELSE NextSet(call)
  BY DEF DrainEnds
<1>2. down = << >> /\ up = << >>
  BY DEF DrainEnds, Quiet, Owed
<1>3. call.pc \in Waits
  BY <1>1 DEF Waits
<1>4. Applied
  BY <1>2, <1>3 DEF IInv, OnlyThisOne
<1>5. call'.pc = "set" /\ ReadIsSetUp' /\ OthersForget' /\ RetriesLeft'
  <2>1. CASE call.retries > 0
    <3>1. /\ call'.pc = "set" /\ call'.todo = call.todo /\ call'.sets = call.sets
          /\ call'.len = call.len /\ call'.num = call.num /\ call'.at = call.at
          /\ call'.n = call.n /\ call'.buf = call.buf /\ call'.retries = call.retries
      BY <1>1, <2>1 DEF IInv, TypeOK, Calls
    <3>2. ReadIsSetUp'
      BY <1>1, <1>3, <3>1 DEF IInv, ReadIsSetUp, Setting, Holds, Pending
    <3>3. OthersForget'
      BY <1>1, <1>3, <3>1 DEF IInv, OthersForget, Setting
    <3> QED BY <2>1, <3>1, <3>2, <3>3 DEF RetriesLeft
  <2>2. CASE ~(call.retries > 0)
    BY <1>1, <1>3, <1>4, <2>2, NextIsSetUp
  <2> QED BY <2>1, <2>2
<1> QED BY <1>0, <1>1, <1>2, <1>5
         DEF IInv, QuietAtRest, Nothing, OneIsOut, OnlyThisOne, MemoIsTrue, OnlyReads,
             StreamIsCounted, Waits, Reading

(* A call that ends leaves nothing owed and a memory that is true. *)
LEMMA EndKeeps == IInv /\ (SetDone \/ DropEnds \/ Return) => IInv'
<1> SUFFICES ASSUME IInv, SetDone \/ DropEnds \/ Return PROVE IInv'
  OBVIOUS
<1>0. TypeOK' BY TypeSet, TypeResync, TypeRead DEF IInv
<1>1. /\ call' = Idle /\ dev' = dev /\ memo' = memo /\ down' = down /\ up' = up
  BY DEF SetDone, DropEnds, Return
<1>2. call'.pc = "idle"
  BY <1>1 DEF Idle
<1>3. Nothing'
  <2>1. CASE SetDone
    BY <2>1 DEF IInv, SetDone, QuietAtRest, Nothing
  <2>2. CASE DropEnds
    BY <2>2 DEF DropEnds, Quiet, Owed, Nothing
  <2>3. CASE Return
    BY <2>3 DEF IInv, Return, StreamIsCounted, Nothing
  <2> QED BY <2>1, <2>2, <2>3
<1>4. MemoIsTrue'
  <2>1. CASE SetDone
    <3>1. memo = [xfer |-> 0, mode |-> 0]
      BY <2>1 DEF IInv, SetDone, OthersForget, Setting
    <3> QED BY <1>1, <3>1 DEF MemoIsTrue
  <2>2. CASE DropEnds \/ Return
    <3>1. dev.xfer = call.len /\ dev.mode = 1 /\ memo = [xfer |-> call.len, mode |-> 1]
      BY <2>2 DEF IInv, DropEnds, Return, OnlyReads, Reading
    <3> QED BY <1>1, <3>1 DEF MemoIsTrue
  <2> QED BY <2>1, <2>2
<1> QED BY <1>0, <1>2, <1>3, <1>4
         DEF IInv, QuietAtRest, OneIsOut, OnlyThisOne, ReadIsSetUp, OthersForget,
             RetriesLeft, OnlyReads, StreamIsCounted, Waits, Setting, Reading

-----------------------------------------------------------------------------
(* A region is read. *)

LEMMA FirstReadsKeeps == IInv /\ FirstReads => IInv'
<1> SUFFICES ASSUME IInv, FirstReads PROVE IInv'
  OBVIOUS
<1> DEFINE k == IF call.num > 1 THEN 2 ELSE 1
<1>0. TypeOK' BY TypeRead DEF IInv
<1>1. /\ call.pc = "set" /\ call.todo = << >> /\ ~call.sets
      /\ memo' = [xfer |-> call.len, mode |-> 1] /\ down' = down \o Reads(k)
      /\ call' = [call EXCEPT !.pc = "data", !.issued = k]
      /\ dev' = dev /\ up' = up /\ port' = port
  BY DEF FirstReads
<1>2. /\ call'.pc = "data" /\ call'.issued = k /\ call'.num = call.num
      /\ call'.len = call.len /\ call'.at = call.at /\ call'.n = call.n
      /\ call'.buf = call.buf
  BY <1>1 DEF IInv, TypeOK, Calls
<1>3. /\ call.len \in Lengths /\ call.num \in Nat \ {0}
      /\ call.n = 0 /\ call.buf = << >>
      /\ dev.xfer = call.len /\ dev.address = call.at /\ dev.mode = 1
  BY <1>1 DEF IInv, ReadIsSetUp, Setting, Holds, Pending
<1>4. down = << >> /\ up = << >> /\ port = << >>
  BY <1>1 DEF IInv, QuietAtRest, Nothing
<1>5. k \in Nat \ {0} /\ k <= call.num
  BY <1>3
<1> HIDE DEF k
<1>6. /\ Len(down') = k /\ \A i \in 1 .. Len(down') : down'[i] = ReadCmd
      /\ up' = << >> /\ port' = << >>
  BY <1>1, <1>4, <1>5 DEF Reads
<1>7. OnlyReads'
  BY <1>1, <1>2, <1>3, <1>6 DEF OnlyReads
<1>8. StreamIsCounted'
  <2>1. Kept' = 0 /\ Got' = 0
    <3>1. Kept' = 0 /\ Len(port') = 0 /\ Len(up') = 0
      BY <1>2, <1>3, <1>6 DEF Kept
    <3> QED BY <3>1 DEF Got
  <2>2. /\ call.len \in Nat /\ call.at \in Nat
        /\ call.len * k \in Nat
    BY <1>5, Numbers, OneFewer
  <2>3. Whole'
    <3>1. Len(port') = 0 /\ Len(up') = 0
      BY <1>6
    <3>2. Got' + call.len * Len(down') = call.len * k
      BY <1>6, <2>1, <2>2
    <3> QED BY <1>1, <1>2, <1>3, <2>1, <2>2, <3>1, <3>2 DEF Whole
  <2>4. call.n * call.len = 0
    BY <1>3, <2>2
  <2> QED BY <1>2, <1>3, <1>5, <2>1, <2>3, <2>4 DEF StreamIsCounted
<1> QED BY <1>0, <1>2, <1>7, <1>8
         DEF IInv, QuietAtRest, OneIsOut, OnlyThisOne, ReadIsSetUp, OthersForget,
             RetriesLeft, MemoIsTrue, Waits, Setting

(* What is behind the first bytes of a sequence. *)
LEMMA Cut ==
  ASSUME NEW S, NEW s \in Seq(S), NEW k \in Nat, k <= Len(s)
  PROVE  /\ Len(SubSeq(s, 1, k)) = k /\ SubSeq(s, 1, k) \in Seq(S)
         /\ \A i \in 1 .. k : SubSeq(s, 1, k)[i] = s[i]
         /\ Len(SubSeq(s, k + 1, Len(s))) = Len(s) - k
         /\ \A i \in 1 .. Len(s) - k : SubSeq(s, k + 1, Len(s))[i] = s[i + k]
OBVIOUS

(* Bytes counted in lengths compare as the lengths do. *)
LEMMA Cancel ==
  ASSUME NEW len \in Nat \ {0}, NEW a \in Nat, NEW b \in Nat
  PROVE  /\ len * a <= len * b => a <= b
         /\ a * len = len * a
OBVIOUS

LEMMA TakeDataKeeps == IInv /\ TakeData => IInv'
<1> SUFFICES ASSUME IInv, TakeData PROVE IInv'
  OBVIOUS
<1> DEFINE last == call.n + 1 = call.num
           more == ~last /\ call.issued < call.num
           issued == IF more THEN call.issued + 1 ELSE call.issued
           taken == SubSeq(port, 1, call.len)
<1>0. TypeOK' BY TypeRead DEF IInv
<1>1. /\ call.pc = "data" /\ Len(port) >= call.len
      /\ port' = SubSeq(port, call.len + 1, Len(port))
      /\ down' = IF more THEN Append(down, ReadCmd) ELSE down
      /\ call' = [call EXCEPT !.pc = IF last THEN "check" ELSE "data",
                              !.buf = call.buf \o taken, !.n = call.n + 1,
                              !.issued = issued]
      /\ dev' = dev /\ up' = up /\ memo' = memo
  BY DEF TakeData
<1>2. /\ call'.pc = (IF last THEN "check" ELSE "data") /\ call'.num = call.num
      /\ call'.len = call.len /\ call'.at = call.at /\ call'.n = call.n + 1
      /\ call'.issued = issued /\ call'.buf = call.buf \o taken
  BY <1>1 DEF IInv, TypeOK, Calls
<1>3. /\ call.len \in Nat \ {0} /\ call.n \in Nat /\ call.num \in Nat \ {0}
      /\ call.issued \in Nat /\ call.n <= call.issued /\ call.issued <= call.num
      /\ call.n < call.num /\ Kept = call.n * call.len
      /\ Whole \/ Short
      /\ dev.xfer = call.len /\ dev.mode = 1
      /\ memo = [xfer |-> call.len, mode |-> 1] /\ call.len \in Lengths
      /\ \A i \in 1 .. Len(down) : down[i] = ReadCmd
  BY <1>1, Numbers, HostAssumption DEF IInv, StreamIsCounted, OnlyReads, Reading
<1> HIDE DEF last, more, issued, taken
<1>4. /\ taken \in Seq(Answers) /\ Len(taken) = call.len
      /\ \A i \in 1 .. call.len : taken[i] = port[i]
      /\ Len(port') = Len(port) - call.len
      /\ \A i \in 1 .. Len(port') : port'[i] = port[i + call.len]
  <2>1. port \in Seq(Answers) /\ call.len <= Len(port) /\ call.len \in Nat
    BY <1>1, <1>3, Numbers DEF IInv, TypeOK
  <2>2. /\ Len(SubSeq(port, 1, call.len)) = call.len
        /\ SubSeq(port, 1, call.len) \in Seq(Answers)
        /\ \A i \in 1 .. call.len : SubSeq(port, 1, call.len)[i] = port[i]
        /\ Len(SubSeq(port, call.len + 1, Len(port))) = Len(port) - call.len
        /\ \A i \in 1 .. Len(port) - call.len :
             SubSeq(port, call.len + 1, Len(port))[i] = port[i + call.len]
    BY <2>1, Cut
  <2> QED BY <1>1, <2>2 DEF taken
<1>5. /\ Kept' = Kept + call.len
      /\ \A i \in 1 .. Kept : call'.buf[i] = call.buf[i]
      /\ \A i \in 1 .. call.len : call'.buf[Kept + i] = port[i]
  <2>1. call.buf \in Seq(Answers)
    BY CallFields DEF IInv, TypeOK
  <2>2. /\ Len(call.buf \o taken) = Len(call.buf) + Len(taken)
        /\ \A i \in 1 .. Len(call.buf) : (call.buf \o taken)[i] = call.buf[i]
        /\ \A i \in 1 .. Len(taken) : (call.buf \o taken)[Len(call.buf) + i] = taken[i]
    <3>1. taken \in Seq(Answers)
      BY <1>4
    <3> QED BY <2>1, <3>1, Behind
  <2>3. Kept' = Kept + call.len
    BY <1>2, <1>4, <2>2 DEF Kept
  <2>4. \A i \in 1 .. Kept : call'.buf[i] = call.buf[i]
    BY <1>2, <2>2 DEF Kept
  <2>5. \A i \in 1 .. call.len : call'.buf[Kept + i] = port[i]
    BY <1>2, <1>4, <2>2 DEF Kept
  <2> QED BY <2>3, <2>4, <2>5
<1>6. Got' = Got
  <2>1. Kept \in Nat /\ Len(port) \in Nat /\ Len(up) \in Nat /\ call.len \in Nat
    BY Numbers
  <2>2. Got' = (Kept + call.len) + (Len(port) - call.len) + Len(up)
    BY <1>1, <1>4, <1>5 DEF Got
  <2> QED BY <2>1, <2>2 DEF Got
<1>7. /\ \A i \in 1 .. Len(down') : down'[i] = ReadCmd
      /\ \/ Len(down') = Len(down) /\ issued = call.issued
         \/ Len(down') = Len(down) + 1 /\ issued = call.issued + 1 /\ more
  <2>1. down \in Seq(SetCmds \cup {NullCmd, ReadCmd})
    BY DEF IInv, TypeOK
  <2>2. CASE more
    BY <1>1, <1>3, <2>1, <2>2 DEF issued
  <2>3. CASE ~more
    BY <1>1, <1>3, <2>3 DEF issued
  <2> QED BY <2>2, <2>3
<1>8. call.n + 1 <= issued /\ issued <= call.num
  <2>1. Kept + call.len <= Got
    <3>1. Kept \in Nat /\ Len(port) \in Nat /\ Len(up) \in Nat /\ call.len \in Nat
      BY Numbers
    <3> QED BY <1>1, <3>1 DEF Got
  <2>2. Got + call.len * Len(down) <= call.len * call.issued
    <3>1. Got \in Nat /\ call.len * Len(down) \in Nat /\ call.len * call.issued \in Nat
      BY Numbers
    <3> QED BY <1>3, <3>1 DEF Whole, Short
  <2>3. call.len * (call.n + 1) = Kept + call.len
    <3>1. call.len * (call.n + 1) = call.len * call.n + call.len
      BY <1>3, OneFewer
    <3>2. Kept = call.len * call.n
      BY <1>3, Cancel
    <3> QED BY <3>1, <3>2
  <2>4. call.len * (call.n + 1) <= call.len * call.issued
    <3>1. /\ Got \in Nat /\ call.len * Len(down) \in Nat /\ call.len * call.issued \in Nat
          /\ Kept \in Nat /\ call.len \in Nat
      BY Numbers
    <3> QED BY <2>1, <2>2, <2>3, <3>1
  <2>5. call.n + 1 <= call.issued
    BY <1>3, <2>4, Cancel
  <2> QED BY <1>3, <1>7, <2>5 DEF more
<1>9. \E p, q \in Nat :
        /\ call.len * Len(down) \in Nat /\ call.len * call.issued \in Nat
        /\ call.len * Len(down') = call.len * Len(down) + p
        /\ call.len * issued = call.len * call.issued + q
        /\ p = q
  <2>1. CASE Len(down') = Len(down) /\ issued = call.issued
    <3>1. /\ call.len * Len(down) \in Nat /\ call.len * call.issued \in Nat
      BY Numbers
    <3>2. /\ call.len * Len(down') = call.len * Len(down) + 0
          /\ call.len * issued = call.len * call.issued + 0
      BY <2>1, <3>1
    <3> QED BY <3>1, <3>2
  <2>2. CASE Len(down') = Len(down) + 1 /\ issued = call.issued + 1
    <3>1. /\ call.len * Len(down) \in Nat /\ call.len * call.issued \in Nat
          /\ call.len \in Nat /\ Len(down) \in Nat /\ call.issued \in Nat
      BY Numbers
    <3>2. /\ call.len * (Len(down) + 1) = call.len * Len(down) + call.len
          /\ call.len * (call.issued + 1) = call.len * call.issued + call.len
      BY <3>1, OneFewer
    <3> QED BY <2>2, <3>1, <3>2
  <2> QED BY <1>7, <2>1, <2>2
<1>10. Short => Short'
  <2>1. Got \in Nat
    BY Numbers
  <2> QED BY <1>2, <1>6, <1>9, <2>1 DEF Short
<1>11. ASSUME Whole PROVE Whole'
  <2>0. /\ Kept \in Nat /\ Len(port) \in Nat /\ Len(up) \in Nat /\ Got \in Nat
        /\ call.len \in Nat /\ call.at \in Nat
    BY Numbers
  <2>1. Got' + call.len * Len(down') = call.len * issued
    BY <1>6, <1>9, <1>11, <2>0 DEF Whole
  <2>2. ASSUME NEW i \in 1 .. Kept' PROVE call'.buf[i] = Byte(call.at + i - 1)
    <3>1. CASE i \in 1 .. Kept
      BY <1>5, <1>11, <3>1 DEF Whole
    <3>2. CASE i \notin 1 .. Kept
      <4>1. i - Kept \in 1 .. call.len /\ Kept + (i - Kept) = i /\ i \in Nat
        BY <1>5, <2>0, <3>2
      <4>2. call'.buf[i] = port[i - Kept]
        BY <1>5, <4>1
      <4>3. i - Kept \in 1 .. Len(port)
        BY <1>1, <2>0, <4>1
      <4>4. port[i - Kept] = Byte(call.at + Kept + (i - Kept) - 1)
        BY <1>11, <4>3 DEF Whole
      <4>5. call.at + Kept + (i - Kept) - 1 = call.at + i - 1
        BY <2>0, <4>1
      <4> QED BY <4>2, <4>4, <4>5
    <3> QED BY <3>1, <3>2
  <2>3. ASSUME NEW i \in 1 .. Len(port') PROVE port'[i] = Byte(call.at + Kept' + i - 1)
    <3>1. i \in Nat /\ i + call.len \in 1 .. Len(port)
      BY <1>4, <2>0
    <3>2. port[i + call.len] = Byte(call.at + Kept + (i + call.len) - 1)
      BY <1>11, <3>1 DEF Whole
    <3>3. call.at + Kept + (i + call.len) - 1 = call.at + Kept' + i - 1
      <4>1. Kept' = Kept + call.len
        BY <1>5
      <4>2. i \in Nat
        BY <3>1
      <4>3. call.at + Kept + (i + call.len) - 1 = call.at + (Kept + call.len) + i - 1
        BY <2>0, <4>2
      <4> QED BY <4>1, <4>3
    <3> QED BY <1>4, <3>2, <3>3
  <2>4. ASSUME NEW i \in 1 .. Len(up)
        PROVE  up[i] = Byte(call.at + Kept' + Len(port') + i - 1)
    <3>1. up[i] = Byte(call.at + Kept + Len(port) + i - 1) /\ i \in Nat
      BY <1>11, <2>0 DEF Whole
    <3>2. call.at + Kept + Len(port) + i - 1 = call.at + Kept' + Len(port') + i - 1
      <4>1. Kept' = Kept + call.len /\ Len(port') = Len(port) - call.len
        BY <1>4, <1>5
      <4>2. call.at + Kept + Len(port) + i - 1
              = call.at + (Kept + call.len) + (Len(port) - call.len) + i - 1
        BY <2>0, <3>1
      <4> QED BY <4>1, <4>2
    <3> QED BY <3>1, <3>2
  <2>5. dev.address = call.at + Got
    BY <1>11 DEF Whole
  <2> QED BY <1>1, <1>2, <1>6, <2>1, <2>2, <2>3, <2>4, <2>5 DEF Whole
<1>12. StreamIsCounted'
  <2>1. Kept' = (call.n + 1) * call.len
    <3>1. call.len * (call.n + 1) = call.len * call.n + call.len
      BY <1>3, OneFewer
    <3>2. /\ (call.n + 1) * call.len = call.len * (call.n + 1)
          /\ call.n * call.len = call.len * call.n
      BY <1>3, Cancel
    <3>3. Kept = call.len * call.n /\ Kept' = Kept + call.len
      BY <1>3, <1>5, <3>2
    <3> QED BY <3>1, <3>2, <3>3
  <2>2. Whole' \/ Short'
    BY <1>3, <1>10, <1>11
  <2>3. /\ call'.pc = "data" => call.n + 1 < call.num
        /\ call'.pc # "data" => call.n + 1 = call.num
        /\ call'.pc # "done"
    <3>1. call.n \in Nat /\ call.num \in Nat /\ call.n < call.num
      BY <1>3
    <3>2. CASE last
      BY <1>2, <3>2 DEF last
    <3>3. CASE ~last
      <4>1. call.n + 1 # call.num
        BY <3>3 DEF last
      <4>2. call.n + 1 < call.num
        BY <3>1, <4>1
      <4> QED BY <1>2, <3>3, <4>2
    <3> QED BY <3>2, <3>3
  <2> QED BY <1>2, <1>3, <1>8, <2>1, <2>2, <2>3 DEF StreamIsCounted
<1>13. OnlyReads'
  BY <1>1, <1>2, <1>3, <1>7 DEF OnlyReads
<1> QED BY <1>0, <1>2, <1>12, <1>13
         DEF IInv, QuietAtRest, OneIsOut, OnlyThisOne, ReadIsSetUp, OthersForget,
             RetriesLeft, MemoIsTrue, Waits, Setting

(* An answer that is short is thrown away with the region. *)
LEMMA DataTimeoutKeeps == IInv /\ DataTimeout => IInv'
<1> SUFFICES ASSUME IInv, DataTimeout PROVE IInv'
  OBVIOUS
<1>0. TypeOK' BY TypeRead DEF IInv
<1>1. /\ call.pc = "data" /\ call'.pc = "drop" /\ call'.len = call.len
      /\ dev' = dev /\ memo' = memo /\ down' = down
  BY DEF IInv, TypeOK, Calls, DataTimeout
<1>2. OnlyReads'
  BY <1>1 DEF IInv, OnlyReads, Reading
<1> QED BY <1>0, <1>1, <1>2
         DEF IInv, QuietAtRest, OneIsOut, OnlyThisOne, ReadIsSetUp, OthersForget,
             RetriesLeft, MemoIsTrue, StreamIsCounted, Waits, Setting

(* Every reply asked for has been read: a stream that is counted whole owes *)
(* nothing then, and one that is short cannot have come so far.             *)
LEMMA AllRead ==
  ASSUME IInv, call.pc \in {"check", "done"}
  PROVE  /\ Whole /\ Kept = call.len * call.num
         /\ down = << >> /\ up = << >> /\ port = << >>
<1>1. /\ call.n = call.num /\ call.issued = call.num /\ Kept = call.n * call.len
      /\ call.len \in Nat \ {0}
      /\ Whole \/ Short
  <2>1. /\ call.n = call.num /\ call.n <= call.issued /\ call.issued <= call.num
        /\ Kept = call.n * call.len
        /\ Whole \/ Short
    BY DEF IInv, StreamIsCounted
  <2>2. call.len \in Nat \ {0}
    BY HostAssumption DEF IInv, OnlyReads, Reading
  <2>3. call.n \in Nat /\ call.num \in Nat /\ call.issued \in Nat
    BY Numbers
  <2>4. call.issued = call.num
    BY <2>1, <2>3
  <2> QED BY <2>1, <2>2, <2>4
<1>2. Kept = call.len * call.issued
  BY <1>1, Numbers, Cancel
<1>3. /\ Kept \in Nat /\ Len(port) \in Nat /\ Len(up) \in Nat
      /\ Len(down) \in Nat /\ call.len * Len(down) \in Nat
  BY Numbers
<1>4. ~Short
  BY <1>2, <1>3 DEF Short, Got
<1>5. Got + call.len * Len(down) = Kept
  BY <1>1, <1>2, <1>4 DEF Whole
<1>6. Len(port) = 0 /\ Len(up) = 0 /\ call.len * Len(down) = 0
  BY <1>3, <1>5 DEF Got
<1>7. Len(down) = 0
  BY <1>1, <1>3, <1>6
<1> QED BY <1>1, <1>2, <1>4, <1>6, <1>7 DEF IInv, TypeOK

LEMMA CheckPortKeeps == IInv /\ CheckPort => IInv'
<1> SUFFICES ASSUME IInv, CheckPort PROVE IInv'
  OBVIOUS
<1>0. TypeOK' BY TypeRead DEF IInv
<1>1. call.pc = "check" /\ port = << >> /\ down = << >> /\ up = << >>
  BY AllRead DEF CheckPort
<1>2. /\ call'.pc = "done" /\ call'.num = call.num /\ call'.len = call.len
      /\ call'.at = call.at /\ call'.n = call.n /\ call'.issued = call.issued
      /\ call'.buf = call.buf
      /\ dev' = dev /\ memo' = memo /\ down' = down /\ up' = up /\ port' = port
  BY <1>1 DEF IInv, TypeOK, Calls, CheckPort
<1>3. OnlyReads'
  BY <1>1, <1>2 DEF IInv, OnlyReads, Reading
<1>4. StreamIsCounted'
  <2>1. Kept' = Kept /\ Got' = Got
    BY <1>2 DEF Kept, Got
  <2>2. Whole'
    BY <1>1, <1>2, <2>1, AllRead DEF Whole
  <2> QED BY <1>1, <1>2, <2>1, <2>2 DEF IInv, StreamIsCounted, Nothing
<1> QED BY <1>0, <1>2, <1>3, <1>4
         DEF IInv, QuietAtRest, OneIsOut, OnlyThisOne, ReadIsSetUp, OthersForget,
             RetriesLeft, MemoIsTrue, Waits, Setting

-----------------------------------------------------------------------------
(* The invariant, and what follows from it. *)

LEMMA InitHolds == Init => IInv
<1> SUFFICES ASSUME Init PROVE IInv
  OBVIOUS
<1>1. TypeOK
  BY TypeInit
<1>2. /\ call.pc = "idle" /\ down = << >> /\ up = << >> /\ port = << >>
      /\ memo.xfer = 0 /\ memo.mode = 0
  BY DEF Init, Idle
<1> QED BY <1>1, <1>2
         DEF IInv, QuietAtRest, Nothing, OneIsOut, OnlyThisOne, ReadIsSetUp,
             OthersForget, RetriesLeft, MemoIsTrue, OnlyReads, StreamIsCounted,
             Waits, Setting, Reading

LEMMA StutterKeeps == IInv /\ UNCHANGED vars => IInv'
BY DEF IInv, vars, TypeOK, QuietAtRest, Nothing, OneIsOut, OnlyThisOne, ReadIsSetUp,
       OthersForget, RetriesLeft, MemoIsTrue, OnlyReads, StreamIsCounted, Applied,
       Holds, Pending, Whole, Short, Got, Kept

LEMMA StepKeeps == IInv /\ [Next]_vars => IInv'
<1> SUFFICES ASSUME IInv, [Next]_vars PROVE IInv'
  OBVIOUS
<1>1. CASE Link
  BY <1>1, DeviceSetKeeps, DeviceNullKeeps, DeviceReadKeeps, DeviceCutKeeps,
     DeliverKeeps, StandKeeps DEF Link
<1>2. CASE Driver
  BY <1>2, ReadROMKeeps, OtherStartKeeps, SendSetKeeps, TakeAckKeeps, WaitingKeeps,
     DrainSomeKeeps, DrainEndsKeeps, EndKeeps, FirstReadsKeeps, TakeDataKeeps,
     DataTimeoutKeeps, CheckPortKeeps DEF Driver
<1>3. CASE UNCHANGED vars
  BY <1>3, StutterKeeps
<1> QED BY <1>1, <1>2, <1>3 DEF Next

THEOREM Invariance == Spec => []IInv
<1> QED BY InitHolds, StepKeeps, PTL DEF Spec

(* Whatever is late, cut, sent again or left from an earlier call, between *)
(* calls the port is empty and nothing is owed, and every variable has its *)
(* type, with two reads at most outstanding: _drain_outstanding() leaves   *)
(* the link as the next call needs it.                                     *)
THEOREM LinkIsSound == Spec => []LinkSound
<1>1. IInv => LinkSound
  BY DEF IInv, LinkSound, QuietBetweenCalls, QuietAtRest, Nothing, Owed
<1> QED BY <1>1, Invariance, PTL

(* What ReadROM() returns is the region it was asked for, byte for byte. *)
THEOREM ReadsAreExact == Spec => []ReadExact
<1>1. ASSUME IInv PROVE ReadExact
  <2> SUFFICES ASSUME call.pc = "done"
               PROVE  call.buf = [i \in 1 .. call.num * call.len |-> Byte(call.at + i - 1)]
    BY DEF ReadExact
  <2>1. Whole /\ Kept = call.len * call.num
    BY <1>1, AllRead
  <2>2. Len(call.buf) = call.num * call.len
    <3>1. call.num \in Nat /\ call.len \in Nat
      BY <1>1, Numbers
    <3>2. call.len \in Nat \ {0}
      BY <1>1, HostAssumption DEF IInv, OnlyReads, Reading
    <3>3. call.num * call.len = call.len * call.num
      BY <3>1, <3>2, Cancel
    <3> QED BY <2>1, <3>3 DEF Kept
  <2>3. \A i \in 1 .. Len(call.buf) : call.buf[i] = Byte(call.at + i - 1)
    BY <2>1 DEF Whole, Kept
  <2>4. call.buf \in Seq(Answers)
    BY <1>1, CallFields DEF IInv, TypeOK
  <2>5. call.buf = [i \in 1 .. Len(call.buf) |-> call.buf[i]]
    BY <2>4
  <2> QED BY <2>2, <2>3, <2>5
<1> QED BY <1>1, Invariance, PTL

(* The length and the mode ReadROM() did not send, because it remembers *)
(* them, are the ones the device holds whenever it reads.               *)
THEOREM MemoryIsTrue == Spec => []MemoTrue
<1>1. ASSUME IInv PROVE MemoTrue
  <2>1. call.pc \in {"data", "check", "done"} =>
          /\ dev.xfer = call.len /\ dev.mode = 1
          /\ memo = [xfer |-> call.len, mode |-> 1]
    BY <1>1 DEF IInv, OnlyReads, Reading
  <2> QED BY <2>1 DEF MemoTrue
<1> QED BY <1>1, Invariance, PTL

(* An ACK _try_write() takes is its own command's: the device holds the value *)
(* by then, however often the command and the null bytes went out.            *)
THEOREM AcksAreOwn == Spec => AckIsOwn
<1> DEFINE Own == dev[Head(call.todo).key] = Head(call.todo).val
<1>1. ASSUME IInv, [Next]_vars, call.pc = "ack", call'.pc = "set" PROVE Own
  <2>1. CASE TakeAck
    BY <1>1, <2>1, TakeAckKeeps DEF Applied
  <2>2. CASE call' = call
    BY <1>1, <2>2
  <2>3. CASE call.pc # "ack"
    BY <1>1, <2>3
  <2>4. CASE AckTimeout
    BY <1>1, <2>4 DEF IInv, TypeOK, Calls, AckTimeout
  <2> QED BY <1>1, <2>1, <2>2, <2>3, <2>4
          DEF Next, Link, Driver, vars, DeviceSet, DeviceNull, DeviceRead, DeviceCut,
              Deliver, SlowDown, SpeedUp, ReadROM, SetElsewhere, Reconnect, SendSet,
              SendNull, TakeNullAck, NullTimeout, DrainSome, DrainEnds, DropEnds,
              SetDone, FirstReads, TakeData, DataTimeout, CheckPort, Return
<1>2. IInv /\ [Next]_vars => [call.pc = "ack" /\ call'.pc = "set" => Own]_vars
  BY <1>1
<1> QED BY <1>2, Invariance, PTL DEF Spec, AckIsOwn
=============================================================================
