------------------------------ MODULE HostLink ------------------------------
(* The host driver, hw_GBFlash.py, and the link it talks over: ReadROM()  *)
(* with its second read opcode outstanding and its memory of two device   *)
(* variables, _try_write() with its resynchronisation and retries, and    *)
(* _drain_outstanding().                                                  *)
(*                                                                        *)
(* External, and modelled from how hw_GBFlash.py uses it: LK_Device's     *)
(* _write(), which waits for an ACK, its _read(), which discards a short  *)
(* answer, and the serial port.  The device takes commands in order and   *)
(* answers in order, a SET_VARIABLE and a null byte with one ACK and a    *)
(* read with TRANSFER_SIZE bytes at ADDRESS, which steps.  The link may   *)
(* stand still longer than a read of the host waits, and a device whose   *)
(* host stands still that long cuts the reply it is sending and does not  *)
(* step ADDRESS.                                                          *)
EXTENDS Naturals, Sequences, FiniteSets

CONSTANTS Lengths,      \* the lengths of one read, units
          Addresses,    \* where a region may start
          MaxReads,     \* bound: reads of one ReadROM()
          Retries,      \* 5
          Hp,           \* 20 null bytes of one resynchronisation
          MaxStalls,    \* bound: times the link stands still
          MaxCuts,      \* bound: replies the device cuts
          MaxCalls      \* bound: calls of the driver

ASSUME HostAssumption ==
  /\ Lengths \subseteq Nat \ {0} /\ Lengths # {} /\ Addresses \subseteq Nat
  /\ MaxReads \in Nat \ {0} /\ Retries \in Nat \ {0}
  /\ Hp \in Nat \ {0} /\ MaxStalls \in Nat /\ MaxCuts \in Nat /\ MaxCalls \in Nat

VARIABLES dev,     \* ADDRESS, TRANSFER_SIZE and DMG_ACCESS_MODE in the device
          down,    \* commands on their way to the device
          up,      \* what it answered, on its way to the host
          port,    \* what the host's serial port holds
          slow,    \* the link stands still
          memo,    \* _rom_var_memo: a length and a mode, 0 what is not known
          call,    \* the call in hand
          used     \* stalls, cuts and calls so far

vars == <<dev, down, up, port, slow, memo, call, used>>

Modes == {1, 2}         \* MODE_ROM_READ, and what a save read sets
Ack == [k |-> "ack", at |-> 0]
Byte(a) == [k |-> "data", at |-> a]
SetCmd(key, v) == [op |-> "set", key |-> key, val |-> v]
NullCmd == [op |-> "null", key |-> "none", val |-> 0]
ReadCmd == [op |-> "read", key |-> "none", val |-> 0]

Idle == [pc |-> "idle", todo |-> << >>, num |-> 0, len |-> 0, at |-> 0, n |-> 0,
         issued |-> 0, buf |-> << >>, retries |-> 0, hp |-> 0, sets |-> FALSE]

(* A call as it starts: what it sets, and the region it reads. *)
Start(todo, num, len, at, sets) ==
  [pc |-> "set", todo |-> todo, num |-> num, len |-> len, at |-> at, n |-> 0,
   issued |-> 0, buf |-> << >>, retries |-> Retries, hp |-> 0, sets |-> sets]

Init ==
  /\ dev \in [address : {0}, xfer : Lengths, mode : Modes]
  /\ down = << >> /\ up = << >> /\ port = << >> /\ slow = FALSE
  /\ memo = [xfer |-> 0, mode |-> 0]
  /\ call = Idle
  /\ used = [stalls |-> 0, cuts |-> 0, calls |-> 0]

-----------------------------------------------------------------------------
(* The device takes its next command. *)
DeviceSet ==
  /\ down # << >> /\ Head(down).op = "set"
  /\ dev' = [dev EXCEPT ![Head(down).key] = Head(down).val]
  /\ up' = Append(up, Ack) /\ down' = Tail(down)
  /\ UNCHANGED <<port, slow, memo, call, used>>

DeviceNull ==
  /\ down # << >> /\ Head(down).op = "null"
  /\ up' = Append(up, Ack) /\ down' = Tail(down)
  /\ UNCHANGED <<dev, port, slow, memo, call, used>>

Reply(n) == [i \in 1 .. n |-> Byte(dev.address + i - 1)]

DeviceRead ==
  /\ down # << >> /\ Head(down).op = "read"
  /\ up' = up \o Reply(dev.xfer) /\ down' = Tail(down)
  /\ dev' = [dev EXCEPT !.address = @ + dev.xfer]
  /\ UNCHANGED <<port, slow, memo, call, used>>

(* FW_TX_STALL_MS without progress: what was not sent is withdrawn. *)
DeviceCut ==
  /\ slow /\ used.cuts < MaxCuts
  /\ down # << >> /\ Head(down).op = "read"
  /\ \E n \in 0 .. dev.xfer - 1 : up' = up \o Reply(n)
  /\ down' = Tail(down)
  /\ used' = [used EXCEPT !.cuts = @ + 1]
  /\ UNCHANGED <<dev, port, slow, memo, call>>

Deliver ==
  /\ up # << >> /\ ~slow
  /\ port' = Append(port, Head(up)) /\ up' = Tail(up)
  /\ UNCHANGED <<dev, down, slow, memo, call, used>>

Owed == up # << >> \/ down # << >>

(* The link comes to a stand while an answer is awaited, not again inside *)
(* the resynchronisation that follows, and for less than Hp waits.        *)
SlowDown ==
  /\ ~slow /\ Owed /\ call.pc \in {"ack", "data"} /\ used.stalls < MaxStalls
  /\ slow' = TRUE
  /\ used' = [used EXCEPT !.stalls = @ + 1]
  /\ UNCHANGED <<dev, down, up, port, memo, call>>

SpeedUp ==
  /\ slow /\ slow' = FALSE
  /\ UNCHANGED <<dev, down, up, port, memo, call, used>>

-----------------------------------------------------------------------------
(* ReadROM(): what has to be set first.  TRANSFER_SIZE and the access mode *)
(* only when the memory does not hold them.                                *)
ToSet(at, len) ==
  (IF memo.xfer = len THEN << >> ELSE << SetCmd("xfer", len) >>)
    \o << SetCmd("address", at) >>
    \o (IF memo.mode = 1 THEN << >> ELSE << SetCmd("mode", 1) >>)

ReadROM ==
  /\ call.pc = "idle" /\ used.calls < MaxCalls
  /\ \E at \in Addresses, len \in Lengths, num \in 1 .. MaxReads :
       call' = Start(ToSet(at, len), num, len, at, FALSE)
  /\ used' = [used EXCEPT !.calls = @ + 1]
  /\ UNCHANGED <<dev, down, up, port, slow, memo>>

(* Some other code of the host sets one of the variables. *)
SetElsewhere ==
  /\ call.pc = "idle" /\ used.calls < MaxCalls
  /\ \E c \in {SetCmd("xfer", n) : n \in Lengths} \cup {SetCmd("mode", m) : m \in Modes} :
       call' = Start(<<c>>, 0, 0, 0, TRUE)
  /\ used' = [used EXCEPT !.calls = @ + 1]
  /\ UNCHANGED <<dev, down, up, port, slow, memo>>

(* The device was unplugged, or restarted, between two calls: its variables *)
(* are anything, and Initialize() sets TRANSFER_SIZE as its first command.  *)
Reconnect ==
  /\ call.pc = "idle" /\ used.calls < MaxCalls
  /\ dev' \in [address : {0}, xfer : Lengths, mode : Modes]
  /\ \E n \in Lengths : call' = Start(<< SetCmd("xfer", n) >>, 0, 0, 0, TRUE)
  /\ used' = [used EXCEPT !.calls = @ + 1]
  /\ UNCHANGED <<down, up, port, slow, memo>>

(* Mutant: the memory survives a write to what it remembers. *)
SendSetRemembering ==
  /\ call.pc = "set" /\ call.todo # << >>
  /\ down' = Append(down, Head(call.todo))
  /\ call' = [call EXCEPT !.pc = "ack"]
  /\ UNCHANGED <<dev, up, port, slow, memo, used>>

(* _set_fw_variable() forgets, _try_write() writes and waits. *)
SendSet ==
  LET c == Head(call.todo) IN
  /\ call.pc = "set" /\ call.todo # << >>
  /\ down' = Append(down, c)
  /\ memo' = IF c.key \in {"xfer", "mode"} THEN [xfer |-> 0, mode |-> 0] ELSE memo
  /\ call' = [call EXCEPT !.pc = "ack"]
  /\ UNCHANGED <<dev, up, port, slow, used>>

NextSet(c) == [c EXCEPT !.pc = "set", !.todo = Tail(@), !.retries = Retries]

(* Any byte will do: one that is no ACK would be refused, one that happens *)
(* to look like an ACK is the one to fear.                                 *)
TakeAck ==
  /\ call.pc = "ack" /\ port # << >>
  /\ port' = Tail(port)
  /\ call' = NextSet(call)
  /\ UNCHANGED <<dev, down, up, slow, memo, used>>

AckTimeout ==
  /\ call.pc = "ack" /\ port = << >> /\ slow
  /\ call' = [call EXCEPT !.pc = "resync", !.hp = Hp, !.retries = @ - 1]
  /\ UNCHANGED <<dev, down, up, port, slow, memo, used>>

(* One turn of the resynchronisation: the port emptied, a null byte, and *)
(* the next byte taken for its answer.                                   *)
SendNull ==
  /\ call.pc = "resync" /\ call.hp > 0
  /\ port' = << >> /\ down' = Append(down, NullCmd)
  /\ call' = [call EXCEPT !.pc = "nullack", !.hp = @ - 1]
  /\ UNCHANGED <<dev, up, slow, memo, used>>

TakeNullAck ==
  /\ call.pc = "nullack" /\ port # << >>
  /\ port' = Tail(port)
  /\ call' = [call EXCEPT !.pc = "drain"]
  /\ UNCHANGED <<dev, down, up, slow, memo, used>>

NullTimeout ==
  /\ call.pc = "nullack" /\ port = << >> /\ slow /\ call.hp > 0
  /\ call' = [call EXCEPT !.pc = "resync"]
  /\ UNCHANGED <<dev, down, up, port, slow, memo, used>>

(* _drain_outstanding() throws away what comes, and ends after 20 quiet   *)
(* looks of 10 ms: on a link that moves, longer than any answer takes.    *)
(* Assumed: a stand that outlasted a read's wait is over before 0.2 s of  *)
(* quiet are.  The drain's own deadline of 2.0 s is left out.             *)
DrainSome ==
  /\ call.pc \in {"drain", "drop"} /\ port # << >>
  /\ port' = << >>
  /\ UNCHANGED <<dev, down, up, slow, memo, call, used>>

Quiet == port = << >> /\ ~slow /\ ~Owed

(* Mutant: the first ACK after a resynchronisation is taken for the last *)
(* one owed, and the port is not drained.                                *)
DrainEndsAtOnce ==
  /\ call.pc = "drain"
  /\ call' = IF call.retries > 0 THEN [call EXCEPT !.pc = "set"] ELSE NextSet(call)
  /\ UNCHANGED <<dev, down, up, port, slow, memo, used>>

(* After a resynchronisation: the command again, or, its retries used up,  *)
(* the next one: ReadROM() does not look at what _set_fw_variable() gives. *)
DrainEnds ==
  /\ call.pc = "drain" /\ Quiet
  /\ call' = IF call.retries > 0 THEN [call EXCEPT !.pc = "set"] ELSE NextSet(call)
  /\ port' = << >>
  /\ UNCHANGED <<dev, down, up, slow, memo, used>>

(* Mutant: a failed read returns with its other answer still to come. *)
DropEndsAtOnce ==
  /\ call.pc = "drop" /\ port = << >>
  /\ call' = Idle
  /\ UNCHANGED <<dev, down, up, port, slow, memo, used>>

(* After a failed read: the call returns nothing. *)
DropEnds ==
  /\ call.pc = "drop" /\ Quiet
  /\ call' = Idle /\ port' = << >>
  /\ UNCHANGED <<dev, down, up, slow, memo, used>>

SetDone ==
  /\ call.pc = "set" /\ call.todo = << >> /\ call.sets
  /\ call' = Idle
  /\ UNCHANGED <<dev, down, up, port, slow, memo, used>>

Reads(n) == [i \in 1 .. n |-> ReadCmd]

(* The variables are set, or so it takes it: they are remembered, and the *)
(* first read goes out with the second behind it.                         *)
FirstReads ==
  LET k == IF call.num > 1 THEN 2 ELSE 1 IN
  /\ call.pc = "set" /\ call.todo = << >> /\ ~call.sets
  /\ memo' = [xfer |-> call.len, mode |-> 1]
  /\ down' = down \o Reads(k)
  /\ call' = [call EXCEPT !.pc = "data", !.issued = k]
  /\ UNCHANGED <<dev, up, port, slow, used>>

(* A whole answer: the loop comes round, and asks for one more. *)
TakeData ==
  LET last == call.n + 1 = call.num
      more == ~last /\ call.issued < call.num IN
  /\ call.pc = "data" /\ Len(port) >= call.len
  /\ port' = SubSeq(port, call.len + 1, Len(port))
  /\ down' = IF more THEN Append(down, ReadCmd) ELSE down
  /\ call' = [call EXCEPT !.pc = IF last THEN "check" ELSE "data",
                          !.buf = @ \o SubSeq(port, 1, call.len), !.n = @ + 1,
                          !.issued = IF more THEN @ + 1 ELSE @]
  /\ UNCHANGED <<dev, up, slow, memo, used>>

(* Mutant: the read that failed is asked for again where it failed. *)
DataTimeoutAsksAgain ==
  /\ call.pc = "data" /\ Len(port) < call.len
  /\ (slow \/ ~Owed) /\ Len(down) < 2
  /\ port' = << >> /\ down' = Append(down, ReadCmd)
  /\ UNCHANGED <<dev, up, slow, memo, call, used>>

(* Mutant: a link that moves is waited for, a cut answer or none. *)
DataTimeoutWhenSlow ==
  /\ call.pc = "data" /\ Len(port) < call.len /\ slow
  /\ port' = << >>
  /\ call' = [call EXCEPT !.pc = "drop", !.buf = << >>]
  /\ UNCHANGED <<dev, down, up, slow, memo, used>>

DataTimeout ==
  /\ call.pc = "data" /\ Len(port) < call.len
  /\ slow \/ ~Owed
  /\ port' = << >>
  /\ call' = [call EXCEPT !.pc = "drop", !.buf = << >>]
  /\ UNCHANGED <<dev, down, up, slow, memo, used>>

(* "Every reply asked for has been read, so the port must be empty." *)
CheckPort ==
  /\ call.pc = "check"
  /\ call' = IF port = << >> THEN [call EXCEPT !.pc = "done"]
             ELSE [call EXCEPT !.pc = "drop", !.buf = << >>]
  /\ UNCHANGED <<dev, down, up, port, slow, memo, used>>

Return ==
  /\ call.pc = "done" /\ call' = Idle
  /\ UNCHANGED <<dev, down, up, port, slow, memo, used>>

Link == DeviceSet \/ DeviceNull \/ DeviceRead \/ DeviceCut \/ Deliver
          \/ SlowDown \/ SpeedUp
Driver ==
  ReadROM \/ SetElsewhere \/ Reconnect \/ SendSet \/ TakeAck \/ AckTimeout \/ SendNull
    \/ TakeNullAck \/ NullTimeout \/ DrainSome \/ DrainEnds
    \/ DropEnds \/ SetDone \/ FirstReads \/ TakeData \/ DataTimeout
    \/ CheckPort \/ Return

Next == Link \/ Driver
Spec == Init /\ [][Next]_vars

(* The device and the link go on, and so does the driver's own code; it is *)
(* the link that need not stop.                                            *)
Fairness ==
  /\ WF_vars(DeviceSet \/ DeviceNull \/ DeviceRead) /\ WF_vars(Deliver)
  /\ WF_vars(SpeedUp)
  /\ WF_vars(SendSet \/ SendNull \/ DrainSome \/ DrainEnds \/ DropEnds
               \/ SetDone \/ FirstReads \/ CheckPort \/ Return)
  /\ WF_vars(TakeAck \/ TakeNullAck \/ TakeData) /\ WF_vars(DataTimeout)
FairSpec == Spec /\ Fairness

-----------------------------------------------------------------------------
SetCmds ==
  {SetCmd("xfer", n) : n \in Lengths} \cup {SetCmd("mode", m) : m \in Modes}
    \cup {SetCmd("address", a) : a \in Addresses}
Answers == [k : {"ack", "data"}, at : Nat]

Devices == [address : Nat, xfer : Lengths, mode : Modes]
Counts == [stalls : Nat, cuts : Nat, calls : Nat]
Calls ==
  [pc : {"idle", "set", "ack", "resync", "nullack", "drain", "data", "drop",
         "check", "done"},
   todo : Seq(SetCmds), num : Nat, len : Nat, at : Nat, n : Nat, issued : Nat,
   buf : Seq(Answers), retries : 0 .. Retries, hp : 0 .. Hp, sets : BOOLEAN]

TypeOK ==
  /\ dev \in Devices
  /\ down \in Seq(SetCmds \cup {NullCmd, ReadCmd})
  /\ up \in Seq(Answers) /\ port \in Seq(Answers) /\ slow \in BOOLEAN
  /\ memo \in [xfer : Lengths \cup {0}, mode : {0, 1}]
  /\ call \in Calls /\ call.issued <= call.n + 2
  /\ used \in Counts

(* A region ReadROM() returns is the one it was asked for, byte for byte:  *)
(* no ACK, no other call's data and no gap in it, whatever was late, cut,  *)
(* sent again or remembered wrongly.                                       *)
ReadExact ==
  call.pc = "done" =>
    call.buf = [i \in 1 .. call.num * call.len |-> Byte(call.at + i - 1)]

(* An ACK taken for a SET_VARIABLE is its own: once it is taken, the device *)
(* holds the value.  A late ACK, the resynchronisation's, or an answer left *)
(* from an earlier call would let the dump run on the old value.            *)
AckIsOwn ==
  [][call.pc = "ack" /\ call'.pc = "set" =>
       dev[Head(call.todo).key] = Head(call.todo).val]_vars

(* Between calls nothing is owed: every reply asked for was read or thrown *)
(* away, so the next call's first byte is its own.                         *)
QuietBetweenCalls == call.pc = "idle" => port = << >> /\ ~Owed

(* Everything has its type, two reads at most are outstanding, and every   *)
(* call leaves the link quiet.                                             *)
LinkSound == TypeOK /\ QuietBetweenCalls

(* Whenever the opcodes of a read go out, the device holds the length and   *)
(* the mode the driver remembers, and so did not send: other code's writes, *)
(* a restart and a variable whose retries were used up included.            *)
MemoTrue ==
  call.pc \in {"data", "check", "done"} =>
    memo.xfer = call.len /\ dev.xfer = call.len /\ dev.mode = 1

(* Every call ends. *)
CallsEnd == call.pc # "idle" ~> call.pc = "idle"
=============================================================================
