------------------------------ MODULE Dispatch ------------------------------
(***************************************************************************)
(* From received bytes to answered commands: the parser of src/proto.c,    *)
(* fw_main()'s receive loop in src/main.c, and the seam to LK's dispatcher *)
(* in src/lk_glue.c.  Three readers take bytes off one stream that has no  *)
(* framing: the parser a batch at a time, the wait loop while a payload is *)
(* open, and fw_lk_conn_recv() inside a routed command.                    *)
(*                                                                         *)
(* A byte is [c, i]: the i-th of command c, which is what the host meant;  *)
(* the device only ever sees its value.  The receive ring below is UsbRx,  *)
(* the answers' way back UsbTx: here they are the sequence `wire', from    *)
(* which any number of bytes may have arrived, and the record `answer'.    *)
(***************************************************************************)
EXTENDS Wire, Integers, Sequences, FiniteSets

CONSTANTS
  PayloadMax,   (* units in P.pay: FW_PAYLOAD_MAX                           *)
  TransferMax,  (* FW_MAX_TRANSFER                                          *)
  BatchMax,     (* FW_BATCH_MAX and FW_LK_BATCH_ADMIT                       *)
  LkPayloadMax, (* FW_LK_PAYLOAD_ADMIT                                      *)
  RxMax,        (* bytes per receive batch: FW_RX_BUF_BYTES                 *)
  PayloadByte,  (* the value of every payload byte                          *)
  Sizes, Counts,(* transfer sizes and pair counts the host uses             *)
  Window,       (* bound: commands the host has unanswered                  *)
  MaxCmds,      (* bound: commands sent                                     *)
  QuickReset    (* may a reset and enumeration fit inside one long wait?    *)

ASSUME DispatchAssumption ==
  /\ {PayloadMax, TransferMax, BatchMax, LkPayloadMax, RxMax} \subseteq Nat \ {0}
  /\ Sizes \subseteq 1..TransferMax
  /\ Counts \subseteq Nat
  /\ {PayloadByte, Window, MaxCmds} \subseteq Nat
  /\ QuickReset \in BOOLEAN

VARIABLES
  (* the static P of proto.c, and `seen'/`since' of fw_proto_tick() *)
  P, moved, stale,
  (* fw_state_t *)
  mode, transfer_size, page_terminator_due,
  (* fw_main(): position, receive batch, link edge, wait-loop deadline *)
  pc, batch, was_configured, late,
  (* a command inside lk_loop(): bytes it still wants *)
  lk,
  (* the last answer, and whose bytes the current command is made of *)
  answer, parts,
  (* link and host *)
  configured, wire, alive, away, host_size, awaiting, sent

parserVars == <<P, moved, stale>>
stateVars  == <<mode, transfer_size, page_terminator_due>>
loopVars   == <<pc, batch, was_configured, late>>
hostVars   == <<configured, wire, alive, away, host_size, sent>>

vars == <<parserVars, stateVars, loopVars, lk, answer, parts, hostVars, awaiting>>

------------------------------------------------------------------------------
MinOf(a, b) == IF a < b THEN a ELSE b

MaxOf(a, b) == IF a < b THEN b ELSE a

Byte(c, i) == [c |-> c, i |-> i]

Answer(id, kind, n) == [id |-> id, kind |-> kind, n |-> n]

(* What the device reads in a byte: an opcode, an argument whose last unit  *)
(* carries the value, or payload.                                           *)
ValueOf(b) ==
  IF b.i = 1 THEN b.c.op
  ELSE IF b.i <= 1 + SentArgs(b.c.op) THEN b.c.n ELSE PayloadByte

Arrived(c, bytes) == \E k \in 1..Len(bytes) : bytes[k] = Byte(c, SentLength(c))

(* parser_reset(). *)
ParserReset ==
  [op |-> 0, need |-> 0, got |-> 0, arg |-> 0,
   pay_need |-> 0, pay_got |-> 0, pay_over |-> FALSE]

(* fw_proto_idle(). *)
Idle == P.op = 0 /\ P.pay_need = 0

(* arg_len(), two units standing for the longer headers. *)
ArgLen(op) ==
  IF op = CMD_PING THEN 1 ELSE IF op \in {CMD_SET_SIZE, CMD_BATCH} THEN 2 ELSE 0

(* Variant: the declared length truncated to the buffer. *)
PayloadLenTruncated(op, arg) ==
  IF op \in SizedOps THEN MinOf(transfer_size, PayloadMax)
  ELSE IF op = CMD_BATCH THEN MinOf(arg, PayloadMax) ELSE 0

(* payload_len(). *)
PayloadLen(op, arg) ==
  IF op \in SizedOps THEN transfer_size
  ELSE IF op = CMD_BATCH THEN arg ELSE 0

(* Variant: complete only when one unit more than declared is in. *)
CompleteLate(got, need) == got > need

Complete(got, need) == got >= need

------------------------------------------------------------------------------
(* Answering.  Once the command's bytes are in, its deferred work runs and  *)
(* its answer is queued before the next byte is looked at.                  *)

Answered(c, kind, n) ==
  /\ answer' = Answer(c.id, kind, n)
  /\ awaiting' = {d \in awaiting : d.id # c.id}

NotAnswered(c) ==
  /\ UNCHANGED answer
  /\ awaiting' = {d \in awaiting : d.id # c.id}

(* execute() samples and clears the flag; only the 3D read sets it again. *)
TerminatorAfter(op) == op = CMD_READ_3D

(* execute(): a command without a payload.  A payload command whose length  *)
(* turned out to be zero lands here too, and is refused.                    *)
Execute(op, arg, c) ==
  /\ page_terminator_due' = TerminatorAfter(op)
  /\ mode' = CASE op = CMD_SET_MODE_AGB -> "AGB"
               [] op = CMD_SET_MODE_DMG -> "DMG"
               [] OTHER -> mode
  /\ transfer_size' = IF op = CMD_SET_SIZE THEN MinOf(arg, TransferMax)
                      ELSE transfer_size
  /\ CASE op = CMD_PING -> Answered(c, "PONG", arg)
       [] op \in ReadOps -> Answered(c, "DATA", transfer_size)
       [] op = CMD_RESYNC /\ page_terminator_due -> NotAnswered(c)
       [] op = CMD_RESYNC /\ ~page_terminator_due -> Answered(c, "ACK", 0)
       [] op \in {CMD_SET_MODE_AGB, CMD_SET_MODE_DMG, CMD_SET_SIZE}
            -> Answered(c, "ACK", 0)
       [] op \in PayloadOps -> Answered(c, "ERROR", 0)
       [] OTHER -> NotAnswered(c)

(* payload_done(), and do_flash_program()'s verdict where it has one. *)
Verdicts(op, arg) ==
  IF op = CMD_BATCH /\ arg > BatchMax THEN {"ERROR"}
  ELSE IF op = CMD_FLASH_PROGRAM THEN {"ACK", "ERROR"} ELSE {"ACK"}

(* Variant: a payload the buffer could not hold is acted on all the same. *)
PayloadVerdictsUnchecked == Verdicts(P.op, P.arg)

PayloadVerdicts == IF P.pay_over THEN {"ERROR"} ELSE Verdicts(P.op, P.arg)

(* The header is in: open the payload phase, or execute. *)
HeaderDone(op, arg, c) ==
  LET n == PayloadLen(op, arg) IN
  IF n # 0
    THEN /\ P' = [P EXCEPT !.op = op, !.arg = arg, !.pay_need = n,
                           !.pay_over = n > PayloadMax]
         /\ UNCHANGED <<stateVars, answer, awaiting>>
    ELSE /\ P' = ParserReset
         /\ Execute(op, arg, c)

------------------------------------------------------------------------------
(* fw_main(): the top of the loop. *)

(* Variant: the timeout looks at an open argument list only. *)
TickExpiresArgsOnly == ~moved /\ stale /\ P.pay_need = 0

(* fw_proto_tick(): two seconds in which no byte came. *)
TickExpires == ~moved /\ stale

(* Variant: a change of the configured state goes unnoticed. *)
LinkEdgeMissed == FALSE

LinkEdge == configured # was_configured

(* fw_proto_tick(), then fw_proto_link_reset() on either edge. *)
Top ==
  /\ pc = "top"
  /\ P' = IF (~Idle /\ TickExpires) \/ LinkEdge THEN ParserReset ELSE P
  /\ moved' = FALSE
  /\ stale' = FALSE
  /\ was_configured' = configured
  /\ away' = IF away # "long" THEN away ELSE IF moved THEN "short" ELSE "noticed"
  /\ pc' = "rx"
  /\ UNCHANGED <<stateVars, batch, late, lk, answer, parts, configured, wire,
                 alive, host_size, sent, awaiting>>

(* bl_usb_rx() of a batch. *)
TakeBatch ==
  /\ \E k \in 1..MinOf(RxMax, Len(wire)) :
       /\ batch' = SubSeq(wire, 1, k)
       /\ wire' = SubSeq(wire, k + 1, Len(wire))
  /\ pc' = "feed"
  /\ UNCHANGED <<parserVars, stateVars, was_configured, late, lk, answer, parts,
                 configured, alive, away, host_size, sent, awaiting>>

Receive == pc = "rx" /\ TakeBatch

(* Nothing there.  fw_proto_payload_remaining() decides on the wait loop. *)
ReceiveNothing ==
  /\ pc = "rx"
  /\ pc' = IF P.pay_got < P.pay_need THEN "wait" ELSE "top"
  /\ late' = FALSE
  /\ UNCHANGED <<parserVars, stateVars, batch, was_configured, lk, answer, parts,
                 hostVars, awaiting>>

(* The wait loop: no tick and no look at the link until bytes or a deadline. *)
WaitReceive == pc = "wait" /\ TakeBatch

WaitGiveUp ==
  /\ pc = "wait"
  /\ late
  /\ late' = FALSE
  /\ pc' = "top"
  /\ UNCHANGED <<parserVars, stateVars, batch, was_configured, lk, answer, parts,
                 hostVars, awaiting>>

(* The batch is done. *)
BatchDone ==
  /\ pc = "feed"
  /\ batch = <<>>
  /\ pc' = "top"
  /\ UNCHANGED <<parserVars, stateVars, batch, was_configured, late, lk, answer,
                 parts, hostVars, awaiting>>

------------------------------------------------------------------------------
(* fw_main(): a byte of the batch, or a run of payload. *)

Feeding == pc = "feed" /\ batch # <<>>

(* fw_lk_routes(): asked only between two commands. *)
Routed(op) == mode = "DMG" /\ op \in {CMD_SAVE_WRITE, CMD_BATCH}

(* fw_proto_feed(), opcode. *)
FeedOpcode ==
  LET b == Head(batch)  op == ValueOf(b) IN
  /\ Feeding
  /\ Idle
  /\ ~Routed(op)
  /\ IF ArgLen(op) = 0
       THEN HeaderDone(op, 0, b.c)
       ELSE /\ P' = [ParserReset EXCEPT !.op = op, !.need = ArgLen(op)]
            /\ UNCHANGED <<stateVars, answer, awaiting>>
  /\ moved' = TRUE
  /\ parts' = {b.c.id}
  /\ batch' = Tail(batch)
  /\ UNCHANGED <<stale, pc, was_configured, late, lk, hostVars>>

(* fw_proto_feed(), argument. *)
FeedArg ==
  LET b == Head(batch) IN
  /\ Feeding
  /\ P.op # 0
  /\ P.pay_need = 0
  /\ IF Complete(P.got + 1, P.need)
       THEN HeaderDone(P.op, ValueOf(b), b.c)
       ELSE /\ P' = [P EXCEPT !.got = @ + 1, !.arg = ValueOf(b)]
            /\ UNCHANGED <<stateVars, answer, awaiting>>
  /\ moved' = TRUE
  /\ parts' = parts \cup {b.c.id}
  /\ batch' = Tail(batch)
  /\ UNCHANGED <<stale, pc, was_configured, late, lk, hostVars>>

(* fw_proto_feed_bulk(): as much of the open payload as the batch holds.    *)
(* payload_done() does not touch page_terminator_due.                       *)
FeedPayload ==
  LET k == MinOf(P.pay_need - P.pay_got, Len(batch)) IN
  /\ Feeding
  /\ P.pay_need # 0
  /\ IF Complete(P.pay_got + k, P.pay_need)
       THEN /\ P' = ParserReset
            /\ \E v \in PayloadVerdicts : Answered(batch[k].c, v, 0)
       ELSE /\ P' = [P EXCEPT !.pay_got = @ + k]
            /\ UNCHANGED <<answer, awaiting>>
  /\ moved' = TRUE
  /\ parts' = parts \cup {batch[j].c.id : j \in 1..k}
  /\ batch' = SubSeq(batch, k + 1, Len(batch))
  /\ UNCHANGED <<stale, stateVars, pc, was_configured, late, lk, hostVars>>

------------------------------------------------------------------------------
(* fw_lk_dispatch(): lk_admit() reads the pair count ahead, lk_loop() or    *)
(* lk_refuse() takes the payload, then one answer.                          *)

NoLk == [header |-> 0, want |-> 0, refused |-> FALSE]

(* lk_admit(), and lk_refuse(): what the host declared is consumed whether   *)
(* it is admitted or not.                                                   *)
Admit(n, max) == [header |-> 0, want |-> n, refused |-> n > max]

LkStart ==
  LET b == Head(batch)  op == ValueOf(b) IN
  /\ Feeding
  /\ Idle
  /\ Routed(op)
  /\ lk' = IF op = CMD_BATCH THEN [NoLk EXCEPT !.header = 2]
           ELSE Admit(transfer_size, LkPayloadMax)
  /\ pc' = "lk"
  /\ late' = FALSE
  /\ parts' = {b.c.id}
  /\ batch' = Tail(batch)
  /\ UNCHANGED <<parserVars, stateVars, was_configured, answer, hostVars, awaiting>>

LkWants == pc = "lk" /\ lk.header + lk.want > 0

(* fw_lk_conn_recv(): the rest of the batch first, then bl_usb_rx(). *)
LkReceive ==
  LET b == Head(batch \o wire) IN
  /\ LkWants
  /\ batch \o wire # <<>>
  /\ lk' = CASE lk.header = 2 -> [lk EXCEPT !.header = 1]
             [] lk.header = 1 -> Admit(ValueOf(b), BatchMax)
             [] OTHER -> [lk EXCEPT !.want = @ - 1]
  /\ IF batch # <<>> THEN batch' = Tail(batch) /\ UNCHANGED wire
                     ELSE wire' = Tail(wire) /\ UNCHANGED batch
  /\ late' = FALSE
  /\ parts' = parts \cup {b.c.id}
  /\ UNCHANGED <<parserVars, stateVars, pc, was_configured, answer, configured,
                 alive, away, host_size, sent, awaiting>>

(* Two seconds without a byte: the rest is filled in, one error goes out.   *)
LkGiveUp ==
  /\ LkWants
  /\ batch \o wire = <<>>
  /\ late
  /\ late' = FALSE
  /\ lk' = NoLk
  /\ pc' = "feed"
  /\ answer' = Answer(0, "ERROR", 0)
  /\ UNCHANGED <<parserVars, stateVars, batch, was_configured, parts, hostVars,
                 awaiting>>

(* The command LK holds is the oldest the host awaits. *)
LkDone ==
  /\ pc = "lk"
  /\ lk.header + lk.want = 0
  /\ \E id \in parts :
       Answered([id |-> id], IF lk.refused THEN "ERROR" ELSE "ACK", 0)
  /\ lk' = NoLk
  /\ pc' = "feed"
  /\ UNCHANGED <<parserVars, stateVars, batch, was_configured, late, parts,
                 hostVars>>

------------------------------------------------------------------------------
(* The host and the link. *)

(* A command as the host frames it: with the transfer size it has set. *)
Choices ==
     [op : {CMD_SET_SIZE}, n : Sizes]
       \cup [op : {CMD_BATCH}, n : Counts]
       \cup [op : PlainOps, n : {1}]
       \cup (IF host_size = 0 THEN {} ELSE [op : SizedOps \cup ReadOps, n : {host_size}])

(* The first bytes of a session come long after its enumeration. *)
Issue ==
  /\ alive
  /\ was_configured
  /\ sent < MaxCmds
  /\ Cardinality(awaiting) < Window
  /\ \E x \in Choices :
       LET c == [id |-> sent + 1, op |-> x.op, n |-> x.n] IN
         /\ wire' = wire \o [i \in 1..SentLength(c) |-> Byte(c, i)]
         /\ awaiting' = awaiting \cup {c}
         /\ host_size' = IF c.op = CMD_SET_SIZE THEN c.n ELSE host_size
  /\ sent' = sent + 1
  /\ UNCHANGED <<parserVars, stateVars, loopVars, lk, answer, parts, configured,
                 alive, away>>

(* Commands all of whose bytes the device has, or has in reach. *)
StillDue(bytes) ==
  {c \in awaiting :
    \/ Arrived(c, bytes)
    \/ pc = "lk" /\ lk.header + lk.want = 0 /\ c.id \in parts}

(* The host process dies or closes the port; the rest of what it was        *)
(* sending never comes.                                                     *)
HostDies ==
  /\ alive
  /\ \E k \in 0..Len(wire) :
       /\ wire' = SubSeq(wire, 1, k)
       /\ awaiting' = StillDue(batch \o wire')
  /\ alive' = FALSE
  /\ away' = "short"
  /\ UNCHANGED <<parserVars, stateVars, loopVars, lk, answer, parts, configured,
                 host_size, sent>>

(* usb_bus_reset(): the ring is emptied, the device is not configured. *)
LinkReset ==
  /\ configured
  /\ configured' = FALSE
  /\ wire' = <<>>
  /\ awaiting' = StillDue(batch)
  /\ alive' = FALSE
  /\ away' = "short"
  /\ UNCHANGED <<parserVars, stateVars, loopVars, lk, answer, parts, host_size,
                 sent>>

(* A new session: usb_session_flush() at the open of the port, or           *)
(* SET_CONFIGURATION after a reset.  By then the loop has been past the     *)
(* tick that gives up, or past its top with the link down; a reset fits     *)
(* into the wait loop or fw_lk_conn_recv(), which never look at the link.   *)
SessionMayOpen ==
  IF configured THEN away = "noticed"
  ELSE ~was_configured \/ (QuickReset /\ pc \in {"wait", "lk"})

Reopen ==
  /\ ~alive
  /\ SessionMayOpen
  /\ alive' = TRUE
  /\ away' = "no"
  /\ configured' = TRUE
  /\ wire' = <<>>
  /\ awaiting' = StillDue(batch)
  /\ host_size' = 0
  /\ UNCHANGED <<parserVars, stateVars, loopVars, lk, answer, parts, sent>>

(* FW_PARSER_TIMEOUT_MS goes by without a byte. *)
Elapse ==
  /\ ~alive
  /\ wire = <<>>
  /\ stale' = ~Idle
  /\ late' = (pc \in {"wait", "lk"})
  /\ away' = IF away = "short" THEN "long" ELSE away
  /\ UNCHANGED <<P, moved, stateVars, pc, batch, was_configured, lk, answer, parts,
                 configured, wire, alive, host_size, sent, awaiting>>

------------------------------------------------------------------------------
(* Between two commands of a session under way: fw_proto_init()'s state and  *)
(* whatever mode, size and open page earlier commands have left.            *)
Init ==
  /\ P = ParserReset /\ moved = FALSE /\ stale = FALSE
  /\ mode \in {"NONE", "DMG"} /\ page_terminator_due \in BOOLEAN
  /\ transfer_size \in Sizes /\ host_size = transfer_size
  /\ pc = "top" /\ batch = <<>> /\ was_configured = TRUE /\ late = FALSE
  /\ lk = NoLk /\ answer = Answer(0, "NONE", 0) /\ parts = {}
  /\ configured = TRUE /\ wire = <<>> /\ alive = TRUE /\ away = "no"
  /\ awaiting = {} /\ sent = 0

Loop ==
  \/ Top \/ Receive \/ ReceiveNothing \/ WaitReceive \/ WaitGiveUp \/ BatchDone
  \/ FeedOpcode \/ FeedArg \/ FeedPayload
  \/ LkStart \/ LkReceive \/ LkGiveUp \/ LkDone

Environment == Issue \/ HostDies \/ LinkReset \/ Reopen \/ Elapse

Next == Loop \/ Environment

Spec == Init /\ [][Next]_vars

(* The loop keeps running, bytes on their way arrive, and time passes. *)
FairSpec ==
  Spec /\ WF_vars(Loop) /\ SF_vars(Receive) /\ WF_vars(Elapse)

------------------------------------------------------------------------------
(* Properties. *)

TypeOK ==
  /\ P.need \in {0, 1, 2} /\ P.got \in 0..P.need /\ (P.op # 0 /\ P.pay_need = 0 => P.got < P.need)
  /\ P.pay_need \in Nat /\ P.pay_got \in 0..P.pay_need
  /\ {moved, stale, page_terminator_due, was_configured, late, configured, alive} \subseteq BOOLEAN
  /\ mode \in {"NONE", "AGB", "DMG"}
  /\ transfer_size \in 1..TransferMax
  /\ pc \in {"top", "rx", "wait", "feed", "lk"}
  /\ Len(batch) <= RxMax
  /\ lk \in [header : 0..2, want : Nat, refused : BOOLEAN]
  /\ away \in {"no", "short", "long", "noticed"}
  /\ answer.kind \in {"NONE", "PONG", "DATA", "ACK", "ERROR"}

(* The device takes every byte for what the host sent it as: an opcode for  *)
(* an opcode, the next argument or payload byte of the same command for     *)
(* that.  ("Every declared byte is consumed whether or not it fits.  ...    *)
(* leaves the rest parsed as opcodes", fw_proto_feed.)                      *)
Rest == batch \o wire

NextExpected ==
  IF Idle THEN 1
  ELSE IF P.pay_need = 0 THEN 2 + P.got ELSE 2 + SentArgs(P.op) + P.pay_got

InFrame == pc # "lk" /\ Rest # <<>> => Head(Rest).i = NextExpected

(* No command is put together from two commands' bytes ("the half-sent      *)
(* command is gone", fw_proto_link_reset).                                  *)
NoMixedCommand == \A x, y \in parts : x = y

(* The parser is sound: its counts have their ranges, the next byte is what *)
(* it takes it for, and one command's bytes are not joined to another's,    *)
(* whichever of the three readers took them and whoever went away meanwhile. *)
ParserSound == TypeOK /\ InFrame /\ NoMixedCommand

(* Byte by byte, batch by batch, through two dispatchers, the device is a   *)
(* server of whole commands: each answered once, in order, by its kind.     *)
Server == INSTANCE CommandServer WITH
  Sizes <- Sizes,
  SurelyFits <- MinOf(MinOf(PayloadMax, LkPayloadMax), BatchMax),
  MayFit     <- MaxOf(MaxOf(PayloadMax, LkPayloadMax), BatchMax),
  pending    <- awaiting,
  size       <- transfer_size,
  page       <- page_terminator_due

ImplementsCommandServer == Server!Spec

(* Every command the host finished sending is answered. *)
AllAnswered == []<>(awaiting = {})

(* A half-received command does not outlive the host ("without the timeout  *)
(* the next session's handshake bytes append to a stale payload").          *)
HalfCommandDies == ~alive ~> (Idle /\ pc = "top")
=============================================================================
