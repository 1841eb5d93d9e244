--------------------------- MODULE CommandServer ---------------------------
(***************************************************************************)
(* What the device promises a host at the level of whole commands: each    *)
(* command is answered in its turn, once, with the answer its kind and the *)
(* transfer size in force call for; only a host that goes away loses any,  *)
(* and then the most recent ones.  How a command is cut into bytes,        *)
(* packets and receive batches is invisible here.                          *)
(***************************************************************************)
EXTENDS Wire

CONSTANTS
  SurelyFits,   (* a payload up to this many units is never too long       *)
  MayFit,       (* ... and beyond this many it always is                   *)
  Sizes         (* the transfer sizes a host sets                          *)

VARIABLES
  pending,   (* commands sent whole and not answered yet; ids count upwards *)
  answer,    (* the last answer given: [id, kind, n]                       *)
  size,      (* the transfer size                                          *)
  page,      (* the next 0x00 closes a 3D page instead of asking for an ACK *)
  alive      (* there is a host at the other end                           *)

serverVars == <<pending, answer, size, page, alive>>

Answer(id, kind, n) == [id |-> id, kind |-> kind, n |-> n]

Init ==
  /\ pending = {}
  /\ answer = Answer(0, "NONE", 0)
  /\ size \in Sizes
  /\ page \in BOOLEAN
  /\ alive = TRUE

(* A new command from the host, behind all the others. *)
Issue ==
  /\ alive
  /\ \E c \in pending' :
       /\ \A d \in pending : d.id < c.id
       /\ pending' = pending \cup {c}
  /\ UNCHANGED <<answer, size, page, alive>>

(* The answer command c gets, if it is of the given kind. *)
Legal(c, kind) ==
  \/ kind = "PONG"  /\ c.op = CMD_PING
  \/ kind = "DATA"  /\ c.op \in ReadOps
  \/ kind = "ACK"   /\ c.op \in {CMD_SET_MODE_AGB, CMD_SET_MODE_DMG, CMD_SET_SIZE}
  \/ kind = "ACK"   /\ c.op = CMD_RESYNC /\ ~page
  \/ kind = "ACK"   /\ c.op \in PayloadOps /\ c.n <= MayFit
  \/ kind = "ERROR" /\ c.op \in PayloadOps /\ (c.n = 0 \/ c.n > SurelyFits)
  \/ kind = "ERROR" /\ c.op = CMD_FLASH_PROGRAM

(* The value that goes with it: a read answers exactly `size' bytes. *)
AnswerValue(c) ==
  IF c.op \in ReadOps THEN size ELSE IF c.op = CMD_PING THEN c.n ELSE 0

(* The oldest command takes effect and is answered; a 0x00 that closes a 3D *)
(* page has no answer.  Commands with a payload may leave the page open.    *)
Serve ==
  \E c \in pending :
    /\ \A d \in pending \ {c} : c.id < d.id
    /\ pending' = pending \ {c}
    /\ \/ \E kind \in {"PONG", "DATA", "ACK", "ERROR"} :
            Legal(c, kind) /\ answer' = Answer(c.id, kind, AnswerValue(c))
       \/ c.op = CMD_RESYNC /\ page /\ UNCHANGED answer
    /\ size' = IF c.op = CMD_SET_SIZE THEN c.n ELSE size
    /\ page' \in IF c.op = CMD_READ_3D THEN {TRUE}
                 ELSE IF c.op \in PayloadOps THEN {page, FALSE} ELSE {FALSE}
    /\ UNCHANGED alive

(* The host goes away, with any number of its last commands, or is back. *)
HostLeaves ==
  /\ alive'  = FALSE
  /\ pending' \subseteq pending
  /\ \A c \in pending', d \in pending \ pending' : c.id < d.id
  /\ UNCHANGED <<answer, size, page>>

HostReturns ==
  /\ alive' = TRUE
  /\ UNCHANGED <<pending, answer, size, page>>

(* An error for a command the host never finished, answered to nobody. *)
StrayError ==
  /\ ~alive
  /\ answer' = Answer(0, "ERROR", 0)
  /\ UNCHANGED <<pending, size, page, alive>>

Next == Issue \/ Serve \/ HostLeaves \/ HostReturns \/ StrayError

Spec == Init /\ [][Next]_serverVars
=============================================================================
