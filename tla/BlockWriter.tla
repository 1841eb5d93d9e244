---------------------------- MODULE BlockWriter ----------------------------
(***************************************************************************)
(* What a FLASH_PROGRAM command promises: the block's bytes go to the chip *)
(* in order, each to the place its offset gives it, none twice and none    *)
(* after the chip has failed; the block is acknowledged only once all of   *)
(* it is there, a block that is refused has touched nothing, and the next  *)
(* block goes where an acknowledged one ended.  When the bytes arrive and  *)
(* in how many buffer loads they go out is not said.                       *)
(***************************************************************************)
EXTENDS Integers

VARIABLES
  cells,    (* every byte programmed, with its place                       *)
  phase,    (* "closed", "open", "failed", "ACK" or "ERROR"                *)
  next,     (* offset of the first byte not yet dealt with                 *)
  blk,      (* number of the block                                         *)
  base,     (* its address; closed, that of the next block                 *)
  width,    (* bytes to an address: 2 on the AGB bus, 1 on the DMG bus     *)
  span,     (* addresses the block takes                                   *)
  blank     (* its offsets that hold 0xFF                                  *)

blockVars == <<blk, base, width, span, blank>>
writerVars == <<cells, phase, next, blockVars>>

Init ==
  /\ cells = {}
  /\ phase = "closed"
  /\ next = 0

(* Between two blocks the host may choose another kind of block. *)
Choose ==
  /\ phase = "closed"
  /\ UNCHANGED <<cells, phase, next, blk>>

Open ==
  /\ phase = "closed"
  /\ phase' = "open"
  /\ blk' = blk + 1
  /\ UNCHANGED <<cells, next, base, width, span>>

Length == span * width

(* The cell offset o of the block belongs to, holding it. *)
Placed(o) ==
  [addr |-> base + o \div width, lane |-> o % width,
   byte |-> [blk |-> blk, off |-> o]]

(* Bytes next .. upto - 1 go to the chip; one that is 0xFF need not. *)
Sends(upto) ==
  \E skipped \in SUBSET blank :
    cells' = cells \cup {Placed(o) : o \in (next..upto - 1) \ skipped}

Write ==
  /\ phase = "open"
  /\ next' > next
  /\ next' <= Length
  /\ Sends(next')
  /\ UNCHANGED <<phase, blockVars>>

(* The chip times out on some of them, which it may or may not have taken. *)
Fail ==
  /\ phase = "open"
  /\ phase' = "failed"
  /\ \/ UNCHANGED cells
     \/ \E upto \in next + 1..Length : Sends(upto)
  /\ UNCHANGED <<next, blockVars>>

Accept ==
  /\ phase = "open"
  /\ next = Length
  /\ phase' = "ACK"
  /\ next' = 0
  /\ UNCHANGED <<cells, blockVars>>

(* An error means that the chip failed, or that nothing was programmed. *)
Reject ==
  /\ phase = "failed" \/ (phase = "open" /\ next = 0)
  /\ phase' = "ERROR"
  /\ next' = 0
  /\ UNCHANGED <<cells, blockVars>>

(* The answer is out.  A block that was refused leaves the address alone. *)
Answer ==
  /\ phase \in {"ACK", "ERROR"}
  /\ phase' = "closed"
  /\ base' = base + span \/ (phase = "ERROR" /\ base' = base)
  /\ UNCHANGED <<cells, next, blk, width, span, blank>>

(* The host is gone before its block was complete. *)
Abandon ==
  /\ phase \in {"open", "failed"}
  /\ phase' = "closed"
  /\ next' = 0
  /\ UNCHANGED <<cells, blockVars>>

Next ==
  Choose \/ Open \/ Write \/ Fail \/ Accept \/ Reject \/ Answer \/ Abandon

Spec == Init /\ [][Next]_writerVars
=============================================================================
