------------------------------ MODULE Ep2Ctrl ------------------------------
(***************************************************************************)
(* The control register of endpoint 2, R8_UEP2_CTRL, shared without any    *)
(* hardware arbitration: the firmware owns the two response fields, the    *)
(* serial interface engine (SIE) the two toggles, and one byte store       *)
(* writes all four.  uep2_ctrl_rmw() of src/usb.c brackets its store with  *)
(* reads of the transfer flag and repairs the toggle when a transaction    *)
(* completed in between.                                                   *)
(*                                                                         *)
(* A context is a place uep2_ctrl_rmw() may be running: the thread or the  *)
(* interrupt handler.                                                      *)
(***************************************************************************)
EXTENDS Integers

VARIABLES
  ctrl,      (* R8_UEP2_CTRL                                              *)
  latched,   (* RB_UIF_TRANSFER and, with it, the token R8_USB_INT_ST      *)
             (* names; while it is not NONE the SIE is held off           *)
  rmw,       (* per context: where uep2_ctrl_rmw() is, and its locals     *)
  (* what the code cannot see *)
  seq,       (* the toggles as the two ends of the bus agreed on them     *)
  asked,     (* the response last asked for, per direction; tx_armed is   *)
             (* set exactly while that of T_RES is ACK                    *)
  unserved   (* the latched transaction has not been looked at yet        *)

regVars == <<ctrl, latched, rmw, seq, asked, unserved>>

Contexts  == {"thread", "handler"}
Fields    == {"R_RES", "T_RES"}
Responses == {"ACK", "NAK"}
Tokens    == {"IN", "OUT", "OUT_AGAIN", "EP0"}
Registers == [R_RES : Responses, T_RES : Responses, R_TOG : 0..1, T_TOG : 0..1]

(* UEPn_CTRL_BULK: OUT open, IN parked, both toggles DATA0. *)
Bulk == [R_RES |-> "ACK", T_RES |-> "NAK", R_TOG |-> 0, T_TOG |-> 0]

Away == [at |-> "out", field |-> "R_RES", to |-> "ACK", pass |-> 0, val |-> Bulk]

flag == latched # "NONE"

Flip(toggle) == 1 - toggle

With(reg, field, response) == [reg EXCEPT ![field] = response]

RegInit ==
  /\ ctrl = Bulk
  /\ latched = "NONE"
  /\ rmw = [c \in Contexts |-> Away]
  /\ seq = [R_TOG |-> 0, T_TOG |-> 0]
  /\ asked = [R_RES |-> "ACK", T_RES |-> "NAK"]
  /\ unserved = FALSE

(* usb_bus_reset() and usb_device_init(): a plain store.  The host has     *)
(* reset its own toggles as well.                                          *)
RegReset ==
  /\ ctrl' = Bulk
  /\ seq' = [R_TOG |-> 0, T_TOG |-> 0]
  /\ asked' = [R_RES |-> "ACK", T_RES |-> "NAK"]

------------------------------------------------------------------------------
(* The SIE completes a transaction: it latches the flag and the token, and  *)
(* advances the toggle of an IN or of an in-sequence OUT.  It runs only     *)
(* while the flag is clear (RB_UC_INT_BUSY).                                *)

Complete(token) ==
  /\ ~flag
  /\ latched' = token
  /\ unserved' = TRUE
  /\ UNCHANGED <<rmw, asked>>

Advance(toggle) ==
  /\ ctrl' = [ctrl EXCEPT ![toggle] = Flip(ctrl[toggle])]
  /\ seq' = [seq EXCEPT ![toggle] = Flip(seq[toggle])]

SieIn ==
  /\ ctrl.T_RES = "ACK"
  /\ Complete("IN")
  /\ Advance("T_TOG")

SieOut ==
  /\ ctrl.R_RES = "ACK"
  /\ Complete("OUT")
  /\ Advance("R_TOG")

(* A retransmission: the host missed the handshake of its last packet. *)
SieOutAgain ==
  /\ ctrl.R_RES = "ACK"
  /\ Complete("OUT_AGAIN")
  /\ UNCHANGED <<ctrl, seq>>

SieEp0 ==
  /\ Complete("EP0")
  /\ UNCHANGED <<ctrl, seq>>

------------------------------------------------------------------------------
(* uep2_ctrl_rmw(), one step per access that can meet the SIE.  With the    *)
(* flag set the SIE stands still, so what follows such a reading is one     *)
(* step with it.                                                            *)

(* The call, asking for a response in one direction. *)
Call(c, field, response) ==
  /\ rmw[c].at = "out"
  /\ rmw' = [rmw EXCEPT ![c] =
       [Away EXCEPT !.at = "check", !.field = field, !.to = response]]
  /\ asked' = With(asked, field, response)
  /\ UNCHANGED <<ctrl, latched, seq, unserved>>

Goto(c, place) == rmw' = [rmw EXCEPT ![c].at = place]

Return(c) == rmw' = [rmw EXCEPT ![c] = Away]

(* The first reading of the flag: with the window open, store at once. *)
Check(c) ==
  /\ rmw[c].at = "check"
  /\ IF flag
       THEN /\ ctrl' = With(ctrl, rmw[c].field, rmw[c].to)
            /\ Return(c)
       ELSE /\ Goto(c, "read")
            /\ UNCHANGED ctrl

Read(c) ==
  /\ rmw[c].at = "read"
  /\ rmw' = [rmw EXCEPT ![c].at = "recheck", ![c].val = ctrl]
  /\ UNCHANGED ctrl

(* Variant: one pass, as if the second were not needed. *)
LastPassIsFirst == 0

LastPass == 1

(* A flag latched since the first reading means another pass. *)
Recheck(c) ==
  /\ rmw[c].at = "recheck"
  /\ UNCHANGED ctrl
  /\ \/ ~flag /\ Goto(c, "store")
     \/ /\ flag /\ rmw[c].pass < LastPass
        /\ rmw' = [rmw EXCEPT ![c].at = "check", ![c].pass = @ + 1]
     \/ flag /\ rmw[c].pass = LastPass /\ Return(c)

Store(c) ==
  /\ rmw[c].at = "store"
  /\ ctrl' = With(rmw[c].val, rmw[c].field, rmw[c].to)
  /\ Goto(c, "verify")

(* Variant: every OUT completion taken to have advanced the toggle. *)
RepairedAlways(reg) ==
  IF latched \in {"OUT", "OUT_AGAIN"} THEN [reg EXCEPT !.R_TOG = Flip(@)]
  ELSE IF latched = "IN" THEN [reg EXCEPT !.T_TOG = Flip(@)]
  ELSE reg

(* val ^ fix: the toggle the latched token advanced, one step on. *)
Repaired(reg) ==
  IF latched = "OUT" THEN [reg EXCEPT !.R_TOG = Flip(@)]
  ELSE IF latched = "IN" THEN [reg EXCEPT !.T_TOG = Flip(@)]
  ELSE reg

(* The last reading of the flag: a transaction completed across the store. *)
Verify(c) ==
  /\ rmw[c].at = "verify"
  /\ ctrl' = IF flag
               THEN Repaired(With(rmw[c].val, rmw[c].field, rmw[c].to))
               ELSE ctrl
  /\ Return(c)

Rmw(c) ==
  /\ Check(c) \/ Read(c) \/ Recheck(c) \/ Store(c) \/ Verify(c)
  /\ UNCHANGED <<latched, seq, asked, unserved>>
=============================================================================
