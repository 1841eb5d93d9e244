----------------------------- MODULE MCDispatch -----------------------------
(* Small instances of Dispatch for TLC.  Of the three transfer sizes, one    *)
(* fits everywhere, one only LK's buffer, one nothing; of the pair counts,   *)
(* none, as many as are admitted, and one too many.                          *)
EXTENDS Dispatch

MCSizes == {1, 2, 3}
MCCounts == {0, 1, 2}
(* Payload that reads as an opcode: the save write LK would act on. *)
MCPayloadByte == CMD_SAVE_WRITE
=============================================================================
