------------------------------- MODULE MCUsbTx -------------------------------
(* Small instances of UsbTx for TLC.  One packet is two units, so a unit    *)
(* stands for 32 bytes: the step in which CMD_FW_SET_LATCH counts.          *)
EXTENDS UsbTx

MCTotals == {1, 4, 7}
MCGrains == {2, 6}
(* FW_CART_LATCH * 3 = 96 bytes, a latch group of one and a half packets. *)
MCMisalignedGrains == {3}
MCReplies == {1, 5}
=============================================================================
