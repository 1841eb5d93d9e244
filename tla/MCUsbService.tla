---------------------------- MODULE MCUsbService ----------------------------
(* Small instances of UsbService for TLC: a second idle entry, or a fourth   *)
(* entry between two polls, is one too many.                                 *)
EXTENDS UsbService
=============================================================================
