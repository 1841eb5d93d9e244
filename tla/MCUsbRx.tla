------------------------------- MODULE MCUsbRx -------------------------------
(* Small instances of UsbRx for TLC: a ring of two packets of two units, so  *)
(* that a packet straddles its end, and indices that wrap after two rings.   *)
EXTENDS UsbRx
=============================================================================
