----------------------------- MODULE MCCartBus -----------------------------
(* Values of CartBus and BusCycles small enough to check: three address   *)
(* lines a half, an EEPROM of two address and two data bits, a clock of   *)
(* two-bit registers, pages of two bytes.                                 *)
EXTENDS CartBus, Bitwise

MCOr(a, b) == a | b

MCRegs == <<48, 49, 50, 51, 52, 53, 54, 55>>
MCPairs == {<<5, 2>>, <<0, 5>>}
MCBoot == <<9, 2, 9>>
MCStatus == <<1, 0>>
MCDate == <<1, 1>>
=============================================================================
