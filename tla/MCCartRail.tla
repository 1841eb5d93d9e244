----------------------------- MODULE MCCartRail -----------------------------
(* A small instance of CartRail for TLC: the times keep their order and,   *)
(* roughly, their ratios (10, 100, 300 and 1000 ms), and the clock's half  *)
(* range comes down from 2^31 to a little above them.                      *)
EXTENDS CartRail
=============================================================================
