--------------------------- MODULE MCFlashProgram ---------------------------
(* Small instances of FlashProgram for TLC: a payload buffer of six bytes,   *)
(* a block of an odd number of bytes and one that does not fit, and buffers  *)
(* of no byte, of one, and of three: a word and a half.                      *)
EXTENDS FlashProgram

MCBlanks == {{0, 2}}
=============================================================================
