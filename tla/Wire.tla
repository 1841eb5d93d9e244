-------------------------------- MODULE Wire --------------------------------
(***************************************************************************)
(* The vocabulary both ends of the FlashGBX wire protocol share: opcodes   *)
(* of include/proto.h, one for each way a command is framed and answered,  *)
(* and how many bytes the host sends for each.  There is no length prefix. *)
(*                                                                         *)
(* A command is a record [id, op, n]; n is its value: the new transfer     *)
(* size, the pair count, the payload length.  Argument and payload bytes   *)
(* are counted in units.                                                   *)
(***************************************************************************)
EXTENDS Naturals

CMD_RESYNC        == \h00
CMD_SET_MODE_AGB  == \hA2
CMD_SET_MODE_DMG  == \hA3
CMD_SET_SIZE      == \hA6  (* SET_VARIABLE of VAR16_TRANSFER_SIZE          *)
CMD_SAVE_WRITE    == \hB3  (* CMD_DMG_CART_WRITE_SRAM and its like         *)
CMD_CART_READ     == \hC1  (* CMD_AGB_CART_READ                            *)
CMD_READ_3D       == \hC8  (* CMD_AGB_CART_READ_3D_MEMORY                  *)
CMD_FLASH_PROGRAM == \hD3
CMD_BATCH         == \hD4  (* CMD_CART_WRITE_FLASH_CMD                     *)
CMD_PING          == \hFE

ReadOps == {CMD_CART_READ, CMD_READ_3D}

(* Commands followed by TRANSFER_SIZE raw bytes. *)
SizedOps == {CMD_SAVE_WRITE, CMD_FLASH_PROGRAM}

PayloadOps == SizedOps \cup {CMD_BATCH}

PlainOps == {CMD_RESYNC, CMD_SET_MODE_AGB, CMD_SET_MODE_DMG, CMD_PING}

(* What the host puts on the wire: opcode, arguments, payload. *)
SentArgs(op) ==
  IF op = CMD_PING THEN 1 ELSE IF op \in {CMD_SET_SIZE, CMD_BATCH} THEN 2 ELSE 0

SentPayload(c) == IF c.op \in PayloadOps THEN c.n ELSE 0

SentLength(c) == 1 + SentArgs(c.op) + SentPayload(c)
=============================================================================
