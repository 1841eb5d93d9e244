----------------------------- MODULE ByteStream -----------------------------
(***************************************************************************)
(* What the transmit side of the USB layer promises its callers: the bytes *)
(* they hand over reach the host in order, each at most once, and the only *)
(* bytes that never arrive are a suffix of what was still owed, dropped    *)
(* when a transfer is abandoned or a new host session begins.              *)
(*                                                                         *)
(* A byte is identified by the number under which it was produced.         *)
(***************************************************************************)
EXTENDS Naturals, Sequences

VARIABLES
  made,   (* bytes produced so far                          *)
  owed,   (* produced, neither delivered nor dropped: a queue *)
  host    (* every byte the host has received, in order     *)

streamVars == <<made, owed, host>>

Init ==
  /\ made = 0
  /\ owed = <<>>
  /\ host = <<>>

(* The firmware hands the next bytes to the stream. *)
Produce ==
  /\ made' \in Nat
  /\ made' > made
  /\ owed' = owed \o [i \in 1..(made' - made) |-> made + i]
  /\ UNCHANGED host

(* The host takes one packet off the front of what is owed. *)
Deliver ==
  \E k \in 1..Len(owed) :
    /\ host' = host \o SubSeq(owed, 1, k)
    /\ owed' = SubSeq(owed, k + 1, Len(owed))
    /\ UNCHANGED made

(* An abandoned transfer or a new session drops a suffix of what is owed. *)
Withdraw ==
  \E k \in 0..Len(owed) :
    /\ owed' = SubSeq(owed, 1, k)
    /\ UNCHANGED <<made, host>>

Next == Produce \/ Deliver \/ Withdraw

Spec == Init /\ [][Next]_streamVars
=============================================================================
