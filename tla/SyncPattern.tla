---------------------------- MODULE SyncPattern ----------------------------
(***************************************************************************)
(* What the encoder promises the other end of the link about framing: the  *)
(* parity of the two codewords of a frame is even, except in every eighth  *)
(* frame counted from aptxbtenc_init, where it is odd.  A receiver that    *)
(* joins late finds the frame boundary by looking for that mark.           *)
(*                                                                         *)
(* aptxbtenc_init and the last statement of aptX_insert_sync keep the      *)
(* position in the cycle (as a counter running from 7 down to 0); the mark *)
(* is what aptX_pack_codeword puts on the wire.                            *)
(***************************************************************************)
EXTENDS Integers

VARIABLES
    position,  \* frames sent since the cycle began, modulo the period
    mark       \* parity of the last frame on the wire

vars == <<position, mark>>

Period == 8

Init ==
    /\ position = 0
    /\ mark = 0

(* A frame leaves the encoder. *)
Frame ==
    /\ mark' = IF position = Period - 1 THEN 1 ELSE 0
    /\ position' = (position + 1) % Period

(* The application initialises the encoder again; the last frame it sent   *)
(* stays where it was.                                                     *)
Restart ==
    /\ position' = 0
    /\ UNCHANGED mark

Next == Frame \/ Restart

Spec == Init /\ [][Next]_vars
=============================================================================
