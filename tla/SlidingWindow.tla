---------------------------- MODULE SlidingWindow ---------------------------
(***************************************************************************)
(* What the double-length rings of the codec stand for: the last Width     *)
(* values, the newest first.                                               *)
(***************************************************************************)
EXTENDS Integers

CONSTANTS Width, Values

VARIABLE window

Init == window = [k \in 0..Width - 1 |-> 0]

Push(a) ==
    window' = [k \in 0..Width - 1 |-> IF k = 0 THEN a ELSE window[k - 1]]

Next == \E a \in Values : Push(a)

Spec == Init /\ [][Next]_window
=============================================================================
