------------------------------ MODULE MCMathex ------------------------------
(***************************************************************************)
(* A sweep of rshift15 over the arguments around every multiple of Stride: *)
(* Reach on both sides of each of the multiples -Multiples .. Multiples,   *)
(* the ties and the sign changes among them.                               *)
(***************************************************************************)
EXTENDS Mathex

CONSTANTS Stride, Multiples, Reach

VARIABLE v

Init == v \in {k * Stride - Reach : k \in -Multiples..Multiples}

Next ==
    /\ (v + Reach) % Stride < 2 * Reach
    /\ v' = v + 1

Spec == Init /\ [][Next]_v

(* mathex.h: "Right shift integer by 15 bits with half down rounding."     *)
Shift15HalfDown == IsHalfDown(v, 32768, RShift15(v))
=============================================================================
