------------------------------- MODULE Mathex -------------------------------
(***************************************************************************)
(* The fixed-point helpers of mathex.h.  The four rounding shifts are one  *)
(* expression: add half a unit, shift, and take one off again when the low *)
(* bits are exactly one half.  They differ in how many low bits that test  *)
(* looks at: as many as are shifted out (rshift8, rshift32), or one more   *)
(* (rshift15 casts to 16 bits, rshift23 tests the low 24 bits).            *)
(***************************************************************************)
EXTENDS Integers

INT24_MAX == 8388607
INT24_MIN == -8388608

(* half is the value of the last bit shifted out, seen the modulus of the  *)
(* bits the tie test looks at.                                             *)
RoundingShift(v, half, seen) ==
    ((v + half) \div (2 * half)) - (IF v % seen = half THEN 1 ELSE 0)

RShift8(v)  == RoundingShift(v, 128, 256)
RShift15(v) == RoundingShift(v, 16384, 65536)
RShift23(v) == RoundingShift(v, 4194304, 16777216)

ClipRange(v, lo, up) == IF v < lo THEN lo ELSE IF v > up THEN up ELSE v

(* v >> count for a v that is not negative; the result is zero long before *)
(* the power leaves the integers of TLC.                                   *)
ShiftRight(v, count) == IF count > 30 THEN 0 ELSE v \div 2 ^ count

ClampInt24(v) == ClipRange(v, INT24_MIN, INT24_MAX)

(* The shift by one that aptX_process_subband has written out by hand.     *)
RShift1(v) == ((v + 1) \div 2) - (IF v % 4 = 1 THEN 1 ELSE 0)

(* The step of a prediction tap towards its target: the half is already in *)
(* the constants of aptX_prediction_filtering (128 more than the target).  *)
TapShift(v) ==
    LET tmp == v + 128
    IN  (tmp \div 256) - (IF tmp % 512 = 256 THEN 1 ELSE 0)

(* The last step of aptX_quantize_difference_.., a shift by three.         *)
DistanceShift(v) == ((v + 4) \div 8) - (IF (32 * v) % 256 = 128 THEN 1 ELSE 0)

-----------------------------------------------------------------------------
(* Reference definitions                                                   *)

Nearest(v, unit, r) == -unit <= 2 * (v - unit * r) /\ 2 * (v - unit * r) <= unit

(* An exact half goes to the smaller neighbour.                            *)
IsHalfDown(v, unit, r) == Nearest(v, unit, r) /\ 2 * (v - unit * r) # -unit

(* An exact half goes to the even neighbour.                               *)
IsHalfEven(v, unit, r) ==
    /\ Nearest(v, unit, r)
    /\ 2 * (v - unit * r) \in {unit, -unit} => r % 2 = 0
=============================================================================
