----------------------------- MODULE Predictor ------------------------------
(***************************************************************************)
(* The recursive half of the predictor in aptX_process_subband: the two    *)
(* weights unk2 and unk3 (2 ^ 22 stands for 1.0) are steered by nothing    *)
(* but the signs of the last three reconstructed differences.  Which sign  *)
(* comes next depends on the signal path and is a choice here.             *)
(***************************************************************************)
EXTENDS Mathex

VARIABLES
    sign1,  \* sign of the previous difference, an exact zero counts as 1
    sign2,  \* the one before that
    unk2,   \* weight of the previous value
    unk3    \* weight of the value before that

weights == <<sign1, sign2, unk2, unk3>>

Signs == {-1, 0, 1}

(* What the two multiplications of each adaptation add up to, before the   *)
(* rounding shift brings them back.                                        *)
Cross(u2, s1) == ClipRange(RShift1(-u2 * s1), -1048576, 1048576)
Sum3(u2, u3, s1, s2) ==
    254 * u3 + 8388608 * s2 + 256 * (Cross(u2, s1) \div 16)
Sum2(u2, s1) == 255 * u2 + 12582912 * s1

Weight3(u2, u3, s1, s2) ==
    ClipRange(RShift8(Sum3(u2, u3, s1, s2)), -3145728, 3145728)

(* Slips: a bound that does not depend on the other weight; no bound; no   *)
(* leak.                                                                   *)
Weight2Loose(u2, u3, s1) ==
    ClipRange(RShift8(Sum2(u2, s1)), -3932160, 3932160)
Weight2Free(u2, u3, s1) == RShift8(Sum2(u2, s1))
Weight2Leakless(u2, u3, s1) ==
    ClipRange(RShift8(Sum2(u2, s1) + u2), -(3932160 - u3), 3932160 - u3)

(* u3 is the weight just computed, it bounds this one.                     *)
Weight2(u2, u3, s1) ==
    ClipRange(RShift8(Sum2(u2, s1)), -(3932160 - u3), 3932160 - u3)

(* aptX_prediction_filter_422 starts out zeroed but for the signs, which   *)
(* aptxbtenc_init sets to 1.                                               *)
WeightsInit ==
    /\ sign1 = 1
    /\ sign2 = 1
    /\ unk2 = 0
    /\ unk3 = 0

(* s is the sign of unk7 + unk11.                                          *)
ProcessSubband(s) ==
    /\ sign1' = IF s < 0 THEN -1 ELSE 1
    /\ sign2' = sign1
    /\ unk3' = Weight3(unk2, unk3, sign1 * s, sign2 * s)
    /\ unk2' = Weight2(unk2, unk3', sign1 * s)

WeightsNext == \E s \in Signs : ProcessSubband(s)

WeightsSpec == WeightsInit /\ [][WeightsNext]_weights

-----------------------------------------------------------------------------
(* Properties                                                              *)

INT32_MAX == 2147483647

WeightsTypeOK ==
    /\ sign1 \in {-1, 1}
    /\ sign2 \in {-1, 1}
    /\ unk2 \in Int
    /\ unk3 \in Int

(* The prediction x[n] = unk2 x[n-1] + unk3 x[n-2] is a stable recursion:  *)
(* both roots of its polynomial are inside the unit circle (Jury's         *)
(* criterion, 2 ^ 22 being one).  It holds after every frame, though each  *)
(* weight moves on its own and the bound of one depends on the other.      *)
Stable ==
    /\ -4194304 < unk3 /\ unk3 < 4194304
    /\ -(4194304 - unk3) < unk2 /\ unk2 < 4194304 - unk3

(* The sums of the next frame fit the int32_t variables they are computed  *)
(* in, the rounding constant included, for any signs; C leaves an overflow *)
(* undefined.  Solved for the weights, so that TLC's own integers, 32 bits *)
(* too, can tell.                                                          *)
NoOverflow ==
    LET limit2 == (INT32_MAX - 12582912 - 128) \div 255
        limit3 == (INT32_MAX - 8388608 - 16777216 - 128) \div 254
    IN  /\ -limit2 <= unk2 /\ unk2 <= limit2
        /\ -limit3 <= unk3 /\ unk3 <= limit3
=============================================================================
