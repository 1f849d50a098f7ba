-------------------------- MODULE PredictionFilter --------------------------
(***************************************************************************)
(* The transversal half of the predictor, aptX_prediction_filtering: taps  *)
(* arr1 over the last Width reconstructed differences.  The differences    *)
(* are kept in arr2, a ring of twice the width in which each is written    *)
(* twice, so that a window of Width entries never wraps.  The sums the     *)
(* taps are used in (unk6, unk7, unk8) are the signal path and left out.   *)
(***************************************************************************)
EXTENDS Mathex

CONSTANTS
    Width,        \* filter_width of the subband
    Differences   \* reconstructed differences (unk11) that occur

ASSUME WidthAssumption == Width \in Nat \ {0}
ASSUME DifferencesAssumption == Differences \subseteq Int

Taps == 0..Width - 1

VARIABLES
    i,      \* where the newest difference is
    arr1,   \* the taps
    arr2,   \* the differences, each one twice
    factor  \* history variable: what each tap was last multiplied with

ring == <<i, arr1, arr2, factor>>

(* A tap is drawn towards one end of its range when the new difference and *)
(* the old one it stands for agree in sign, towards the other end when     *)
(* they do not, and back to zero when the new one is zero.                 *)
Target(a, old) ==
    IF a = 0 THEN 0
    ELSE IF (a < 0) = (old < 0) THEN 8388608
    ELSE -8388608

(* A slip: the shift rounds up.                                            *)
TapRoundsUp(t, a, old) == t + ((Target(a, old) - t + 255) \div 256)

Tap(t, a, old) == t + TapShift(Target(a, old) - t)

RingInit ==
    /\ i = 0
    /\ arr1 = [k \in Taps |-> 0]
    /\ arr2 = [j \in 0..2 * Width - 1 |-> 0]
    /\ factor = [k \in Taps |-> 0]

(* Slips: the index runs over the whole ring; the difference is stored     *)
(* once; it is stored before the index advances.                           *)
FilterLongRing(a) ==
    /\ arr1' = [k \in Taps |-> Tap(arr1[k], a, arr2[i + Width - k])]
    /\ factor' = [k \in Taps |-> IF k = 0 THEN a ELSE arr2[i + Width - k + 1]]
    /\ i' = (i + 1) % (2 * Width)
    /\ arr2' = [arr2 EXCEPT ![i'] = a]
FilterOnce(a) ==
    /\ arr1' = [k \in Taps |-> Tap(arr1[k], a, arr2[i + Width - k])]
    /\ factor' = [k \in Taps |-> IF k = 0 THEN a ELSE arr2[i + Width - k + 1]]
    /\ i' = (i + 1) % Width
    /\ arr2' = [arr2 EXCEPT ![i'] = a]
FilterLate(a) ==
    /\ arr1' = [k \in Taps |-> Tap(arr1[k], a, arr2[i + Width - k])]
    /\ factor' = [k \in Taps |-> IF k = 0 THEN a ELSE arr2[i + Width - k + 1]]
    /\ i' = (i + 1) % Width
    /\ arr2' = [arr2 EXCEPT ![i] = a, ![i + Width] = a]

(* The loop reads the ring backwards from i + Width, before a is stored.   *)
Filter(a) ==
    /\ arr1' = [k \in Taps |-> Tap(arr1[k], a, arr2[i + Width - k])]
    /\ factor' = [k \in Taps |-> IF k = 0 THEN a ELSE arr2[i + Width - k + 1]]
    /\ i' = (i + 1) % Width
    /\ arr2' = [arr2 EXCEPT ![i'] = a, ![i' + Width] = a]

RingNext == \E a \in Differences : Filter(a)

RingSpec == RingInit /\ [][RingNext]_ring

-----------------------------------------------------------------------------
(* Properties                                                              *)

RingTypeOK ==
    /\ i \in 0..Width - 1
    /\ arr1 \in [Taps -> Int]
    /\ arr2 \in [0..2 * Width - 1 -> Int]
    /\ factor \in [Taps -> Int]

(* The ring read backwards from i + Width is the sequence of the last      *)
(* differences, wherever i stands.                                         *)
Window == INSTANCE SlidingWindow WITH
    Values <- Differences,
    window <- [k \in Taps |-> arr2[i + Width - k]]

SlidesLikeAWindow == Window!Spec

(* The adaptation of a tap looks at the very difference the tap was        *)
(* multiplied with for the prediction that has now turned out right or     *)
(* wrong; the two reads of the ring are a frame and an index apart.        *)
Paired == \A k \in Taps : arr2[i + Width - k] = factor[k]

(* A tap never reaches the value it is drawn to: it stops at half a step   *)
(* of the shift before it and stays a 24-bit number, which the 64-bit sum  *)
(* of products counts on.                                                  *)
TapsBounded == \A k \in Taps : -8388480 <= arr1[k] /\ arr1[k] <= 8388480
=============================================================================
