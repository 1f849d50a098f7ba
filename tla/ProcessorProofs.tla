--------------------------- MODULE ProcessorProofs --------------------------
(***************************************************************************)
(* The subband processor: the ring and the taps, for every width and every *)
(* sequence of differences; the weights, for every sequence of signs; both *)
(* together; the sums of products the prediction is made of; and what is   *)
(* left of it in silence.                                                  *)
(***************************************************************************)
EXTENDS Processor, FiniteSetTheorems, TLAPS

(* Quotient and remainder are the only ones.                               *)
LEMMA DivMod ==
    ASSUME NEW m \in Nat, m > 0, NEW k \in Int, NEW a \in 0..m - 1
    PROVE  /\ (a + m * k) % m = a
           /\ (a + m * k) \div m = k
<1>1. (a + m * k) \div m = k
  OBVIOUS
<1>2. (a + m * k) = m * ((a + m * k) \div m) + ((a + m * k) % m)
  OBVIOUS
<1> QED
  BY <1>1, <1>2

(* The inductive invariant: each half of the ring mirrors the other.       *)
Mirrored == \A j \in 0..Width - 1 : arr2[j + Width] = arr2[j]

RingInv == RingTypeOK /\ Mirrored /\ Paired

(* The step of a tap is an integer.                                        *)
LEMMA TapShiftType == \A x \in Int : TapShift(x) \in Int
BY SMT DEF TapShift

(* A tap stays an integer.                                                 *)
LEMMA TapType ==
    ASSUME NEW t \in Int, NEW a, NEW old
    PROVE  Tap(t, a, old) \in Int
<1>1. Target(a, old) \in Int
  BY SMT DEF Target
<1>2. Target(a, old) - t \in Int
  BY <1>1, SMT
<1> QED
  BY <1>1, <1>2, TapShiftType, SMT DEF Tap

(* Where the next difference goes, and what the ring holds afterwards.     *)
LEMMA NextSlot ==
    ASSUME i \in 0..Width - 1
    PROVE  /\ (i + 1) % Width \in 0..Width - 1
           /\ i + 1 < Width => (i + 1) % Width = i + 1
           /\ i + 1 = Width => (i + 1) % Width = 0
<1>1. Width \in Nat /\ Width > 0
  BY WidthAssumption
<1>2. CASE i + 1 < Width
  <2>1. (i + 1 + Width * 0) % Width = i + 1
    BY <1>1, <1>2, DivMod
  <2> QED
    BY <1>1, <1>2, <2>1
<1>3. CASE i + 1 = Width
  <2>1. (0 + Width * 1) % Width = 0
    BY <1>1, DivMod
  <2>2. i + 1 = 0 + Width * 1
    BY <1>1, <1>3
  <2> QED
    BY <1>1, <1>3, <2>1, <2>2
<1> QED
  BY <1>1, <1>2, <1>3

(* Where a slot and its mirror lie, and what they keep clear of.           *)
LEMMA Slots ==
    ASSUME NEW n \in 0..Width - 1, NEW j \in 0..Width - 1
    PROVE  /\ j \in 0..2 * Width - 1 /\ j + Width \in 0..2 * Width - 1
           /\ j # n + Width /\ j + Width # n
           /\ j # n => j + Width # n + Width
           /\ j # 0 => /\ n + Width - j \in 0..2 * Width - 1
                      /\ n + Width - j # n /\ n + Width - j # n + Width
<1>1. Width \in Nat /\ Width > 0
  BY WidthAssumption
<1> QED
  BY <1>1, SMT

(* The window one entry on, wherever the ring wraps.                       *)
LEMMA RingSlides ==
    ASSUME RingTypeOK, Mirrored, NEW a \in Differences, Filter(a)
    PROVE  /\ i' \in 0..Width - 1
           /\ arr2' \in [0..2 * Width - 1 -> Int]
           /\ Mirrored'
           /\ \A k \in Taps :
                arr2'[i' + Width - k] =
                  IF k = 0 THEN a ELSE arr2[i + Width - (k - 1)]
<1>1. Width \in Nat /\ Width > 0 /\ a \in Int
  BY WidthAssumption, DifferencesAssumption
<1>2. /\ i \in 0..Width - 1
      /\ arr2 \in [0..2 * Width - 1 -> Int]
  BY DEF RingTypeOK
<1>3. i' = (i + 1) % Width
  BY DEF Filter
<1>4. i' \in 0..Width - 1
  BY <1>2, <1>3, NextSlot
<1>5. arr2' = [arr2 EXCEPT ![i'] = a, ![i' + Width] = a]
  BY DEF Filter
<1>6. i' \in 0..2 * Width - 1 /\ i' + Width \in 0..2 * Width - 1
  BY <1>4, Slots
<1>7. /\ arr2' \in [0..2 * Width - 1 -> Int]
      /\ arr2'[i'] = a
      /\ arr2'[i' + Width] = a
      /\ \A j \in 0..2 * Width - 1 :
           j # i' /\ j # i' + Width => arr2'[j] = arr2[j]
  BY <1>1, <1>2, <1>5, <1>6
<1>8. Mirrored'
  <2> SUFFICES ASSUME NEW j \in 0..Width - 1
               PROVE  arr2'[j + Width] = arr2'[j]
    BY DEF Mirrored
  <2>1. CASE j = i'
    BY <1>7, <2>1
  <2>2. CASE j # i'
    <3>1. /\ j \in 0..2 * Width - 1 /\ j + Width \in 0..2 * Width - 1
          /\ j # i' /\ j # i' + Width
          /\ j + Width # i' /\ j + Width # i' + Width
      BY <1>4, <2>2, Slots
    <3>2. arr2'[j] = arr2[j] /\ arr2'[j + Width] = arr2[j + Width]
      BY <1>7, <3>1
    <3> QED
      BY <3>2 DEF Mirrored
  <2> QED
    BY <2>1, <2>2
<1>9. ASSUME NEW k \in Taps
      PROVE  arr2'[i' + Width - k] =
               IF k = 0 THEN a ELSE arr2[i + Width - (k - 1)]
  <2>1. CASE k = 0
    <3>1. i' + Width - k = i' + Width
      BY <1>1, <1>4, <2>1
    <3> QED
      BY <1>7, <2>1, <3>1
  <2>2. CASE k # 0
    <3>1. k \in 1..Width - 1
      BY <1>1, <2>2 DEF Taps
    <3>2. /\ i' + Width - k \in 0..2 * Width - 1
          /\ i' + Width - k # i' /\ i' + Width - k # i' + Width
      BY <1>4, <2>2, Slots DEF Taps
    <3>3. arr2'[i' + Width - k] = arr2[i' + Width - k]
      BY <1>7, <3>2
    <3>4. CASE i + 1 < Width
      <4>1. i' + Width - k = i + Width - (k - 1)
        BY <1>1, <1>2, <1>3, <3>1, <3>4, NextSlot
      <4> QED
        BY <2>2, <3>3, <4>1
    <3>5. CASE i + 1 = Width
      <4>1. i' = 0
        BY <1>2, <1>3, <3>5, NextSlot
      <4>2. i' + Width - k = Width - k /\ Width - k \in 0..Width - 1
        BY <1>1, <3>1, <4>1
      <4>3. i + Width - (k - 1) = (Width - k) + Width
        BY <1>1, <1>2, <3>1, <3>5
      <4>4. arr2[(Width - k) + Width] = arr2[Width - k]
        BY <4>2 DEF Mirrored
      <4> QED
        BY <2>2, <3>3, <4>2, <4>3, <4>4
    <3> QED
      BY <1>1, <1>2, <3>4, <3>5
  <2> QED
    BY <2>1, <2>2
<1> QED
  BY <1>4, <1>7, <1>8, <1>9

(* Every step preserves the inductive invariant.                           *)
LEMMA RingStep == RingInv /\ [RingNext]_ring => RingInv'
<1> SUFFICES ASSUME RingInv, [RingNext]_ring PROVE RingInv'
  OBVIOUS
<1>1. Width \in Nat /\ Width > 0
  BY WidthAssumption
<1>2. ASSUME NEW a \in Differences, Filter(a) PROVE RingInv'
  <2>1. RingTypeOK /\ Mirrored
    BY DEF RingInv
  <2>2. /\ i' \in 0..Width - 1
        /\ arr2' \in [0..2 * Width - 1 -> Int]
        /\ Mirrored'
        /\ \A k \in Taps :
             arr2'[i' + Width - k] =
               IF k = 0 THEN a ELSE arr2[i + Width - (k - 1)]
    BY <1>2, <2>1, RingSlides
  <2>3. arr1' \in [Taps -> Int]
    <3>1. arr1' = [k \in Taps |-> Tap(arr1[k], a, arr2[i + Width - k])]
      BY <1>2 DEF Filter
    <3>2. \A k \in Taps : arr1[k] \in Int
      BY <2>1 DEF RingTypeOK
    <3> QED
      BY <3>1, <3>2, TapType
  <2>4. factor' = [k \in Taps |-> IF k = 0 THEN a ELSE arr2[i + Width - k + 1]]
    BY <1>2 DEF Filter
  <2>5. i \in 0..Width - 1 /\ arr2 \in [0..2 * Width - 1 -> Int] /\ a \in Int
    BY <2>1, DifferencesAssumption DEF RingTypeOK
  <2>6. ASSUME NEW k \in Taps, k # 0
        PROVE  /\ i + Width - k + 1 = i + Width - (k - 1)
               /\ i + Width - k + 1 \in 0..2 * Width - 1
    BY <1>1, <2>5, <2>6 DEF Taps
  <2>7. factor' \in [Taps -> Int]
    BY <2>4, <2>5, <2>6
  <2>8. Paired'
    BY <2>2, <2>4, <2>6 DEF Paired
  <2> QED
    BY <2>2, <2>3, <2>7, <2>8 DEF RingInv, RingTypeOK
<1>3. CASE UNCHANGED ring
  BY <1>3 DEF ring, RingInv, RingTypeOK, Mirrored, Paired
<1> QED
  BY <1>2, <1>3 DEF RingNext

(* A zeroed filter satisfies it.                                           *)
LEMMA RingStarts == RingInit => RingInv
<1>1. Width \in Nat /\ Width > 0
  BY WidthAssumption
<1> QED
  BY <1>1 DEF RingInit, RingInv, RingTypeOK, Mirrored, Paired, Taps

(* It holds in every reachable state.                                      *)
LEMMA RingInvariant == RingSpec => []RingInv
BY RingStarts, RingStep, PTL DEF RingSpec

(* Every index stays in its array, whatever the width.                     *)
THEOREM TypeCorrect == RingSpec => []RingTypeOK
<1>1. RingInv => RingTypeOK
  BY DEF RingInv
<1> QED
  BY <1>1, RingInvariant, PTL

(* Every tap is adapted against what it was multiplied with, for every     *)
(* width and at every wrap of the ring.                                    *)
THEOREM AlwaysPaired == RingSpec => []Paired
<1>1. RingInv => Paired
  BY DEF RingInv
<1> QED
  BY <1>1, RingInvariant, PTL

(* The ring implements the sliding window.                                 *)
THEOREM RingIsAWindow == RingSpec => SlidesLikeAWindow
<1> DEFINE w == [k \in Taps |-> arr2[i + Width - k]]
<1>1. RingInit => Window!Init
  <2> SUFFICES ASSUME RingInit PROVE Window!Init
    OBVIOUS
  <2>1. Width \in Nat /\ Width > 0
    BY WidthAssumption
  <2>2. \A k \in Taps : arr2[i + Width - k] = 0
    BY <2>1 DEF RingInit, Taps
  <2> QED
    BY <2>2 DEF Window!Init, Taps
<1>2. RingInv /\ [RingNext]_ring => [Window!Next]_w
  <2> SUFFICES ASSUME RingInv, [RingNext]_ring PROVE [Window!Next]_w
    OBVIOUS
  <2>1. ASSUME NEW a \in Differences, Filter(a) PROVE Window!Next
    <3>1. \A k \in Taps :
             arr2'[i' + Width - k] =
               IF k = 0 THEN a ELSE arr2[i + Width - (k - 1)]
      BY <2>1, RingSlides DEF RingInv
    <3>2. \A k \in Taps : k # 0 => k - 1 \in Taps
      BY WidthAssumption DEF Taps
    <3>3. Window!Push(a)
      BY <3>1, <3>2 DEF Window!Push, Taps
    <3> QED
      BY <3>3 DEF Window!Next
  <2>2. CASE UNCHANGED ring
    BY <2>2 DEF ring
  <2> QED
    BY <2>1, <2>2 DEF RingNext
<1> QED
  BY <1>1, <1>2, RingInvariant, PTL DEF RingSpec, SlidesLikeAWindow, Window!Spec

(* The shift of the tap update is the half-even shift of mathex.h.         *)
LEMMA TapShiftHalfEven ==
    \A x \in Int : TapShift(x) \in Int /\ IsHalfEven(x, 256, TapShift(x))
BY SMT DEF TapShift, IsHalfEven, Nearest

(* One step of a tap does not leave the range, at either end.              *)
LEMMA TapInRange ==
    ASSUME NEW t \in Int, -8388480 <= t, t <= 8388480, NEW a, NEW old
    PROVE  -8388480 <= Tap(t, a, old) /\ Tap(t, a, old) <= 8388480
<1> DEFINE d == Target(a, old) - t
           r == TapShift(d)
<1>1. Target(a, old) \in Int
      /\ \/ Target(a, old) = 0
         \/ Target(a, old) = 8388608
         \/ Target(a, old) = -8388608
  BY SMT DEF Target
<1>2. d \in Int
  BY <1>1, SMT
<1>3. r \in Int /\ IsHalfEven(d, 256, r)
  BY <1>2, TapShiftHalfEven, SMT
<1>4. Tap(t, a, old) = t + r
  BY SMT DEF Tap
<1>5. d = Target(a, old) - t
  OBVIOUS
<1> HIDE DEF d, r
<1>6. /\ -128 <= d - 256 * r /\ d - 256 * r <= 128
      /\ d - 256 * r \in {128, -128} => r % 2 = 0
  BY <1>2, <1>3, SMT DEF IsHalfEven, Nearest
<1>7. CASE Target(a, old) = 0
  BY <1>2, <1>3, <1>4, <1>5, <1>6, <1>7, SMT
<1>8. CASE Target(a, old) = 8388608
  <2>1. d = 8388608 - t /\ d >= 128
    BY <1>5, <1>8, SMT
  <2>2. r >= 0 /\ (d = 128 => r = 0)
    BY <1>2, <1>3, <1>6, <2>1, SMT
  <2>3. d - r >= 128
    BY <1>2, <1>3, <1>6, <2>1, <2>2, SMT
  <2> QED
    BY <1>3, <1>4, <2>1, <2>2, <2>3, SMT
<1>9. CASE Target(a, old) = -8388608
  <2>1. d = -8388608 - t /\ d <= -128
    BY <1>5, <1>9, SMT
  <2>2. r <= 0 /\ (d = -128 => r = 0)
    BY <1>2, <1>3, <1>6, <2>1, SMT
  <2>3. d - r <= -128
    BY <1>2, <1>3, <1>6, <2>1, <2>2, SMT
  <2> QED
    BY <1>3, <1>4, <2>1, <2>2, <2>3, SMT
<1> QED
  BY <1>1, <1>7, <1>8, <1>9, SMT

(* No sequence of differences drives a tap out of its range.               *)
THEOREM TapsStayInRange == RingSpec => []TapsBounded
<1>1. RingInit => TapsBounded
  BY SMT DEF RingInit, TapsBounded
<1>2. RingTypeOK /\ TapsBounded /\ [RingNext]_ring => TapsBounded'
  <2> SUFFICES ASSUME RingTypeOK, TapsBounded, [RingNext]_ring PROVE TapsBounded'
    BY SMT
  <2>1. ASSUME NEW a \in Differences, Filter(a) PROVE TapsBounded'
    <3> SUFFICES ASSUME NEW k \in Taps
                 PROVE  -8388480 <= arr1'[k] /\ arr1'[k] <= 8388480
      BY SMT DEF TapsBounded
    <3>1. arr1'[k] = Tap(arr1[k], a, arr2[i + Width - k])
      BY <2>1, SMT DEF Filter
    <3>2. arr1[k] \in Int /\ -8388480 <= arr1[k] /\ arr1[k] <= 8388480
      BY SMT DEF RingTypeOK, TapsBounded
    <3> QED
      BY <3>1, <3>2, TapInRange, SMT
  <2>2. CASE UNCHANGED ring
    BY <2>2, SMT DEF ring, TapsBounded
  <2> QED
    BY <2>1, <2>2, SMT DEF RingNext
<1> QED
  BY <1>1, <1>2, TypeCorrect, PTL DEF RingSpec

-----------------------------------------------------------------------------
(* The weights                                                             *)

(* Rounding gives an integer.                                              *)
LEMMA RShift8Type == \A x \in Int : RShift8(x) \in Int
BY SMT DEF RShift8, RoundingShift

Within(x, bound) == x \in Int /\ -bound <= x /\ x <= bound

(* Clipping does what it says.                                             *)
LEMMA ClipBounds ==
    ASSUME NEW v \in Int, NEW bound \in Nat
    PROVE  Within(ClipRange(v, -bound, bound), bound)
BY SMT DEF ClipRange, Within

(* What one weight contributes to the other is bounded.                    *)
LEMMA CrossBounds ==
    ASSUME NEW u2 \in Int, NEW s1 \in Signs
    PROVE  Within(Cross(u2, s1), 1048576)
<1>1. -u2 * s1 \in Int
  BY SMT DEF Signs
<1>2. RShift1(-u2 * s1) \in Int
  BY <1>1, SMT DEF RShift1
<1> QED
  BY <1>2, ClipBounds, SMT DEF Cross

(* Where a frame leaves the weights: inside a triangle that is one         *)
(* sixteenth smaller than the triangle of stability.                       *)
Triangle ==
    /\ sign1 \in {-1, 1}
    /\ sign2 \in {-1, 1}
    /\ Within(unk3, 3145728)
    /\ Within(unk2, 3932160 - unk3)

(* Whatever the weights were, a frame leaves them inside the triangle.     *)
LEMMA WeightsInTriangle ==
    ASSUME NEW u2 \in Int, NEW u3 \in Int, NEW s1 \in Signs, NEW s2 \in Signs
    PROVE  /\ Within(Weight3(u2, u3, s1, s2), 3145728)
           /\ \A v3 : Within(v3, 3145728) =>
                Within(Weight2(u2, v3, s1), 3932160 - v3)
<1>1. Cross(u2, s1) \div 16 \in Int
  BY CrossBounds, SMT DEF Within
<1>2. Sum3(u2, u3, s1, s2) \in Int
  BY <1>1, SMT DEF Sum3, Signs
<1>3. Sum2(u2, s1) \in Int
  BY SMT DEF Sum2, Signs
<1>4. Within(Weight3(u2, u3, s1, s2), 3145728)
  BY <1>2, RShift8Type, ClipBounds, SMT DEF Weight3
<1>5. ASSUME NEW v3, Within(v3, 3145728)
      PROVE  Within(Weight2(u2, v3, s1), 3932160 - v3)
  <2>1. RShift8(Sum2(u2, s1)) \in Int
    BY <1>3, RShift8Type, SMT
  <2>2. 3932160 - v3 \in Nat
    BY <1>5, SMT DEF Within
  <2> QED
    BY <2>1, <2>2, ClipBounds, SMT DEF Weight2
<1> QED
  BY <1>4, <1>5, SMT

(* The weights never leave the triangle.                                   *)
LEMMA TriangleInvariant == WeightsSpec => []Triangle
<1>1. WeightsInit => Triangle
  BY SMT DEF WeightsInit, Triangle, Within
<1>2. Triangle /\ [WeightsNext]_weights => Triangle'
  <2> SUFFICES ASSUME Triangle, [WeightsNext]_weights PROVE Triangle'
    BY SMT
  <2>1. ASSUME NEW s \in Signs, ProcessSubband(s) PROVE Triangle'
    <3>1. sign1 * s \in Signs /\ sign2 * s \in Signs
      BY SMT DEF Triangle, Signs
    <3>2. unk2 \in Int /\ unk3 \in Int
      BY SMT DEF Triangle, Within
    <3>3. Within(unk3', 3145728)
      BY <2>1, <3>1, <3>2, WeightsInTriangle, SMT DEF ProcessSubband
    <3>4. Within(unk2', 3932160 - unk3')
      BY <2>1, <3>1, <3>2, <3>3, WeightsInTriangle, SMT DEF ProcessSubband
    <3>5. sign1' \in {-1, 1} /\ sign2' \in {-1, 1}
      BY <2>1, SMT DEF ProcessSubband, Triangle
    <3> QED
      BY <3>3, <3>4, <3>5, SMT DEF Triangle
  <2>2. CASE UNCHANGED weights
    BY <2>2, SMT DEF weights, Triangle
  <2> QED
    BY <2>1, <2>2, SMT DEF WeightsNext
<1> QED
  BY <1>1, <1>2, PTL DEF WeightsSpec

(* The predictor is stable after any sequence of frames.                   *)
THEOREM PredictorStable == WeightsSpec => []Stable
<1>1. Triangle => Stable
  BY SMT DEF Triangle, Within, Stable
<1> QED
  BY <1>1, TriangleInvariant, PTL

(* The weights leave room for the sums of the next frame, for any sequence *)
(* of frames before it.                                                    *)
THEOREM WeightsLeaveRoom == WeightsSpec => []NoOverflow
<1>1. Triangle => NoOverflow
  <2>1. /\ (INT32_MAX - 12582912 - 128) \div 255 >= 7077888
        /\ (INT32_MAX - 8388608 - 16777216 - 128) \div 254 >= 3145728
    BY SMT DEF INT32_MAX
  <2> QED
    BY <2>1, SMT DEF Triangle, Within, NoOverflow, INT32_MAX
<1> QED
  BY <1>1, TriangleInvariant, PTL

FitsInt32(x) == -INT32_MAX - 1 <= x /\ x <= INT32_MAX

(* What that room is for: no sum of a frame overflows an int32_t, which    *)
(* TLC's integers cannot say.                                              *)
SumsFit ==
    \A s1, s2 \in Signs :
      /\ FitsInt32(Sum3(unk2, unk3, s1, s2) + 128)
      /\ FitsInt32(Sum2(unk2, s1) + 128)

(* No sequence of frames leads to a frame whose sums overflow.             *)
THEOREM SumsAlwaysFit == WeightsSpec => []SumsFit
<1>1. ASSUME Triangle, NEW s1 \in Signs, NEW s2 \in Signs
      PROVE  /\ FitsInt32(Sum3(unk2, unk3, s1, s2) + 128)
             /\ FitsInt32(Sum2(unk2, s1) + 128)
  <2>1. Within(unk2, 7077888) /\ Within(unk3, 3145728)
    BY <1>1, SMT DEF Triangle, Within
  <2>2. Within(Cross(unk2, s1) \div 16, 65536)
    BY <2>1, CrossBounds, SMT DEF Within
  <2>3. Sum3(unk2, unk3, s1, s2) =
          254 * unk3 + 8388608 * s2 + 256 * (Cross(unk2, s1) \div 16)
    BY SMT DEF Sum3
  <2>4. FitsInt32(Sum3(unk2, unk3, s1, s2) + 128)
    BY <2>1, <2>2, <2>3, SMT DEF FitsInt32, INT32_MAX, Signs, Within
  <2>5. FitsInt32(Sum2(unk2, s1) + 128)
    BY <2>1, SMT DEF FitsInt32, INT32_MAX, Signs, Sum2, Within
  <2> QED
    BY <2>4, <2>5, SMT
<1>2. Triangle => SumsFit
  BY <1>1, SMT DEF SumsFit
<1> QED
  BY <1>2, TriangleInvariant, PTL

-----------------------------------------------------------------------------
(* Both halves in one call                                                 *)

(* The sign that aptX_process_subband takes is one of the three, whatever  *)
(* the sum is.                                                             *)
LEMMA SignType == \A v : Sign(v) \in Signs
BY DEF Sign, Signs

(* The processor implements each of its halves: what is proved of the      *)
(* weights for every sequence of signs, and of the ring for every sequence *)
(* of differences, holds of them when one call of aptX_process_subband     *)
(* moves both and feeds the signs back from the prediction.                *)
THEOREM ProcessorImplementsHalves == ProcessorSpec => WeightsSpec /\ RingSpec
<1>1. ProcessorInit => WeightsInit /\ RingInit
  BY DEF ProcessorInit
<1>2. [ProcessorNext]_processor => [WeightsNext]_weights /\ [RingNext]_ring
  <2> SUFFICES ASSUME [ProcessorNext]_processor
               PROVE  [WeightsNext]_weights /\ [RingNext]_ring
    OBVIOUS
  <2>1. ASSUME NEW a \in Differences, Process(a)
        PROVE  WeightsNext /\ RingNext
    <3>1. ProcessSubband(Sign(unk7 + a)) /\ Filter(a)
      BY <2>1 DEF Process
    <3>2. Sign(unk7 + a) \in Signs
      BY SignType
    <3> QED
      BY <3>1, <3>2 DEF WeightsNext, RingNext
  <2>2. CASE UNCHANGED processor
    BY <2>2 DEF processor, weights, ring
  <2> QED
    BY <2>1, <2>2 DEF ProcessorNext
<1> QED
  BY <1>1, <1>2, PTL DEF ProcessorSpec, WeightsSpec, RingSpec

(* In the processor the signs, the weights, every index into the ring and  *)
(* the taps stay in range after any differences.                           *)
THEOREM ProcessorTypeCorrect == ProcessorSpec => []ProcessorTypeOK
<1>1. Triangle => WeightsTypeOK
  BY SMT DEF Triangle, Within, WeightsTypeOK
<1> QED
  BY <1>1, ProcessorImplementsHalves, TriangleInvariant, TypeCorrect, PTL
     DEF ProcessorTypeOK

(* In the processor the frozen recursion is stable after every frame, its  *)
(* sums fit, and each tap is paired with the difference it adapted to and  *)
(* stays below two.                                                        *)
THEOREM ProcessorSafe ==
    ProcessorSpec => [](Stable /\ NoOverflow /\ Paired /\ TapsBounded)
BY ProcessorImplementsHalves, PredictorStable, WeightsLeaveRoom, AlwaysPaired,
   TapsStayInRange, PTL

-----------------------------------------------------------------------------
(* Sums of products                                                        *)

(* Induction: a set that has zero and is closed under the successor has    *)
(* every natural number, or the successor would map what it has below one  *)
(* that it misses onto itself, without ever reaching zero.                 *)
LEMMA SetInduction ==
    ASSUME NEW S, 0 \in S, \A n \in Nat : n \in S => n + 1 \in S
    PROVE  Nat \subseteq S
<1> SUFFICES ASSUME NEW m \in Nat, m \notin S PROVE FALSE
  OBVIOUS
<1> DEFINE T == S \cap (0..m)
           succ == [n \in T |-> n + 1]
<1>1. IsFiniteSet(T)
  <2>1. IsFiniteSet(0..m)
    BY FS_Interval
  <2> QED
    BY <2>1, FS_Subset
<1>2. \A n \in T : n + 1 \in T
  OBVIOUS
<1>3. succ \in Injection(T, T)
  BY <1>2 DEF Injection, IsInjective
<1>4. succ \in Surjection(T, T)
  BY <1>1, <1>3, FS_Injection
<1>5. PICK n \in T : succ[n] = 0
  <2>1. 0 \in T
    OBVIOUS
  <2> HIDE DEF T, succ
  <2> QED
    BY <1>4, <2>1 DEF Surjection
<1> QED
  BY <1>5

(* What the folds of the library take from a set next.                     *)
Chosen(s) == CHOOSE x \in s : TRUE

(* It leaves one element less.                                             *)
LEMMA OneLess ==
    ASSUME NEW s, IsFiniteSet(s), s # {}
    PROVE  /\ Chosen(s) \in s
           /\ IsFiniteSet(s \ {Chosen(s)})
           /\ Cardinality(s) \in Nat
           /\ Cardinality(s \ {Chosen(s)}) = Cardinality(s) - 1
<1>1. Chosen(s) \in s
  BY DEF Chosen
<1> QED
  BY <1>1, FS_RemoveElement, FS_CardinalityType

(* Induction over the parts of a finite set, as the folds go through them. *)
LEMMA PartInduction ==
    ASSUME NEW I, IsFiniteSet(I), NEW G, {} \in G,
           \A s \in SUBSET I : s # {} /\ s \ {Chosen(s)} \in G => s \in G
    PROVE  SUBSET I \subseteq G
<1> DEFINE S == {n \in Nat : \A s \in SUBSET I : Cardinality(s) = n => s \in G}
<1>1. \A s \in SUBSET I : IsFiniteSet(s) /\ Cardinality(s) \in Nat
  BY FS_Subset, FS_CardinalityType
<1>2. 0 \in S
  BY <1>1, FS_EmptySet
<1>3. ASSUME NEW n \in Nat, n \in S PROVE n + 1 \in S
  <2> SUFFICES ASSUME NEW s \in SUBSET I, Cardinality(s) = n + 1 PROVE s \in G
    OBVIOUS
  <2>1. s # {}
    BY FS_EmptySet
  <2>2. /\ s \ {Chosen(s)} \in SUBSET I
        /\ Cardinality(s \ {Chosen(s)}) = n
    BY <1>1, <2>1, OneLess
  <2>3. s \ {Chosen(s)} \in G
    BY <1>3, <2>2
  <2> QED
    BY <2>1, <2>3
<1> HIDE DEF S
<1>4. Nat \subseteq S
  BY <1>2, <1>3, SetInduction
<1> QED
  BY <1>1, <1>4 DEF S

(* The sums over all parts of a set, each one from a smaller one.          *)
IsFold(t, h, I) ==
    t = [s \in SUBSET I |->
           IF s = {} THEN 0
           ELSE LET x == CHOOSE y \in s : TRUE IN h[x] + t[s \ {x}]]

(* They exist.                                                             *)
LEMMA FoldExists ==
    ASSUME NEW I, IsFiniteSet(I), NEW h
    PROVE  \E t : IsFold(t, h, I)
<1> DEFINE Parts(n) == {s \in SUBSET I : Cardinality(s) <= n}
           Step(t, s) == IF s = {} THEN 0 ELSE h[Chosen(s)] + t[s \ {Chosen(s)}]
           UpTo(n, t) == t = [s \in Parts(n) |-> Step(t, s)]
           S == {n \in Nat : \E t : UpTo(n, t)}
<1>1. \A s \in SUBSET I : IsFiniteSet(s) /\ Cardinality(s) \in Nat
  BY FS_Subset, FS_CardinalityType
<1>2. ASSUME NEW n \in Nat, NEW s \in Parts(n), s # {}
      PROVE  \A m \in Nat : n <= m + 1 => s \ {Chosen(s)} \in Parts(m)
  BY <1>1, <1>2, OneLess
<1>3. 0 \in S
  <2> DEFINE t == [s \in Parts(0) |-> 0]
  <2>1. \A s \in Parts(0) : s = {}
    BY <1>1, FS_EmptySet
  <2>2. UpTo(0, t)
    BY <2>1
  <2> HIDE DEF UpTo, t
  <2> QED
    BY <2>2
<1>4. ASSUME NEW n \in Nat, n \in S PROVE n + 1 \in S
  <2>1. PICK t : UpTo(n, t)
    BY <1>4
  <2> DEFINE u == [s \in Parts(n + 1) |-> Step(t, s)]
  <2>2. ASSUME NEW s \in Parts(n + 1) PROVE u[s] = Step(u, s)
    <3>1. CASE s = {}
      BY <3>1
    <3>2. CASE s # {}
      <4>1. s \ {Chosen(s)} \in Parts(n) /\ s \ {Chosen(s)} \in Parts(n + 1)
        BY <1>2, <2>2, <3>2
      <4>2. u[s \ {Chosen(s)}] = Step(t, s \ {Chosen(s)})
        BY <4>1
      <4>3. t[s \ {Chosen(s)}] = Step(t, s \ {Chosen(s)})
        BY <2>1, <4>1
      <4>4. u[s] = h[Chosen(s)] + t[s \ {Chosen(s)}]
        BY <3>2
      <4> QED
        BY <3>2, <4>2, <4>3, <4>4
    <3> QED
      BY <3>1, <3>2
  <2>3. UpTo(n + 1, u)
    BY <2>2
  <2> HIDE DEF UpTo, u
  <2> QED
    BY <2>3
<1>5. Nat \subseteq S
  <2> HIDE DEF S
  <2> QED
    BY <1>3, <1>4, SetInduction
<1>6. Cardinality(I) \in Nat /\ Parts(Cardinality(I)) = SUBSET I
  BY <1>1, FS_Subset
<1>7. PICK t : t = [s \in SUBSET I |-> Step(t, s)]
  BY <1>5, <1>6
<1> QED
  BY <1>7 DEF IsFold, Chosen

(* The sum of the products itself, which a C program keeps in an int64_t.  *)
Products(f, g, I) == MapThenSumSet(LAMBDA k : f[k] * g[k], I)

(* The sums of products over all parts of a set.                           *)
AreProducts(t, f, g, I) ==
    /\ t[{}] = 0
    /\ \A s \in SUBSET I : s # {} =>
         t[s] = f[Chosen(s)] * g[Chosen(s)] + t[s \ {Chosen(s)}]

(* A sum of products is the last of them.                                  *)
LEMMA ProductsFold ==
    ASSUME NEW I, IsFiniteSet(I), NEW f, NEW g
    PROVE  \E t : AreProducts(t, f, g, I) /\ Products(f, g, I) = t[I]
<1> DEFINE IsSum(t) ==
             t = [s \in SUBSET I |->
                    IF s = {} THEN 0
                    ELSE LET x == CHOOSE y \in s : TRUE
                         IN f[x] * g[x] + t[s \ {x}]]
           h == [k \in I |-> f[k] * g[k]]
           sum == CHOOSE t : IsSum(t)
<1>1. Products(f, g, I) = sum[I]
  BY Zenon DEF Products, MapThenSumSet, MapThenFoldSet
<1>2. PICK t : IsFold(t, h, I)
  BY FoldExists
<1>3. \A s \in SUBSET I : s # {} => (CHOOSE y \in s : TRUE) \in I
  OBVIOUS
<1>4. IsSum(t)
  BY <1>2, <1>3 DEF IsFold
<1>5. IsSum(sum)
  <2> HIDE DEF IsSum
  <2> QED
    BY <1>4
<1> HIDE DEF sum
<1>6. sum[{}] = 0
  BY <1>5
<1>7. \A s \in SUBSET I : s # {} =>
        sum[s] = f[Chosen(s)] * g[Chosen(s)] + sum[s \ {Chosen(s)}]
  BY <1>5 DEF Chosen
<1> QED
  BY <1>1, <1>6, <1>7 DEF AreProducts

(* No sum of products is larger than the number of products allows.        *)
LEMMA ProductsBounded ==
    ASSUME NEW I, IsFiniteSet(I), NEW f, NEW g, NEW most \in Nat,
           \A k \in I : Within(f[k] * g[k], most)
    PROVE  Within(Products(f, g, I), Cardinality(I) * most)
<1>1. PICK t : AreProducts(t, f, g, I) /\ Products(f, g, I) = t[I]
  BY ProductsFold
<1> DEFINE G == {s \in SUBSET I : Within(t[s], Cardinality(s) * most)}
<1>2. {} \in G
  BY <1>1, FS_EmptySet DEF AreProducts, Within
<1>3. ASSUME NEW s \in SUBSET I, s # {}, s \ {Chosen(s)} \in G
      PROVE  s \in G
  <2>1. /\ Chosen(s) \in I /\ Cardinality(s) \in Nat
        /\ Cardinality(s \ {Chosen(s)}) = Cardinality(s) - 1
    BY <1>3, FS_Subset, OneLess
  <2> DEFINE n == Cardinality(s)
             p == f[Chosen(s)] * g[Chosen(s)]
             rest == t[s \ {Chosen(s)}]
  <2>2. /\ t[s] = p + rest /\ n \in Nat
        /\ Within(p, most) /\ Within(rest, (n - 1) * most)
    BY <1>1, <1>3, <2>1 DEF AreProducts
  <2> HIDE DEF n, p, rest
  <2>3. n * most = (n - 1) * most + most
    BY <2>2
  <2>4. (n - 1) * most \in Int /\ n * most \in Int
    BY <2>2
  <2>5. Within(t[s], n * most)
    BY <2>2, <2>3, <2>4 DEF Within
  <2> QED
    BY <2>5 DEF n
<1> HIDE DEF G
<1>4. I \in G
  BY <1>2, <1>3, PartInduction
<1> QED
  BY <1>1, <1>4 DEF G

(* A product from its factors in two parts each.                           *)
LEMMA SplitProduct ==
    ASSUME NEW v \in Int, NEW w \in Int
    PROVE  /\ v * w \in Int
           /\ (v \div 2048) * (w \div 2048) \in Int
           /\ (v \div 2048) * (w % 2048) + (v % 2048) * (w \div 2048) \in Int
           /\ (v % 2048) * (w % 2048) \in Int
           /\ v * w = 4194304 * ((v \div 2048) * (w \div 2048))
                      + 2048 * ((v \div 2048) * (w % 2048)
                                + (v % 2048) * (w \div 2048))
                      + (v % 2048) * (w % 2048)
<1>1. ASSUME NEW a \in Int, NEW b \in Int, NEW c \in Int, NEW d \in Int
      PROVE  /\ a * c \in Int /\ a * d + b * c \in Int /\ b * d \in Int
             /\ (2048 * a + b) * (2048 * c + d) \in Int
             /\ (2048 * a + b) * (2048 * c + d)
                  = 4194304 * (a * c) + 2048 * (a * d + b * c) + b * d
  BY <1>1, SMT
<1> DEFINE a == v \div 2048
           b == v % 2048
           c == w \div 2048
           d == w % 2048
<1>2. /\ a \in Int /\ b \in Int /\ c \in Int /\ d \in Int
      /\ v = 2048 * a + b /\ w = 2048 * c + d
  BY SMT
<1> HIDE DEF a, b, c, d
<1>3. /\ a * c \in Int /\ a * d + b * c \in Int /\ b * d \in Int
      /\ v * w \in Int
      /\ v * w = 4194304 * (a * c) + 2048 * (a * d + b * c) + b * d
  BY <1>1, <1>2, SMT
<1> QED
  BY <1>3 DEF a, b, c, d

(* The three sums the model keeps in place of one add up to it: what       *)
(* ScaledSum computes with the small integers of a model checker is the    *)
(* sum of the products, shifted once.                                      *)
THEOREM ScaledSumExact ==
    ASSUME NEW I, IsFiniteSet(I), NEW f, NEW g,
           \A k \in I : f[k] \in Int /\ g[k] \in Int
    PROVE  /\ Products(f, g, I) \in Int
           /\ ScaledSum(f, g, I) = Products(f, g, I) \div 4194304
<1> DEFINE H(v) == v \div 2048
           L(v) == v % 2048
           high(x) == H(f[x]) * H(g[x])
           mid(x) == H(f[x]) * L(g[x]) + L(f[x]) * H(g[x])
           low(x) == L(f[x]) * L(g[x])
           IsHigh(t) ==
             t = [s \in SUBSET I |->
                    IF s = {} THEN 0
                    ELSE LET x == CHOOSE y \in s : TRUE IN high(x) + t[s \ {x}]]
           IsMid(t) ==
             t = [s \in SUBSET I |->
                    IF s = {} THEN 0
                    ELSE LET x == CHOOSE y \in s : TRUE IN mid(x) + t[s \ {x}]]
           IsLow(t) ==
             t = [s \in SUBSET I |->
                    IF s = {} THEN 0
                    ELSE LET x == CHOOSE y \in s : TRUE IN low(x) + t[s \ {x}]]
           highs == CHOOSE t : IsHigh(t)
           mids == CHOOSE t : IsMid(t)
           lows == CHOOSE t : IsLow(t)
<1>1. ScaledSum(f, g, I)
        = highs[I] + (mids[I] + lows[I] \div 2048) \div 2048
  BY Zenon DEF ScaledSum, MapThenSumSet, MapThenFoldSet
<1>2. \A s \in SUBSET I : s # {} => (CHOOSE y \in s : TRUE) \in I
  OBVIOUS
<1> HIDE DEF H, L
<1>3. IsHigh(highs)
  <2>1. PICK t : IsFold(t, [k \in I |-> high(k)], I)
    BY FoldExists
  <2>2. IsHigh(t)
    BY <1>2, <2>1 DEF IsFold
  <2> HIDE DEF IsHigh
  <2> QED
    BY <2>2
<1>4. IsMid(mids)
  <2>1. PICK t : IsFold(t, [k \in I |-> mid(k)], I)
    BY FoldExists
  <2>2. IsMid(t)
    BY <1>2, <2>1 DEF IsFold
  <2> HIDE DEF IsMid
  <2> QED
    BY <2>2
<1>5. IsLow(lows)
  <2>1. PICK t : IsFold(t, [k \in I |-> low(k)], I)
    BY FoldExists
  <2>2. IsLow(t)
    BY <1>2, <2>1 DEF IsFold
  <2> HIDE DEF IsLow
  <2> QED
    BY <2>2
<1> HIDE DEF highs, mids, lows, high, mid, low
<1>6. /\ highs[{}] = 0 /\ mids[{}] = 0 /\ lows[{}] = 0
      /\ \A s \in SUBSET I : s # {} =>
           /\ highs[s] = high(Chosen(s)) + highs[s \ {Chosen(s)}]
           /\ mids[s] = mid(Chosen(s)) + mids[s \ {Chosen(s)}]
           /\ lows[s] = low(Chosen(s)) + lows[s \ {Chosen(s)}]
  BY <1>3, <1>4, <1>5 DEF Chosen
<1> HIDE DEF IsHigh, IsMid, IsLow
<1>7. PICK t : AreProducts(t, f, g, I) /\ Products(f, g, I) = t[I]
  BY ProductsFold
<1> DEFINE G == {s \in SUBSET I :
                   /\ highs[s] \in Int /\ mids[s] \in Int /\ lows[s] \in Int
                   /\ t[s] = 4194304 * highs[s] + 2048 * mids[s] + lows[s]}
<1>8. {} \in G
  <2>1. t[{}] = 0 /\ highs[{}] = 0 /\ mids[{}] = 0 /\ lows[{}] = 0
    BY <1>6, <1>7 DEF AreProducts
  <2>2. 4194304 * 0 + 2048 * 0 + 0 = 0
    BY SMT
  <2> QED
    BY <2>1, <2>2, SMT
<1>9. ASSUME NEW s \in SUBSET I, s # {}, s \ {Chosen(s)} \in G
      PROVE  s \in G
  <2> DEFINE x == Chosen(s)
             r == s \ {x}
  <2>1. f[x] \in Int /\ g[x] \in Int
    BY <1>9 DEF Chosen
  <2>2. /\ high(x) \in Int /\ mid(x) \in Int /\ low(x) \in Int
        /\ f[x] * g[x] \in Int
        /\ f[x] * g[x] = 4194304 * high(x) + 2048 * mid(x) + low(x)
    <3>1. /\ high(x) = (f[x] \div 2048) * (g[x] \div 2048)
          /\ mid(x) = (f[x] \div 2048) * (g[x] % 2048)
                      + (f[x] % 2048) * (g[x] \div 2048)
          /\ low(x) = (f[x] % 2048) * (g[x] % 2048)
      BY Zenon DEF H, L, high, mid, low
    <3> HIDE DEF x
    <3> QED
      BY <2>1, <3>1, SplitProduct, SMT
  <2>3. /\ highs[s] = high(x) + highs[r]
        /\ mids[s] = mid(x) + mids[r]
        /\ lows[s] = low(x) + lows[r]
        /\ t[s] = f[x] * g[x] + t[r]
    <3> HIDE DEF G
    <3> QED
      BY <1>6, <1>7, <1>9 DEF AreProducts
  <2>4. /\ highs[r] \in Int /\ mids[r] \in Int /\ lows[r] \in Int
        /\ t[r] = 4194304 * highs[r] + 2048 * mids[r] + lows[r]
    BY <1>9, SMT
  <2>5. /\ highs[s] \in Int /\ mids[s] \in Int /\ lows[s] \in Int
        /\ t[s] = 4194304 * highs[s] + 2048 * mids[s] + lows[s]
    <3> HIDE DEF x, r
    <3> QED
      BY <2>2, <2>3, <2>4, SMT
  <2> QED
    BY <1>9, <2>5, SMT
<1> HIDE DEF G
<1>10. I \in G
  BY <1>8, <1>9, PartInduction
<1>11. /\ highs[I] \in Int /\ mids[I] \in Int /\ lows[I] \in Int
       /\ t[I] = 4194304 * highs[I] + 2048 * mids[I] + lows[I]
  BY <1>10, SMT DEF G
<1>12. ASSUME NEW a \in Int, NEW b \in Int, NEW c \in Int
       PROVE  /\ 4194304 * a + 2048 * b + c \in Int
              /\ a + (b + c \div 2048) \div 2048
                   = (4194304 * a + 2048 * b + c) \div 4194304
  BY SMT
<1> QED
  BY <1>1, <1>7, <1>11, <1>12, SMT

-----------------------------------------------------------------------------
(* Nothing is cut off                                                      *)

(* The upper half of an int64_t is an int32_t.                             *)
FitsInt64(x) == FitsInt32(x \div 4294967296)

(* The bound on a difference that the inverter promises to a filter of     *)
(* this width (SumFits of the module Inverter).                            *)
Room == INT32_MAX \div (2 * Width)

(* What aptX_prediction_filtering computes between two clampings.  The     *)
(* sums of products, over any of the taps so far, fit an int64_t, and what *)
(* is left of them after the shift the int32_t it is stored in before it   *)
(* is clamped; so do the sums of a difference and a prediction.  before is *)
(* any value the clamping can leave.                                       *)
NothingCutOff ==
    /\ \A part \in SUBSET Taps : FitsInt64(Products(factor, arr1, part))
    /\ FitsInt32(ScaledSum(factor, arr1, Taps))
    /\ \A before : Within(before, 8388608) =>
         /\ FitsInt64(Products(<<unk6, before>>, <<unk2, unk3>>, {1, 2}))
         /\ FitsInt32(ScaledSum(<<unk6, before>>, <<unk2, unk3>>, {1, 2}))
    /\ \A a \in Differences : FitsInt32(a + unk8) /\ FitsInt32(unk7 + a)

(* The differences that are remembered occurred, or nothing did yet.       *)
Remembered ==
    /\ \A j \in 0..2 * Width - 1 : arr2[j] \in Differences \cup {0}
    /\ \A k \in Taps : factor[k] \in Differences \cup {0}

(* What was clamped is within 24 bits.                                     *)
Outputs ==
    Within(unk6, 8388608) /\ Within(unk7, 8388608) /\ Within(unk8, 8388608)

(* Clamping gives a number of 24 bits.                                     *)
LEMMA ClampFits == \A v \in Int : Within(ClampInt24(v), 8388608)
BY SMT DEF ClampInt24, ClipRange, INT24_MIN, INT24_MAX, Within

(* The taps are a finite set.                                              *)
LEMMA TapsFinite == IsFiniteSet(Taps) /\ Cardinality(Taps) = Width
<1>1. Width \in Nat /\ Width > 0
  BY WidthAssumption
<1>2. 0 \in Int /\ Width - 1 \in Int
  BY <1>1
<1>3. IsFiniteSet(0..Width - 1)
  BY <1>2, FS_Interval
<1>4. Cardinality(0..Width - 1) = IF 0 > Width - 1 THEN 0 ELSE (Width - 1) - 0 + 1
  BY <1>2, FS_Interval
<1> QED
  BY <1>1, <1>3, <1>4 DEF Taps

(* What the taps predict is a number of 24 bits.                           *)
LEMMA TapsPredict ==
    ASSUME NEW f \in [Taps -> Int], NEW g \in [Taps -> Int]
    PROVE  Within(ClampInt24(ScaledSum(f, g, Taps)), 8388608)
<1>1. \A k \in Taps : f[k] \in Int /\ g[k] \in Int
  OBVIOUS
<1>2. /\ Products(f, g, Taps) \in Int
      /\ ScaledSum(f, g, Taps) = Products(f, g, Taps) \div 4194304
  BY <1>1, TapsFinite, ScaledSumExact
<1>3. ScaledSum(f, g, Taps) \in Int
  BY <1>2, SMT
<1> QED
  BY <1>3, ClampFits

(* The two indices of a weight are a finite set.                           *)
LEMMA PairFinite == IsFiniteSet({1, 2}) /\ Cardinality({1, 2}) = 2
<1>1. IsFiniteSet({1}) /\ Cardinality({1}) = 1
  BY FS_Singleton
<1>2. {1, 2} = {1} \cup {2} /\ 2 \notin {1}
  OBVIOUS
<1>3. IsFiniteSet({1} \cup {2}) /\ Cardinality({1} \cup {2}) = Cardinality({1}) + 1
  BY <1>1, <1>2, FS_AddElement
<1> QED
  BY <1>1, <1>2, <1>3

(* The sum of two products.                                                *)
LEMMA TwoProducts ==
    ASSUME NEW u \in Int, NEW v \in Int, NEW x \in Int, NEW y \in Int
    PROVE  /\ Products(<<u, v>>, <<x, y>>, {1, 2}) \in Int
           /\ ScaledSum(<<u, v>>, <<x, y>>, {1, 2})
                = Products(<<u, v>>, <<x, y>>, {1, 2}) \div 4194304
<1> DEFINE f == <<u, v>>
           g == <<x, y>>
<1>1. \A k \in {1, 2} : f[k] \in Int /\ g[k] \in Int
  OBVIOUS
<1> HIDE DEF f, g
<1>2. /\ Products(f, g, {1, 2}) \in Int
      /\ ScaledSum(f, g, {1, 2}) = Products(f, g, {1, 2}) \div 4194304
  BY <1>1, PairFinite, ScaledSumExact
<1> QED
  BY <1>2, SMT DEF f, g

(* So is what the weights predict.                                         *)
LEMMA WeightsPredict ==
    ASSUME NEW u2 \in Int, NEW u3 \in Int, NEW newest \in Int, NEW before \in Int
    PROVE  Within(FromWeights(u2, u3, newest, before), 8388608)
<1>1. ScaledSum(<<newest, before>>, <<u2, u3>>, {1, 2}) \in Int
  BY TwoProducts, SMT
<1> QED
  BY <1>1, ClampFits DEF FromWeights

(* Both are kept by a call.                                                *)
LEMMA Remembers ==
    ASSUME RingInv, Triangle, Triangle', RingInv', Remembered, Outputs,
           NEW a \in Differences, Process(a)
    PROVE  Remembered' /\ Outputs'
<1>1. Width \in Nat /\ Width > 0 /\ a \in Int
  BY WidthAssumption, DifferencesAssumption
<1>2. Remembered'
  <2>1. Filter(a)
    BY DEF Process
  <2>2. /\ arr2' = [arr2 EXCEPT ![i'] = a, ![i' + Width] = a]
        /\ factor' = [k \in Taps |-> IF k = 0 THEN a ELSE arr2[i + Width - k + 1]]
    BY <2>1 DEF Filter
  <2>3. i \in 0..Width - 1 /\ arr2 \in [0..2 * Width - 1 -> Int]
    BY DEF RingInv, RingTypeOK
  <2>4. \A j \in 0..2 * Width - 1 : arr2'[j] \in {arr2[j], a}
    BY <2>2, <2>3
  <2>5. \A k \in Taps : k # 0 => i + Width - k + 1 \in 0..2 * Width - 1
    BY <1>1, <2>3 DEF Taps
  <2> QED
    BY <2>2, <2>4, <2>5 DEF Remembered
<1>3. Outputs'
  <2>1. /\ unk6 \in Int /\ unk7 \in Int /\ unk8 \in Int
    BY DEF Outputs, Within
  <2>2. unk2' \in Int /\ unk3' \in Int
    <3>1. 3932160 - unk3' \in Int
      BY SMT DEF Triangle, Within
    <3> QED
      BY <3>1 DEF Triangle, Within
  <2>3. /\ unk6' = ClampInt24(a + unk8)
        /\ unk7' = FromTaps'
        /\ unk8' = ClampInt24(unk7' + FromWeights(unk2', unk3', unk6', unk6))
    BY DEF Process
  <2>4. Within(unk6', 8388608)
    BY <1>1, <2>1, <2>3, ClampFits
  <2>5. unk6' \in Int
    BY <2>4 DEF Within
  <2>6. Within(FromTaps', 8388608)
    <3>1. factor' \in [Taps -> Int] /\ arr1' \in [Taps -> Int]
      BY DEF RingInv, RingTypeOK
    <3> QED
      BY <3>1, TapsPredict DEF FromTaps
  <2>7. Within(FromWeights(unk2', unk3', unk6', unk6), 8388608)
    BY <2>1, <2>2, <2>5, WeightsPredict
  <2>8. unk7' + FromWeights(unk2', unk3', unk6', unk6) \in Int
    BY <2>3, <2>6, <2>7 DEF Within
  <2> QED
    BY <2>3, <2>4, <2>6, <2>8, ClampFits DEF Outputs
<1> QED
  BY <1>2, <1>3

(* What a subband predicts, reconstructs and keeps never leaves 24 bits,   *)
(* and the window holds nothing but differences.                           *)
THEOREM OutputsOf24Bits == ProcessorSpec => [](Remembered /\ Outputs)
<1>1. ProcessorInit => Remembered /\ Outputs
  <2>1. Width \in Nat
    BY WidthAssumption
  <2> QED
    BY <2>1, SMT DEF ProcessorInit, RingInit, Remembered, Outputs, Within
<1>2. RingInv /\ Triangle /\ RingInv' /\ Triangle' /\ Remembered /\ Outputs
      /\ [ProcessorNext]_processor => Remembered' /\ Outputs'
  <2>1. ASSUME Remembered, Outputs, UNCHANGED processor
        PROVE  Remembered' /\ Outputs'
    BY <2>1 DEF processor, ring, Remembered, Outputs
  <2> QED
    BY <2>1, Remembers DEF ProcessorNext
<1> QED
  BY <1>1, <1>2, ProcessorImplementsHalves, RingInvariant, TriangleInvariant,
     PTL DEF ProcessorSpec

(* A product is bounded by the bounds of its factors.                      *)
LEMMA ProductWithin ==
    ASSUME NEW p \in Nat, NEW q \in Nat, NEW v, NEW w, Within(v, p), Within(w, q)
    PROVE  Within(v * w, p * q)
<1>1. /\ v \in Int /\ -p <= v /\ v <= p
      /\ w \in Int /\ -q <= w /\ w <= q
  BY DEF Within
<1>2. /\ v * w \in Int /\ p * q \in Int
      /\ 0 <= (p - v) * (q + w) /\ 0 <= (p + v) * (q - w)
      /\ 0 <= (p - v) * (q - w) /\ 0 <= (p + v) * (q + w)
  <2>1. \A x, y \in Nat : 0 <= x * y
    OBVIOUS
  <2>2. p - v \in Nat /\ p + v \in Nat /\ q - w \in Nat /\ q + w \in Nat
    BY <1>1
  <2> QED
    BY <1>1, <2>1, <2>2
<1>3. /\ (p - v) * (q + w) = p * q + p * w - v * q - v * w
      /\ (p + v) * (q - w) = p * q - p * w + v * q - v * w
      /\ (p - v) * (q - w) = p * q - p * w - v * q + v * w
      /\ (p + v) * (q + w) = p * q + p * w + v * q + v * w
  BY <1>1
<1>4. p * w \in Int /\ v * q \in Int
  BY <1>1
<1>5. -(p * q) <= v * w /\ v * w <= p * q
  BY <1>2, <1>3, <1>4
<1> QED
  BY <1>2, <1>5 DEF Within

(* What the shift leaves of a sum.                                         *)
LEMMA ShiftedFits ==
    ASSUME NEW x \in Int, -(4194304 * INT32_MAX) <= x, x <= 4194304 * INT32_MAX
    PROVE  FitsInt64(x) /\ FitsInt32(x \div 4194304)
<1>1. -(4194304 * 2147483647) <= x /\ x <= 4194304 * 2147483647
  BY SMT DEF INT32_MAX
<1>2. -2147483647 <= x \div 4194304 /\ x \div 4194304 <= 2147483647
  BY <1>1, SMT
<1>3. FitsInt64(x)
  BY <1>1, SMT DEF FitsInt64, FitsInt32, INT32_MAX
<1> QED
  BY <1>2, <1>3, SMT DEF FitsInt32, INT32_MAX

(* What the inverter leaves room for is enough.                            *)
LEMMA RoomIsEnough ==
    /\ Room \in Nat /\ Room <= 1073741823
    /\ \A n \in 0..Width : 8388480 * Room * n <= 4194304 * INT32_MAX
                           /\ 8388480 * Room * n \in Nat
<1>1. Width \in Nat /\ Width > 0
  BY WidthAssumption
<1>2. ASSUME NEW m \in Nat, m > 0
      PROVE  /\ INT32_MAX \div m \in Nat
             /\ m * (INT32_MAX \div m) <= INT32_MAX
  BY <1>2, SMT DEF INT32_MAX
<1>3. Room \in Nat /\ (2 * Width) * Room <= INT32_MAX
  BY <1>1, <1>2, SMT DEF Room
<1>4. ASSUME NEW n \in 0..Width
      PROVE  n * Room \in Nat /\ n * Room <= Width * Room
  <2>1. Width - n \in Nat /\ n \in Nat
    BY <1>1, SMT
  <2>2. (Width - n) * Room \in Nat /\ n * Room \in Nat
    BY <1>3, <2>1, SMT
  <2>3. (Width - n) * Room = Width * Room - n * Room
    BY <1>1, <1>3, <2>1, SMT
  <2>4. Width * Room \in Nat
    BY <1>1, <1>3, SMT
  <2> QED
    BY <2>2, <2>3, <2>4, SMT
<1>5. (2 * Width) * Room = 2 * (Width * Room) /\ Width * Room \in Nat
  BY <1>1, <1>3, SMT
<1>6. ASSUME NEW n \in 0..Width
      PROVE  /\ 8388480 * Room * n \in Nat
             /\ 8388480 * Room * n <= 4194304 * INT32_MAX
  <2>1. 8388480 * Room * n = 8388480 * (n * Room)
    BY <1>1, <1>3, SMT
  <2>2. n * Room \in Nat /\ 2 * (n * Room) <= INT32_MAX
    BY <1>3, <1>4, <1>5, SMT DEF INT32_MAX
  <2> QED
    BY <2>1, <2>2, SMT DEF INT32_MAX
<1>7. 1 * Room <= Width * Room
  BY <1>1, <1>4, SMT
<1> QED
  BY <1>3, <1>5, <1>6, <1>7, SMT DEF INT32_MAX

(* Where the weights can be, and what the taps remember, nothing is cut    *)
(* off.                                                                    *)
LEMMA StateCutsNothing ==
    ASSUME \A a \in Differences : Within(a, Room),
           RingInv, TapsBounded, Triangle, Remembered, Outputs
    PROVE  NothingCutOff
<1>1. Width \in Nat /\ Width > 0
  BY WidthAssumption
<1>2. Room \in Nat /\ Room <= 1073741823
  BY RoomIsEnough
<1>3. ASSUME NEW k \in Taps PROVE Within(factor[k] * arr1[k], Room * 8388480)
  <2>1. Within(factor[k], Room)
    <3>1. Within(0, Room)
      BY <1>2, SMT DEF Within
    <3> QED
      BY <3>1 DEF Remembered
  <2>2. Within(arr1[k], 8388480)
    BY SMT DEF RingInv, RingTypeOK, TapsBounded, Within
  <2> QED
    BY <1>2, <2>1, <2>2, ProductWithin, SMT
<1>4. ASSUME NEW part \in SUBSET Taps
      PROVE  /\ Products(factor, arr1, part) \in Int
             /\ -(4194304 * INT32_MAX) <= Products(factor, arr1, part)
             /\ Products(factor, arr1, part) <= 4194304 * INT32_MAX
  <2>1. IsFiniteSet(part) /\ Cardinality(part) \in 0..Width
    <3>1. Cardinality(part) <= Cardinality(Taps) /\ IsFiniteSet(part)
      BY TapsFinite, FS_Subset
    <3> QED
      BY <1>1, <3>1, TapsFinite, FS_CardinalityType
  <2> DEFINE most == Room * 8388480
             sum == Products(factor, arr1, part)
             bound == Cardinality(part) * most
  <2>2. most \in Nat
    BY <1>2, SMT
  <2>3. \A k \in part : Within(factor[k] * arr1[k], most)
    BY <1>3
  <2>4. Within(sum, bound)
    <3> HIDE DEF most
    <3> QED
      BY <2>1, <2>2, <2>3, ProductsBounded
  <2>5. bound <= 4194304 * INT32_MAX
    <3>1. bound = 8388480 * Room * Cardinality(part)
      BY <1>2, <2>1, SMT
    <3> QED
      BY <2>1, <3>1, RoomIsEnough, SMT
  <2>6. bound \in Int
    BY <2>1, <2>2, SMT
  <2> HIDE DEF bound, sum
  <2>7. sum \in Int /\ -(4194304 * INT32_MAX) <= sum /\ sum <= 4194304 * INT32_MAX
    BY <2>4, <2>5, <2>6, SMT DEF Within, INT32_MAX
  <2> QED
    BY <2>7, SMT DEF sum
<1>5. \A part \in SUBSET Taps : FitsInt64(Products(factor, arr1, part))
  BY <1>4, ShiftedFits
<1>6. FitsInt32(ScaledSum(factor, arr1, Taps))
  <2>1. \A k \in Taps : factor[k] \in Int /\ arr1[k] \in Int
    BY DEF RingInv, RingTypeOK
  <2>2. ScaledSum(factor, arr1, Taps) = Products(factor, arr1, Taps) \div 4194304
    BY <2>1, TapsFinite, ScaledSumExact
  <2>3. FitsInt32(Products(factor, arr1, Taps) \div 4194304)
    BY <1>4, ShiftedFits, SMT
  <2> QED
    BY <2>2, <2>3, SMT
<1>7. ASSUME NEW before, Within(before, 8388608)
      PROVE  /\ FitsInt64(Products(<<unk6, before>>, <<unk2, unk3>>, {1, 2}))
             /\ FitsInt32(ScaledSum(<<unk6, before>>, <<unk2, unk3>>, {1, 2}))
  <2> DEFINE f == <<unk6, before>>
             g == <<unk2, unk3>>
             P == Products(f, g, {1, 2})
  <2>1. /\ Within(f[1], 8388608) /\ Within(f[2], 8388608)
        /\ Within(g[1], 7077888) /\ Within(g[2], 7077888)
    BY <1>7, SMT DEF Outputs, Triangle, Within
  <2>2. unk6 \in Int /\ before \in Int /\ unk2 \in Int /\ unk3 \in Int
    BY <2>1, SMT DEF Within
  <2>3. P \in Int /\ ScaledSum(f, g, {1, 2}) = P \div 4194304
    BY <2>2, TwoProducts, SMT
  <2> HIDE DEF f, g
  <2>4. \A k \in {1, 2} : Within(f[k] * g[k], 8388608 * 7077888)
    BY <2>1, ProductWithin, SMT
  <2>5. Within(P, 2 * (8388608 * 7077888))
    BY <2>4, PairFinite, ProductsBounded, SMT
  <2>6. FitsInt64(P) /\ FitsInt32(P \div 4194304)
    <3> HIDE DEF P
    <3> QED
      BY <2>3, <2>5, ShiftedFits, SMT DEF Within, INT32_MAX
  <2>7. FitsInt64(P) /\ FitsInt32(ScaledSum(f, g, {1, 2}))
    BY <2>3, <2>6, SMT
  <2> QED
    BY <2>7, SMT DEF f, g
<1>8. ASSUME NEW a \in Differences
      PROVE  FitsInt32(a + unk8) /\ FitsInt32(unk7 + a)
  <2>1. Within(a, Room) /\ Within(unk8, 8388608) /\ Within(unk7, 8388608)
    BY DEF Outputs
  <2> QED
    BY <1>2, <2>1, SMT DEF Within, FitsInt32, INT32_MAX
<1> QED
  BY <1>5, <1>6, <1>7, <1>8 DEF NothingCutOff

(* The prediction of a subband computes what it says: given differences    *)
(* of the size the inverter promises, and whatever their order, no sum of  *)
(* aptX_prediction_filtering overflows and no assignment to an int32_t     *)
(* cuts one off before the clamping, however long the stream.              *)
THEOREM PredictionCutsNothing ==
    ASSUME \A a \in Differences : Within(a, Room)
    PROVE  ProcessorSpec => []NothingCutOff
<1>1. RingInv /\ TapsBounded /\ Triangle /\ Remembered /\ Outputs => NothingCutOff
  BY StateCutsNothing
<1> QED
  BY <1>1, OutputsOf24Bits, ProcessorImplementsHalves, RingInvariant,
     TriangleInvariant, TapsStayInRange, PTL
-----------------------------------------------------------------------------
(* Coming to rest                                                          *)

(* What n silent frames leave of a weight, at most: while it is above a    *)
(* quarter it loses at least 4095 with each.                               *)
Faded(n) == IF 7077888 - 4095 * n > 1048576 THEN 7077888 - 4095 * n ELSE 1048576

(* After so many frames without any input both weights are below a         *)
(* quarter.                                                                *)
Fading == 1473

(* From then on the last two values halve with every second frame.         *)
Halves ==
    <<8388608, 4194304, 2097152, 1048576, 524288, 262144, 131072, 65536,
      32768, 16384, 8192, 4096, 2048, 1024, 512, 256, 128, 64, 32, 16, 8, 4,
      2, 1>>

(* The shift by eight is at most half a unit off.                          *)
LEMMA RShift8Near ==
    ASSUME NEW v \in Int
    PROVE  /\ RShift8(v) \in Int
           /\ v - 128 <= 256 * RShift8(v)
           /\ 256 * RShift8(v) <= v + 128
BY SMT DEF RShift8, RoundingShift

(* One adaptation of a weight in silence.                                  *)
LEMMA WeightFades ==
    ASSUME NEW u, NEW n \in Nat, Within(u, Faded(n))
    PROVE  /\ Within(RShift8(255 * u), Faded(n + 1))
           /\ Within(RShift8(254 * u), Faded(n + 1))
<1>1. u \in Int
  BY SMT DEF Within
<1> DEFINE p == 255 * u
           q == 254 * u
<1>3. p \in Int /\ q \in Int /\ p = 255 * u /\ q = 254 * u
  BY <1>1, SMT
<1> HIDE DEF p, q
<1>4. /\ RShift8(p) \in Int /\ RShift8(q) \in Int
      /\ 255 * u - 128 <= 256 * RShift8(p)
      /\ 256 * RShift8(p) <= 255 * u + 128
      /\ 254 * u - 128 <= 256 * RShift8(q)
      /\ 256 * RShift8(q) <= 254 * u + 128
  <2>1. /\ RShift8(p) \in Int /\ RShift8(q) \in Int
        /\ p - 128 <= 256 * RShift8(p) /\ 256 * RShift8(p) <= p + 128
        /\ q - 128 <= 256 * RShift8(q) /\ 256 * RShift8(q) <= q + 128
    <3>1. p \in Int /\ q \in Int
      BY <1>3
    <3> QED
      BY <3>1, RShift8Near
  <2> QED
    BY <1>3, <2>1, SMT
<1>5. CASE Faded(n) = 1048576
  <2>1. Within(u, 1048576) /\ Faded(n + 1) = 1048576
    BY <1>5, SMT DEF Faded
  <2>2. Within(RShift8(p), 1048576) /\ Within(RShift8(q), 1048576)
    BY <1>4, <2>1, SMT DEF Within
  <2> QED
    BY <2>1, <2>2 DEF p, q
<1>6. CASE Faded(n) # 1048576
  <2>1. /\ Faded(n) = 7077888 - 4095 * n /\ 7077888 - 4095 * n > 1048576
        /\ Faded(n + 1) >= 7077888 - 4095 * n - 4095
        /\ Faded(n + 1) \in Int
    BY <1>6, SMT DEF Faded
  <2>2. Within(u, 7077888 - 4095 * n)
    BY <2>1, SMT
  <2>3. n * 4095 \in Int
    BY SMT
  <2>4. Within(RShift8(p), Faded(n + 1)) /\ Within(RShift8(q), Faded(n + 1))
    BY <1>4, <2>1, <2>2, <2>3, SMT DEF Within
  <2> QED
    BY <2>4 DEF p, q
<1> QED
  BY <1>5, <1>6, SMT

(* A weight is faded to a quarter in the end.                              *)
LEMMA FadedOut == \A n \in Nat : n >= Fading => Faded(n) = 1048576
BY SMT DEF Faded, Fading

(* A bound at its start.                                                   *)
LEMMA FadedFirst == Faded(0) = 7077888 /\ \A n \in Nat : Faded(n) \in Nat
BY SMT DEF Faded

(* The bound of the other weight is not negative.                          *)
LEMMA BoundOfOther == \A v : Within(v, 3145728) => 3932160 - v \in Nat
BY SMT DEF Within

(* Without a sign no weight adds to another.                               *)
LEMMA SilentWeights ==
    ASSUME Triangle, NEW n \in Nat,
           Within(unk2, Faded(n)), Within(unk3, Faded(n)), ProcessSubband(0)
    PROVE  Within(unk2', Faded(n + 1)) /\ Within(unk3', Faded(n + 1))
<1>1. sign1 * 0 = 0 /\ sign2 * 0 = 0 /\ unk2 \in Int /\ unk3 \in Int
  BY SMT DEF Triangle, Within
<1>2. Cross(unk2, 0) = 0
  <2>1. -unk2 * 0 = 0
    BY <1>1, SMT
  <2>2. RShift1(0) = 0
    BY SMT DEF RShift1
  <2>3. ClipRange(0, -1048576, 1048576) = 0
    BY SMT DEF ClipRange
  <2> QED
    BY <2>1, <2>2, <2>3, SMT DEF Cross
<1>3. Sum3(unk2, unk3, 0, 0) = 254 * unk3
  <2>1. 254 * unk3 + 8388608 * 0 + 256 * (0 \div 16) = 254 * unk3
    BY <1>1, SMT
  <2> QED
    BY <1>2, <2>1, SMT DEF Sum3
<1>4. Sum2(unk2, 0) = 255 * unk2
  BY <1>1, SMT DEF Sum2
<1>5. /\ unk3' = ClipRange(RShift8(254 * unk3), -3145728, 3145728)
      /\ unk2' = ClipRange(RShift8(255 * unk2), -(3932160 - unk3'), 3932160 - unk3')
  BY <1>1, <1>3, <1>4, SMT DEF ProcessSubband, Weight3, Weight2
<1>6. ASSUME NEW v, NEW bound \in Nat, Within(v, bound),
             NEW limit \in Nat
      PROVE  Within(ClipRange(v, -limit, limit), bound)
                /\ Within(ClipRange(v, -limit, limit), limit)
  BY <1>6, SMT DEF ClipRange, Within
<1>7. Within(unk3', Faded(n + 1)) /\ Within(unk3', 3145728)
  BY <1>5, <1>6, WeightFades, FadedFirst, SMT
<1>8. 3932160 - unk3' \in Nat
  BY <1>7, BoundOfOther
<1> QED
  BY <1>5, <1>6, <1>7, <1>8, WeightFades, FadedFirst, SMT

(* With both weights below a quarter the prediction is half of what it was *)
(* made of, rounded away from zero at worst.                               *)
LEMMA PredictionHalves ==
    ASSUME NEW u, NEW v, Within(u, 1048576), Within(v, 1048576),
           NEW bound \in Nat, NEW x, NEW y, Within(x, bound), Within(y, bound)
    PROVE  Within(ScaledSum(<<x, y>>, <<u, v>>, {1, 2}), (bound + 1) \div 2)
<1> DEFINE f == <<x, y>>
           g == <<u, v>>
           P == Products(f, g, {1, 2})
<1>1. u \in Int /\ v \in Int /\ x \in Int /\ y \in Int
  BY SMT DEF Within
<1>2. P \in Int /\ ScaledSum(f, g, {1, 2}) = P \div 4194304
  BY <1>1, TwoProducts, SMT
<1>3. \A k \in {1, 2} : Within(f[k] * g[k], bound * 1048576)
  <2>1. /\ Within(f[1], bound) /\ Within(f[2], bound)
        /\ Within(g[1], 1048576) /\ Within(g[2], 1048576)
    BY SMT
  <2> HIDE DEF f, g
  <2> QED
    BY <2>1, ProductWithin, SMT
<1>4. bound * 1048576 \in Nat
  BY SMT
<1> HIDE DEF f, g
<1>5. Within(P, 2 * (bound * 1048576))
  BY <1>3, <1>4, PairFinite, ProductsBounded, SMT
<1> HIDE DEF P
<1>6. Within(P \div 4194304, (bound + 1) \div 2)
  BY <1>2, <1>5, SMT DEF Within
<1> QED
  BY <1>2, <1>6, SMT DEF f, g

(* Each of the halves is half of the one before.                           *)
LEMMA HalvesFacts ==
    \A n \in 1..23 : /\ Halves[n] \in Nat /\ Halves[n + 1] \in Nat
                     /\ (Halves[n] + 1) \div 2 <= Halves[n + 1]
                     /\ Halves[n + 1] <= Halves[n]
                     /\ Halves[n] <= 8388608
<1>1. \A n \in 1..23 :
        \/ n = 1 \/ n = 2 \/ n = 3 \/ n = 4 \/ n = 5 \/ n = 6 \/ n = 7
        \/ n = 8 \/ n = 9 \/ n = 10 \/ n = 11 \/ n = 12 \/ n = 13 \/ n = 14
        \/ n = 15 \/ n = 16 \/ n = 17 \/ n = 18 \/ n = 19 \/ n = 20 \/ n = 21
        \/ n = 22 \/ n = 23
  BY SMT
<1>2. /\ Halves[1] = 8388608 /\ Halves[2] = 4194304 /\ Halves[3] = 2097152
      /\ Halves[4] = 1048576 /\ Halves[5] = 524288 /\ Halves[6] = 262144
      /\ Halves[7] = 131072 /\ Halves[8] = 65536 /\ Halves[9] = 32768
      /\ Halves[10] = 16384 /\ Halves[11] = 8192 /\ Halves[12] = 4096
      /\ Halves[13] = 2048 /\ Halves[14] = 1024 /\ Halves[15] = 512
      /\ Halves[16] = 256 /\ Halves[17] = 128 /\ Halves[18] = 64
      /\ Halves[19] = 32 /\ Halves[20] = 16 /\ Halves[21] = 8
      /\ Halves[22] = 4 /\ Halves[23] = 2 /\ Halves[24] = 1
  BY SMT DEF Halves
<1> QED
  BY <1>1, <1>2, SMT
(* What a run of silent frames leaves behind: nothing in the taps' window  *)
(* as far back as it goes;                                                 *)
Forgotten == \A k \in Taps : k < quiet => factor[k] = 0

(* no contribution of the taps once it fills the window;                   *)
TapsSilent == quiet >= Width => unk7 = 0

(* fading weights from then on;                                            *)
WeightsFaded ==
    \A n \in Nat : quiet >= Width + n =>
      Within(unk2, Faded(n)) /\ Within(unk3, Faded(n))

(* and, once they are faded, values that halve.                            *)
ValuesHalved ==
    /\ \A n \in 1..24 : quiet >= Width + Fading + 2 * n - 2 =>
         Within(unk6, Halves[n]) /\ Within(unk8, Halves[n])
    /\ \A n \in 1..23 : quiet >= Width + Fading + 2 * n - 1 =>
         Within(unk8, Halves[n + 1])

(* The inductive invariant of a signal that ends.                          *)
SilenceInv ==
    quiet \in Nat /\ Forgotten /\ TapsSilent /\ WeightsFaded /\ ValuesHalved

(* A run of silent frames grows by silent frames, one at a time.           *)
LEMMA QuietGrows ==
    ASSUME quiet \in Nat, NEW a \in Int, Process(a)
    PROVE  quiet' \in Nat /\ quiet' <= quiet + 1 /\ (quiet' > 0 => a = 0)
<1>1. quiet' = IF a # 0 THEN 0 ELSE IF quiet < Settling THEN quiet + 1 ELSE quiet
  BY DEF Process
<1> QED
  BY <1>1

(* The window moves on by one.                                             *)
LEMMA Forgets ==
    ASSUME RingInv, quiet \in Nat, Forgotten, NEW a \in Int, Process(a)
    PROVE  Forgotten'
<1>1. Width \in Nat /\ Width > 0
  BY WidthAssumption
<1>2. factor' = [k \in Taps |-> IF k = 0 THEN a ELSE arr2[i + Width - k + 1]]
  BY DEF Process, Filter
<1>3. quiet' \in Nat /\ quiet' <= quiet + 1 /\ (quiet' > 0 => a = 0)
  BY QuietGrows
<1> SUFFICES ASSUME NEW k \in Taps, k < quiet' PROVE factor'[k] = 0
  BY DEF Forgotten
<1>4. k \in 0..Width - 1 /\ quiet' > 0
  BY <1>1, <1>3 DEF Taps
<1>5. CASE k = 0
  BY <1>2, <1>3, <1>4, <1>5
<1>6. CASE k # 0
  <2>1. k - 1 \in Taps /\ k - 1 < quiet
    BY <1>1, <1>3, <1>4, <1>6 DEF Taps
  <2>2. arr2[i + Width - (k - 1)] = factor[k - 1] /\ factor[k - 1] = 0
    BY <2>1 DEF RingInv, Paired, Forgotten
  <2>3. i \in Int /\ i + Width - (k - 1) = i + Width - k + 1
    BY <1>1, <1>4 DEF RingInv, RingTypeOK
  <2> QED
    BY <1>2, <1>6, <2>2, <2>3
<1> QED
  BY <1>5, <1>6

(* A window of zeros predicts zero.                                        *)
LEMMA ZerosPredictZero ==
    ASSUME NEW f \in [Taps -> Int], NEW g \in [Taps -> Int],
           \A k \in Taps : f[k] = 0
    PROVE  ClampInt24(ScaledSum(f, g, Taps)) = 0
<1>1. \A k \in Taps : f[k] \in Int /\ g[k] \in Int
  OBVIOUS
<1>2. /\ Products(f, g, Taps) \in Int
      /\ ScaledSum(f, g, Taps) = Products(f, g, Taps) \div 4194304
  BY <1>1, TapsFinite, ScaledSumExact
<1>3. \A k \in Taps : Within(f[k] * g[k], 0)
  <2> SUFFICES ASSUME NEW k \in Taps PROVE Within(f[k] * g[k], 0)
    OBVIOUS
  <2>1. g[k] \in Int /\ f[k] = 0
    OBVIOUS
  <2>2. \A z \in Int : Within(0 * z, 0)
    BY SMT DEF Within
  <2> QED
    BY <2>1, <2>2
<1>4. Within(Products(f, g, Taps), Cardinality(Taps) * 0)
  BY <1>3, TapsFinite, ProductsBounded
<1>5. Products(f, g, Taps) = 0
  <2>1. Cardinality(Taps) * 0 = 0
    BY TapsFinite, WidthAssumption
  <2> QED
    BY <1>4, <2>1, SMT DEF Within
<1>6. ScaledSum(f, g, Taps) = 0
  <2>1. 0 \div 4194304 = 0
    BY SMT
  <2> QED
    BY <1>2, <1>5, <2>1, SMT
<1> QED
  BY <1>6, SMT DEF ClampInt24, ClipRange, INT24_MIN, INT24_MAX

(* So the taps fall silent.                                                *)
LEMMA TapsFallSilent ==
    ASSUME RingInv', Forgotten', NEW a \in Int, Process(a)
    PROVE  TapsSilent'
<1> SUFFICES ASSUME quiet' >= Width PROVE unk7' = 0
  BY DEF TapsSilent
<1>1. factor' \in [Taps -> Int] /\ arr1' \in [Taps -> Int]
  BY DEF RingInv, RingTypeOK
<1>2. Width \in Nat /\ quiet' \in Int
  BY WidthAssumption DEF Process
<1>3. \A k \in Taps : factor'[k] = 0
  BY <1>2 DEF Forgotten, Taps
<1>4. unk7' = ClampInt24(ScaledSum(factor', arr1', Taps))
  BY DEF Process, FromTaps
<1> QED
  BY <1>1, <1>3, <1>4, ZerosPredictZero

(* The triangle bounds both of the weights.                                *)
LEMMA TriangleBounds ==
    \A u, v : Within(v, 3145728) /\ Within(u, 3932160 - v) =>
      Within(u, 7077888) /\ Within(v, 7077888)
BY SMT DEF Within

(* Without a difference and without the taps there is no sign, and the     *)
(* weights fade.                                                           *)
LEMMA WeightsFade ==
    ASSUME Triangle, Triangle', quiet \in Nat, TapsSilent, WeightsFaded,
           NEW a \in Int, Process(a)
    PROVE  WeightsFaded'
<1>1. Width \in Nat /\ quiet' \in Nat /\ quiet' <= quiet + 1 /\ (quiet' > 0 => a = 0)
  BY WidthAssumption, QuietGrows
<1> SUFFICES ASSUME NEW n \in Nat, quiet' >= Width + n
             PROVE  Within(unk2', Faded(n)) /\ Within(unk3', Faded(n))
  BY DEF WeightsFaded
<1>2. CASE n = 0
  <2>1. Within(unk2', 7077888) /\ Within(unk3', 7077888)
    BY TriangleBounds DEF Triangle
  <2> QED
    BY <1>2, <2>1, FadedFirst, SMT
<1>3. CASE n # 0
  <2>1. n - 1 \in Nat /\ quiet >= Width + (n - 1) /\ quiet >= Width /\ quiet' > 0
    BY <1>1, <1>3
  <2>2. Within(unk2, Faded(n - 1)) /\ Within(unk3, Faded(n - 1))
    BY <2>1 DEF WeightsFaded
  <2>3. unk7 = 0 /\ a = 0
    BY <1>1, <2>1 DEF TapsSilent
  <2>4. Sign(unk7 + a) = 0
    BY <2>3 DEF Sign
  <2>5. ProcessSubband(0)
    BY <2>4 DEF Process
  <2>6. Within(unk2', Faded((n - 1) + 1)) /\ Within(unk3', Faded((n - 1) + 1))
    BY <2>1, <2>2, <2>5, SilentWeights
  <2> QED
    BY <2>1, <2>6
<1> QED
  BY <1>2, <1>3

(* A number of 24 bits is its own clamping, and clamping brings no number  *)
(* beyond a bound it was within.                                           *)
LEMMA ClampKeeps ==
    \A v : \A bound \in Nat : Within(v, bound) =>
      /\ Within(ClampInt24(v), bound)
      /\ bound <= 8388607 => ClampInt24(v) = v
BY SMT DEF ClampInt24, ClipRange, INT24_MIN, INT24_MAX, Within

(* One silent frame under faded weights.                                   *)
LEMMA SilentFrame ==
    ASSUME NEW bound \in Nat, Within(unk6, bound), Within(unk8, bound),
           Within(unk2', 1048576), Within(unk3', 1048576),
           unk7' = 0, Process(0)
    PROVE  Within(unk8', (bound + 1) \div 2)
<1>1. unk6' = ClampInt24(0 + unk8) /\ 0 + unk8 = unk8 /\ Within(unk6', bound)
  <2>1. unk6' = ClampInt24(0 + unk8) /\ 0 + unk8 = unk8
    BY DEF Process, Within
  <2> QED
    BY <2>1, ClampKeeps
<1>2. Within(ScaledSum(<<unk6', unk6>>, <<unk2', unk3'>>, {1, 2}),
             (bound + 1) \div 2)
  BY <1>1, PredictionHalves
<1>3. (bound + 1) \div 2 \in Nat
  BY SMT
<1>4. Within(FromWeights(unk2', unk3', unk6', unk6), (bound + 1) \div 2)
  BY <1>2, <1>3, ClampKeeps DEF FromWeights
<1>5. unk8' = ClampInt24(0 + FromWeights(unk2', unk3', unk6', unk6))
  BY DEF Process
<1>6. 0 + FromWeights(unk2', unk3', unk6', unk6)
        = FromWeights(unk2', unk3', unk6', unk6)
  BY <1>4 DEF Within
<1> QED
  BY <1>3, <1>4, <1>5, <1>6, ClampKeeps

(* What is within a bound is within a wider one.                           *)
LEMMA WithinMore ==
    \A v : \A near, far \in Nat : Within(v, near) /\ near <= far => Within(v, far)
BY SMT DEF Within

(* Once the weights are faded every value is at most half of the one       *)
(* before, rounded up: unk8 first, and unk6 with the next silent frame.    *)
LEMMA ValuesHalve ==
    ASSUME quiet \in Nat, ValuesHalved, Outputs, Outputs', TapsSilent',
           WeightsFaded', NEW a \in Int, Process(a)
    PROVE  ValuesHalved'
<1> DEFINE Start == Width + Fading
<1>1. /\ Start \in Nat /\ Start >= Width /\ quiet' \in Nat
      /\ quiet' <= quiet + 1 /\ (quiet' > 0 => a = 0)
  BY WidthAssumption, QuietGrows DEF Fading
<1>2. quiet' >= Start => Within(unk2', 1048576) /\ Within(unk3', 1048576)
  <2>1. Fading \in Nat /\ Faded(Fading) = 1048576
    <3>1. Fading \in Nat /\ Fading >= Fading
      BY SMT DEF Fading
    <3> QED
      BY <3>1, FadedOut
  <2> QED
    BY <2>1 DEF WeightsFaded
<1>3. quiet' >= Start => unk7' = 0
  BY <1>1, WidthAssumption DEF TapsSilent
<1>4. quiet' > 0 => unk6' = ClampInt24(unk8)
  <2>1. unk6' = ClampInt24(a + unk8) /\ unk8 \in Int
    BY DEF Process, Outputs, Within
  <2> QED
    BY <1>1, <2>1
<1>5. /\ \A n \in 1..24 : quiet >= Start + 2 * n - 2 =>
            Within(unk6, Halves[n]) /\ Within(unk8, Halves[n])
      /\ \A n \in 1..23 : quiet >= Start + 2 * n - 1 =>
            Within(unk8, Halves[n + 1])
  BY DEF ValuesHalved
<1> HIDE DEF Start
(* The frame after which unk8 is within the next half.                     *)
<1>6. ASSUME NEW n \in 1..23, quiet' >= Start + 2 * n - 1
      PROVE  Within(unk8', Halves[n + 1])
  <2>1. quiet >= Start + 2 * n - 2 /\ quiet' >= Start /\ a = 0
    BY <1>1, <1>6
  <2>2. n \in 1..24
    BY <1>6
  <2>3. Within(unk6, Halves[n]) /\ Within(unk8, Halves[n])
    BY <1>5, <2>1, <2>2
  <2>4. Process(0) /\ Within(unk2', 1048576) /\ Within(unk3', 1048576)
        /\ unk7' = 0
    BY <1>2, <1>3, <2>1
  <2>5. Halves[n] \in Nat /\ Halves[n + 1] \in Nat
        /\ (Halves[n] + 1) \div 2 <= Halves[n + 1]
    BY <1>6, HalvesFacts
  <2>6. Within(unk8', (Halves[n] + 1) \div 2)
    BY <2>3, <2>4, <2>5, SilentFrame
  <2> QED
    <3>1. (Halves[n] + 1) \div 2 \in Nat
      BY <2>5, SMT
    <3> QED
      BY <2>5, <2>6, <3>1, WithinMore
(* And the one after that, which brings unk6 there.                        *)
<1>7. ASSUME NEW n \in 1..24, quiet' >= Start + 2 * n - 2
      PROVE  Within(unk6', Halves[n]) /\ Within(unk8', Halves[n])
  <2>1. CASE n = 1
    BY <2>1, SMT DEF Outputs, Halves, Within
  <2>2. CASE n # 1
    <3>1. n - 1 \in 1..23 /\ (n - 1) + 1 = n
      BY <2>2
    <3>2. quiet >= Start + 2 * (n - 1) - 1
          /\ quiet' >= Start + 2 * (n - 1) - 1 /\ quiet' > 0
      BY <1>1, <1>7, <2>2
    <3>3. Within(unk8, Halves[n])
      BY <1>5, <3>1, <3>2
    <3>4. Halves[n] \in Nat
      BY <3>1, HalvesFacts
    <3>5. Within(unk6', Halves[n])
      BY <1>4, <3>2, <3>3, <3>4, ClampKeeps
    <3>6. Within(unk8', Halves[n])
      BY <1>6, <3>1, <3>2
    <3> QED
      BY <3>5, <3>6
  <2> QED
    BY <2>1, <2>2
<1> QED
  BY <1>6, <1>7 DEF ValuesHalved, Start

(* Nothing has been silent when the codec starts.                          *)
LEMMA SilenceStarts == ProcessorInit => SilenceInv
<1> SUFFICES ASSUME ProcessorInit PROVE SilenceInv
  OBVIOUS
<1>1. quiet = 0 /\ Width \in Nat /\ Width > 0 /\ Fading \in Nat /\ Fading > 0
  BY WidthAssumption, SMT DEF ProcessorInit, Fading
<1>2. Forgotten
  BY <1>1 DEF Forgotten, Taps
<1>3. TapsSilent
  BY <1>1 DEF TapsSilent
<1>4. WeightsFaded
  BY <1>1 DEF WeightsFaded
<1>5. ValuesHalved
  BY <1>1 DEF ValuesHalved
<1> QED
  BY <1>1, <1>2, <1>3, <1>4, <1>5 DEF SilenceInv

(* A frame keeps it, silent or not.                                        *)
LEMMA SilenceKept ==
    ASSUME RingInv, RingInv', Triangle, Triangle', Outputs, Outputs',
           SilenceInv,
           [ProcessorNext]_processor
    PROVE  SilenceInv'
<1>1. ASSUME NEW a \in Differences, Process(a)
      PROVE  SilenceInv'
  <2>1. a \in Int
    BY DifferencesAssumption
  <2>2. /\ quiet \in Nat /\ Forgotten /\ TapsSilent /\ WeightsFaded
        /\ ValuesHalved
    BY DEF SilenceInv
  <2>3. quiet' \in Nat
    BY <1>1, <2>1, <2>2, QuietGrows
  <2>4. Forgotten'
    BY <1>1, <2>1, <2>2, Forgets
  <2>5. TapsSilent'
    BY <1>1, <2>1, <2>4, TapsFallSilent
  <2>6. WeightsFaded'
    BY <1>1, <2>1, <2>2, WeightsFade
  <2>7. ValuesHalved'
    BY <1>1, <2>1, <2>2, <2>5, <2>6, ValuesHalve
  <2> QED
    BY <2>3, <2>4, <2>5, <2>6, <2>7 DEF SilenceInv
<1>2. CASE UNCHANGED processor
  BY <1>2 DEF processor, weights, ring, SilenceInv, Forgotten, TapsSilent,
     WeightsFaded, ValuesHalved
<1> QED
  BY <1>1, <1>2 DEF ProcessorNext

(* When the differences stop the prediction comes to rest, whatever the    *)
(* signal before was: at most one away from zero, 1519 silent frames after *)
(* the taps have forgotten it.  Width of them empty the window of the      *)
(* taps; Fading more let both weights fade to a quarter and below; and     *)
(* with two more each time the values halve, 23 times.                     *)
THEOREM ComesToRest ==
    ASSUME Settling >= Width + Fading + 46
    PROVE  ProcessorSpec => []Settles
<1>1. Outputs /\ SilenceInv => Settles
  <2> SUFFICES ASSUME SilenceInv, quiet = Settling PROVE -1 <= unk8 /\ unk8 <= 1
    BY DEF Settles
  <2>1. quiet >= Width + Fading + 2 * 24 - 2
    BY WidthAssumption, SMT DEF Fading
  <2>2. Within(unk8, Halves[24])
    BY <2>1 DEF SilenceInv, ValuesHalved
  <2> QED
    BY <2>2, SMT DEF Halves, Within
<1>2. RingInv /\ RingInv' /\ Triangle /\ Triangle' /\ Outputs
      /\ Outputs' /\ SilenceInv
      /\ [ProcessorNext]_processor => SilenceInv'
  BY SilenceKept
<1> QED
  BY <1>1, <1>2, SilenceStarts, OutputsOf24Bits, ProcessorImplementsHalves,
     RingInvariant, TriangleInvariant, PTL DEF ProcessorSpec
=============================================================================
