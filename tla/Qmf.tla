-------------------------------- MODULE Qmf ---------------------------------
(***************************************************************************)
(* aptX_QMF_analysis: two stages of filter banks split four samples into   *)
(* one value for each subband.  A bank keeps its two inputs in rings of    *)
(* twice its length, reads one of them backwards and the other forwards,   *)
(* and the outer rings advance twice for each step of the inner ones.      *)
(* A sample has as many bits as the outer shift takes off, 16 or 24, as    *)
(* openaptx.h asks of the caller.                                          *)
(***************************************************************************)
EXTENDS Mathex, Sequences

CONSTANTS
    Length,       \* coefficients of a bank, 16 in the code
    OuterCoeffs,
    InnerCoeffs,
    OuterHalf,    \* half a unit of the outer rounding shift: 2 ^ 14 or 2 ^ 22
    InnerHalf,    \* and of the inner one: 2 ^ 22
    Frames,       \* groups of four samples that occur
    Refs          \* predictions that occur

Places == 0..Length - 1

Magnitude(v) == IF v < 0 THEN -v ELSE v

ASSUME LengthAssumption == Length \in Nat \ {0, 1}
ASSUME CoeffsAssumption ==
    OuterCoeffs \in [Places -> Int] /\ InnerCoeffs \in [Places -> Int]
ASSUME HalvesAssumption == OuterHalf \in Nat \ {0} /\ InnerHalf \in Nat \ {0}
ASSUME FramesAssumption ==
    Frames \subseteq [0..3 -> -2 * OuterHalf..2 * OuterHalf - 1]
ASSUME RefsAssumption == Refs \subseteq [0..3 -> Int]

(* The coefficients that meet a group of four samples when it arrives are  *)
(* small in both banks: what the outer ones make of the loudest group the  *)
(* inner ones do not raise to half a unit.                                 *)
Edge == Magnitude(OuterCoeffs[0]) + Magnitude(OuterCoeffs[1])
          + Magnitude(OuterCoeffs[Length - 2]) + Magnitude(OuterCoeffs[Length - 1])
ASSUME QuietAssumption ==
    \A k \in {0, Length - 1} : Magnitude(InnerCoeffs[k]) * Edge < InnerHalf

VARIABLES
    outer,    \* two rings of samples
    inner,    \* four rings of what the outer bank makes of them
    i_outer,
    i_inner,
    diff,     \* the result: subband values less their predictions
    heard,    \* history variable: all samples
    refs      \* history variable: the predictions of the latest call

vars == <<outer, inner, i_outer, i_inner, diff, heard, refs>>

-----------------------------------------------------------------------------

Dot(coeffs, window) ==
    LET sum[k \in 0..Length] ==
          IF k = 0 THEN 0 ELSE sum[k - 1] + coeffs[k - 1] * window[k - 1]
    IN  sum[Length]

(* A slip: the sums are shifted without rounding.                          *)
BankFloors(coeffs, half, s1, s2) ==
    LET f1 == Dot(coeffs, s1) \div (2 * half)
        f2 == Dot(coeffs, s2) \div (2 * half)
    IN  [a |-> f2 + f1, b |-> f2 - f1]

(* aptX_QMF_conv_outer and aptX_QMF_conv_inner.                            *)
Bank(coeffs, half, s1, s2) ==
    LET f1 == ClampInt24(RoundingShift(Dot(coeffs, s1), half, 4 * half))
        f2 == ClampInt24(RoundingShift(Dot(coeffs, s2), half, 4 * half))
    IN  [a |-> ClampInt24(f2 + f1), b |-> ClampInt24(f2 - f1)]

(* A slip: stored once only.                                               *)
PutOnce(ring, i, v) == [ring EXCEPT ![i] = v]

Put(ring, i, v) == [ring EXCEPT ![i] = v, ![i + Length] = v]

Backwards(ring, i) == [k \in Places |-> ring[i + Length - 1 - k]]
Forwards(ring, i) == [k \in Places |-> ring[i + k]]

Silent == [j \in 0..2 * Length - 1 |-> 0]

Init ==
    /\ outer = [n \in 0..1 |-> Silent]
    /\ inner = [n \in 0..3 |-> Silent]
    /\ i_outer = 0
    /\ i_inner = 0
    /\ diff = [sb \in 0..3 |-> 0]
    /\ heard = <<>>
    /\ refs = [sb \in 0..3 |-> 0]

(* A half of the outer stage: two more samples in, one value for each      *)
(* branch of the inner stage out.                                          *)
PutPair(rings, i, even, odd) ==
    [n \in 0..1 |-> Put(rings[n], i, IF n = 0 THEN even ELSE odd)]

OuterBank(rings, i) ==
    Bank(OuterCoeffs, OuterHalf, Backwards(rings[0], i), Forwards(rings[1], i))

InnerBank(ring1, ring2, i) ==
    Bank(InnerCoeffs, InnerHalf, Backwards(ring1, i), Forwards(ring2, i))

Advance(i) == (i + 1) % Length

Analysis(samples, predicted) ==
    LET rings1 == PutPair(outer, i_outer, samples[0], samples[1])
        first  == OuterBank(rings1, Advance(i_outer))
        rings2 == PutPair(rings1, Advance(i_outer), samples[2], samples[3])
        second == OuterBank(rings2, Advance(Advance(i_outer)))
        in     == <<second.a, first.b, first.a, second.b>>
        rings3 == [n \in 0..3 |-> Put(inner[n], i_inner, in[n + 1])]
        low    == InnerBank(rings3[2], rings3[0], Advance(i_inner))
        high   == InnerBank(rings3[1], rings3[3], Advance(i_inner))
    IN  /\ outer' = rings2
        /\ i_outer' = Advance(Advance(i_outer))
        /\ inner' = rings3
        /\ i_inner' = Advance(i_inner)
        /\ diff' = [sb \in 0..3 |->
                      ClampInt24(<<low.a, low.b, high.a, high.b>>[sb + 1]
                                   - predicted[sb])]
        /\ heard' = heard \o <<samples[0], samples[1], samples[2], samples[3]>>
        /\ refs' = predicted

(* The processor predicts nothing before its first call.                   *)
Next ==
    \E samples \in Frames, predicted \in Refs :
      /\ heard = <<>> => predicted = [sb \in 0..3 |-> 0]
      /\ Analysis(samples, predicted)

Spec == Init /\ [][Next]_vars

-----------------------------------------------------------------------------
(* Reference: the same banks over all that was ever heard, without rings.  *)

Sample(n) == IF n \in 1..Len(heard) THEN heard[n] ELSE 0

(* The m-th pair of samples and the pairs before it.                       *)
Outer(m) ==
    Bank(OuterCoeffs, OuterHalf,
         [k \in Places |-> Sample(2 * (m - k) - 1)],
         [k \in Places |-> Sample(2 * (m - (Length - 1 - k)))])

(* The f-th group of four and the groups before it.                        *)
InnerA(f) ==
    Bank(InnerCoeffs, InnerHalf,
         [k \in Places |-> Outer(2 * (f - k) - 1).a],
         [k \in Places |-> Outer(2 * (f - (Length - 1 - k))).a])
InnerB(f) ==
    Bank(InnerCoeffs, InnerHalf,
         [k \in Places |-> Outer(2 * (f - k) - 1).b],
         [k \in Places |-> Outer(2 * (f - (Length - 1 - k))).b])

-----------------------------------------------------------------------------
(* Properties                                                              *)

(* Every sample meets every coefficient once, at the right time and in the *)
(* right order, wherever the rings wrap: the result is that of two stages  *)
(* of filter banks over the whole history.                                 *)
IsFilterBank ==
    LET f == Len(heard) \div 4
    IN  f > 0 =>
          diff = [sb \in 0..3 |->
                    ClampInt24(<<InnerA(f).a, InnerA(f).b,
                                 InnerB(f).a, InnerB(f).b>>[sb + 1] - refs[sb])]

(* The first four samples after aptxbtenc_init do not get through: the     *)
(* outermost coefficients are so small that all four values are rounded to *)
(* zero.  The codeword by which aptx-ffmpeg.c knows a new stream (Stream)  *)
(* rests on it.                                                            *)
QuietStart == Len(heard) <= 4 => diff = [sb \in 0..3 |-> 0]
=============================================================================
