----------------------------- MODULE Processor ------------------------------
(***************************************************************************)
(* aptX_process_subband as a whole, from the reconstructed difference on:  *)
(* the weights of Predictor and the taps of PredictionFilter move in the   *)
(* same call, and the prediction they give (unk8) together with the part   *)
(* the taps contribute (unk7) decides in the next call which way the       *)
(* weights move.  The arithmetic is exact.                                 *)
(***************************************************************************)
EXTENDS Predictor, PredictionFilter, FiniteSetsExt

CONSTANT Settling  \* frames of silence after which the prediction is at rest

ASSUME SettlingAssumption == Settling \in Nat

VARIABLES
    unk6,  \* the last reconstructed value
    unk7,  \* what the taps predict
    unk8,  \* the prediction of the next value
    quiet  \* history variable: zero differences in a row, up to Settling

processor == <<weights, ring, unk6, unk7, unk8, quiet>>

(* (sum over k of f[k] * g[k]) >> 22, the factors in two parts each.      *)
ScaledSum(f, g, indices) ==
    LET H(v) == v \div 2048
        L(v) == v % 2048
        high == MapThenSumSet(LAMBDA k : H(f[k]) * H(g[k]), indices)
        mid  == MapThenSumSet(LAMBDA k : H(f[k]) * L(g[k]) + L(f[k]) * H(g[k]),
                              indices)
        low  == MapThenSumSet(LAMBDA k : L(f[k]) * L(g[k]), indices)
    IN  high + (mid + low \div 2048) \div 2048

Sign(v) == IF v < 0 THEN -1 ELSE IF v > 0 THEN 1 ELSE 0

(* What the taps predict: each is multiplied with what it adapted to.      *)
FromTaps == ClampInt24(ScaledSum(factor, arr1, Taps))

(* A slip: the weights change places.                                      *)
FromWeightsSwapped(u2, u3, newest, before) ==
    ClampInt24(ScaledSum(<<before, newest>>, <<u2, u3>>, {1, 2}))

(* What the weights predict from the last two values.                      *)
FromWeights(u2, u3, newest, before) ==
    ClampInt24(ScaledSum(<<newest, before>>, <<u2, u3>>, {1, 2}))

ProcessorInit ==
    /\ WeightsInit
    /\ RingInit
    /\ unk6 = 0
    /\ unk7 = 0
    /\ unk8 = 0
    /\ quiet = 0

(* a is unk11 of the inverter.                                             *)
Process(a) ==
    /\ ProcessSubband(Sign(unk7 + a))
    /\ Filter(a)
    /\ unk6' = ClampInt24(a + unk8)
    /\ unk7' = FromTaps'
    /\ unk8' = ClampInt24(unk7' + FromWeights(unk2', unk3', unk6', unk6))
    /\ quiet' = IF a # 0 THEN 0
                ELSE IF quiet < Settling THEN quiet + 1 ELSE quiet

ProcessorNext == \E a \in Differences : Process(a)

ProcessorSpec == ProcessorInit /\ [][ProcessorNext]_processor

-----------------------------------------------------------------------------
(* Properties                                                              *)

ProcessorTypeOK == WeightsTypeOK /\ RingTypeOK

Loudest == Max({IF a < 0 THEN -a ELSE a : a \in Differences})

(* The prediction does not build up: it stays within a gain the frozen     *)
(* recursion has at the corners of the weights' range (a tap is below 2,   *)
(* 1 / (1 - 15/16) = 16, and the shifts round down by less than one each   *)
(* time), although the weights move while it runs and a recursion whose    *)
(* every snapshot is stable need not be.                                   *)
GainBounded == LET most == 16 * (2 * (Width + 1) * Loudest + 2)
               IN  -most <= unk8 /\ unk8 <= most

(* When the differences stop the prediction comes to rest: the weights     *)
(* have to fade away first, as with weights near one the shift, which      *)
(* rounds down, would hold the prediction at a constant below zero.        *)
Settles == quiet = Settling => -1 <= unk8 /\ unk8 <= 1
=============================================================================
