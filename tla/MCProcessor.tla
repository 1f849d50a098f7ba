---------------------------- MODULE MCProcessor -----------------------------
(***************************************************************************)
(* Processor in three regimes: every sequence of differences for long      *)
(* enough that the ring wraps twice; periodic patterns that may change     *)
(* every 200 frames, in which the weights run into their bounds and swing  *)
(* from one to the other; and constant differences that may change every   *)
(* 3000 frames, in which the taps travel their whole range.                *)
(***************************************************************************)
EXTENDS Processor

VARIABLES hold, word, time

Constant(a) == <<a, a, a, a>>

(* Steady signs, an alternating one, signs that change at every other      *)
(* frame, silence, and a pattern with exact zeros.                         *)
Words ==
    IF hold = 200
    THEN {<<1, 1, 1, 1>>, <<-5, -5, -5, -5>>, <<1, -5, 1, -5>>,
          <<1, 1, -5, -5>>, <<0, 0, 0, 0>>, <<0, 1, 0, -5>>}
    ELSE {Constant(a) : a \in Differences}

MCInit ==
    /\ ProcessorInit
    /\ hold \in {1, 200, 3000}
    /\ word \in Words
    /\ time = 0

Horizon == IF hold = 1 THEN 2 * Width + 1 ELSE 3 * hold

MCNext ==
    /\ time < Horizon
    /\ time' = time + 1
    /\ Process(word[(time % 4) + 1])
    /\ IF time' % hold = 0 THEN word' \in Words ELSE UNCHANGED word
    /\ UNCHANGED hold

MCSpec == MCInit /\ [][MCNext]_<<processor, hold, word, time>>

MCDifferences == {-5, 0, 1}
=============================================================================
