-------------------------------- MODULE MCQmf --------------------------------
(***************************************************************************)
(* Qmf with the tables of the 422 codec: the extreme samples for the first *)
(* call, and quiet tunes for as many calls as it takes all rings to wrap.  *)
(* A tune repeats after 101 samples, longer than what the outer bank sees; *)
(* its samples are -1, 0 and 1, which the outer bank raises a hundredfold, *)
(* so that the sums of the inner bank stay within the integers of TLC.     *)
(***************************************************************************)
EXTENDS Qmf, Params422

CONSTANTS
    Tunes,   \* how far the tunes step from one sample to the next
    Horizon  \* calls in a tune

VARIABLE tune  \* zero for the extreme samples

Four(a, b, c, d) == [n \in 0..3 |-> <<a, b, c, d>>[n + 1]]

LoudFrames == [0..3 -> {-32768, -1, 0, 1, 32767}]

QuietFrame(k, t) == [n \in 0..3 |-> (((k * (4 * t + n)) % 101) % 3) - 1]

NoRefs == Four(0, 0, 0, 0)
SomeRefs == Four(1, -2, 3, -4)

MCFrames ==
    LoudFrames \cup {QuietFrame(k, t) : k \in Tunes, t \in 0..Horizon - 1}
MCRefs == {NoRefs, SomeRefs}

MCInit == Init /\ tune \in {0} \cup Tunes

FirstCall ==
    /\ tune = 0
    /\ heard = <<>>
    /\ \E samples \in LoudFrames : Analysis(samples, NoRefs)
    /\ UNCHANGED tune

NextCall ==
    LET t == Len(heard) \div 4
    IN  /\ tune # 0
        /\ t < Horizon
        /\ Analysis(QuietFrame(tune, t), IF t = 0 THEN NoRefs ELSE SomeRefs)
        /\ UNCHANGED tune

MCNext == FirstCall \/ NextCall

MCSpec == MCInit /\ [][MCNext]_<<vars, tune>>
=============================================================================
