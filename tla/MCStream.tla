------------------------------ MODULE MCStream ------------------------------
(***************************************************************************)
(* Stream with frames of silence (all decisions equally certain), mixed    *)
(* ones, with both ends of the tables, runner-ups above and below and the  *)
(* least certain decision in LL; the sudden onset of a sound, which fills  *)
(* the quantisers on the positive side and is least certain in HH; and     *)
(* (HD) frames that fill them on both sides.                               *)
(***************************************************************************)
EXTENDS Stream

Silence == [sb \in Subbands |-> [cell |-> 0, error |-> 0, negative |-> FALSE]]

Onset ==
    [sb \in Subbands |->
        [cell |-> Cells[sb] - 1, error |-> 3 - sb, negative |-> FALSE]]

BothSides ==
    [sb \in Subbands |->
        [cell |-> Cells[sb] - 1, error |-> sb - 2, negative |-> sb # 1]]

Mixed ==
    [sb \in Subbands |->
        [cell |-> <<Cells[0] - 1, 2, 0, Cells[3] - 1>>[sb + 1],
         error |-> <<1, 4, -3, 2>>[sb + 1],
         negative |-> sb \in {0, 3}]]

MCSignals == {Silence, Mixed, Onset}
MCSignalsOnset == {Silence, Onset}
MCSignalsHD100 == {Silence, BothSides}
=============================================================================
