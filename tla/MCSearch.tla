------------------------------ MODULE MCSearch ------------------------------
(***************************************************************************)
(* The search with the thresholds of both codecs, for steps of zero,       *)
(* 2 ^ 22 (the lowest entry of the step table) and 2 ^ 23.  Steps are      *)
(* given in multiples of 2 ^ 22, which makes Unit four: the products stay  *)
(* within the integers of TLC.                                             *)
(***************************************************************************)
EXTENDS Search, Sequences

Codec422 == INSTANCE Params422
CodecHD100 == INSTANCE ParamsHD100

MCSubbands == {"422", "HD100"} \X (0..3)

Thresholds(sb) ==
    IF sb[1] = "422" THEN Codec422!ThresholdTable[sb[2]]
    ELSE CodecHD100!ThresholdTable[sb[2]]

MCSize == [sb \in MCSubbands |-> Len(Thresholds(sb))]

MCTables ==
    [sb \in MCSubbands |-> [j \in 0..MCSize[sb] - 1 |-> Thresholds(sb)[j + 1]]]

(* On each border, one below and one above, and the ends of the range of a *)
(* 24-bit difference shifted right by four.                                *)
MCMagnitudes ==
    [sb \in MCSubbands |->
        {0, 1, 524288} \cup
        {b \in UNION {{MCTables[sb][j] \div 4 + d, MCTables[sb][j] \div 2 + d} :
                      j \in 1..MCSize[sb] - 1, d \in {-1, 0, 1}} :
           b <= 524288}]
=============================================================================
