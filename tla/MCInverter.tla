----------------------------- MODULE MCInverter -----------------------------
(***************************************************************************)
(* The step adaptation with the tables of both codecs.  The state space is *)
(* the real one, nothing is scaled down.                                   *)
(***************************************************************************)
EXTENDS Inverter

Codec422 == INSTANCE Params422
CodecHD100 == INSTANCE ParamsHD100

MCSubbands == {"422", "HD100"} \X (0..3)

Of(table422, tableHD100) ==
    [sb \in MCSubbands |->
        IF sb[1] = "422" THEN table422[sb[2]] ELSE tableHD100[sb[2]]]

(* The two codecs have the same table of one octave.                       *)
LogTable == Codec422!LogTable
IncrTable == Of(Codec422!IncrTable, CodecHD100!IncrTable)
CeilingTable == Of(Codec422!CeilingTable, CodecHD100!CeilingTable)
BaseTable == Of(Codec422!BaseTable, CodecHD100!BaseTable)
ThresholdTable == Of(Codec422!ThresholdTable, CodecHD100!ThresholdTable)
DitherTable == Of(Codec422!DitherTable, CodecHD100!DitherTable)
WidthTable == Of(Codec422!FilterWidthTable, CodecHD100!FilterWidthTable)
MCClamped == {"HD100"} \X (0..3)

(* The ends of the range, 256 apart at least.                              *)
MCDithers == {-INT32_MAX - 1, INT32_MAX - 255}

(* Up to four cells at equal distances, with both signs of the innermost   *)
(* one, and the outermost one on the negative side.                        *)
MCIndices ==
    [sb \in MCSubbands |->
        LET n == Len(IncrTable[sb])
        IN  {a \in 0..n - 1 : a % (1 + n \div 4) = 0} \cup {-1, -n}]
=============================================================================
