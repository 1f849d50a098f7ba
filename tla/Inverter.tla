------------------------------ MODULE Inverter ------------------------------
(***************************************************************************)
(* The step-size adaptation of aptX_invert_quantization, one subband.      *)
(* unk10 is the logarithm of the step, 256 units to an octave; unk9 is the *)
(* step itself, read from a table of one octave and shifted down.  The     *)
(* same recursion runs in the encoder (aptX_post_encode) and in a decoder, *)
(* fed with nothing but the indices on the wire.  The reconstructed        *)
(* difference unk11 does not feed back into this state: it is a function   *)
(* of the step, the entry and the dither.                                  *)
(***************************************************************************)
EXTENDS Mathex, Sequences

CONSTANTS
    Subbands,  \* those of the codecs the recursion is used for
    Log,       \* log: the octave, entries 0..31
    Incr,      \* subband_param_incr16 per subband, without the unused entry 0
    Ceiling,   \* subband_param_unk1 per subband
    Base,      \* subband_param_unk2 per subband
    Sl1,       \* subband_param_bit16_sl1 per subband, entry 0 first
    Sf1,       \* subband_param_dith16_sf1 per subband, entry 0 first
    Width,     \* taps of the filter that is fed, per subband
    Clamped,   \* subbands whose unk11 is clamped
    Indices,   \* quantiser indices that occur, per subband
    Dithers    \* dithers that occur

Entries(sb) == DOMAIN Incr[sb]

(* An index and its complement select the same entry, one above the        *)
(* magnitude.                                                              *)
Entry(a) == (IF a < 0 THEN -a - 1 ELSE a) + 1

ASSUME IndicesAssumption ==
    \A sb \in Subbands : /\ Indices[sb] \subseteq Int
                         /\ \A a \in Indices[sb] : Entry(a) \in Entries(sb)
ASSUME LogAssumption == Log \in [0..31 -> Nat]
(* The octave ascends, and its last step is below twice its first.         *)
ASSUME OctaveAssumption ==
    /\ \A k, l \in 0..31 : k <= l => Log[k] <= Log[l]
    /\ Log[31] <= 2 * Log[0] + 1
ASSUME IncrAssumption == \A sb \in Subbands : Incr[sb] \in Seq(Int)
(* The innermost cell lowers the logarithm, if only by one.                *)
ASSUME InnermostAssumption ==
    \A sb \in Subbands : Incr[sb] # <<>> /\ Incr[sb][1] < 0
ASSUME CeilingAssumption == Ceiling \in [Subbands -> Nat]
(* The step is shifted down from the top octave, never up.                 *)
ASSUME BaseAssumption ==
    /\ Base \in [Subbands -> Int]
    /\ \A sb \in Subbands : /\ Ceiling[sb] \div 256 <= -3 - Base[sb]
                            /\ -3 - Base[sb] <= 31

(* Shifted as far as it ever is, the first step of the octave is not lost. *)
ASSUME FloorAssumption ==
    \A sb \in Subbands : ShiftRight(Log[0], -3 - Base[sb]) > 0
ASSUME TablesAssumption ==
    \A sb \in Subbands : /\ Sl1[sb] \in Seq(Int) /\ Sf1[sb] \in Seq(Int)
                         /\ Len(Sl1[sb]) = Len(Incr[sb]) + 1
                         /\ Len(Sf1[sb]) = Len(Incr[sb]) + 1
ASSUME WidthAssumption == Width \in [Subbands -> 1..127]
ASSUME ClampedAssumption == Clamped \subseteq Subbands

INT32_MAX == 2147483647

ASSUME DithersAssumption ==
    \A dither \in Dithers : /\ dither \in Int
                            /\ -INT32_MAX - 1 <= dither
                            /\ dither <= INT32_MAX

(* Where the difference is not clamped an entry and its dither together    *)
(* are not too large: in terms of the border below the entry, or           *)
(* absolutely for the innermost one, which has none.                       *)
ASSUME EntriesAssumption ==
    \A sb \in Subbands \ Clamped :
      /\ Log[31] <= INT24_MAX + 1
      /\ \A c \in Entries(sb) :
           LET sl1 == Sl1[sb][c + 1]
               sf1 == Sf1[sb][c + 1]
           IN  /\ 0 <= sl1 /\ 0 <= sf1
               /\ IF c = 1 THEN 16 * Width[sb] * (sl1 + sf1 + 1) <= INT32_MAX
                           ELSE Width[sb] * (sl1 + sf1 + 1) <= 127 * Sl1[sb][c]

VARIABLES
    subband, \* the subband this inverter serves
    unk10,   \* logarithm of the step
    unk9,    \* the step
    last,    \* history variable: which kind of cell was used last
    beat     \* history variable: alternates, so that no frame is a stutter

vars == <<subband, unk10, unk9, last, beat>>

(* Slips: the logarithm does not leak; the increment of the cell above.    *)
AdaptedLeakless(u, c) ==
    ClipRange(RShift15(32768 * u + 32768 * Incr[subband][c]), 0, Ceiling[subband])
AdaptedAbove(u, c) ==
    LET above == IF c + 1 \in Entries(subband) THEN c + 1 ELSE c
    IN  ClipRange(RShift15(32620 * u + 32768 * Incr[subband][above]),
                  0, Ceiling[subband])

(* The leak, 32620/32768, and the increment of the chosen cell.            *)
Adapted(u, c) ==
    ClipRange(RShift15(32620 * u + 32768 * Incr[subband][c]), 0, Ceiling[subband])

(* A slip: the octaves counted up instead of down.                         *)
ShiftUp(u) == -3 - Base[subband] + (u \div 256)

Shift(u) == -3 - Base[subband] - (u \div 256)

(* Slips: one shift too many; an octave of 128 units.                      *)
StepOfHalf(u) == ShiftRight(Log[(u \div 8) % 32], Shift(u) + 1)
StepOfFine(u) == ShiftRight(Log[(u \div 4) % 32], Shift(u))

StepOf(u) == ShiftRight(Log[(u \div 8) % 32], Shift(u))

(* (t * x) >> 19, the factors in two parts each.                           *)
Product19(t, x) ==
    LET mid == (t \div 4096) * (x % 4096) + (t % 4096) * (x \div 4096)
        low == (t % 4096) * (x % 4096)
    IN  32 * (t \div 4096) * (x \div 4096) + (mid + low \div 4096) \div 128

(* rshift32((sl1 << 31) + dither * sf1), the dither in three parts.        *)
Dithered(sl1, sf1, dither) ==
    LET low == (dither % 4096) * (sf1 % 4096)
        mid == ((dither \div 4096) % 4096) * (sf1 % 4096)
               + (dither % 4096) * (sf1 \div 4096) + low \div 4096
        top == 128 * sl1 + (dither \div 16777216) * sf1
               + ((dither \div 4096) % 4096) * (sf1 \div 4096) + mid \div 4096
        tie == top % 256 = 128 /\ mid % 4096 = 0 /\ low % 4096 = 0
    IN  (top + 128) \div 256 - (IF tie THEN 1 ELSE 0)

(* What an index stands for at a step of one, dithered.                    *)
Level(a, dither) ==
    LET sl1 == Sl1[subband][Entry(a) + 1]
    IN  ClampInt24(Dithered(IF a < 0 THEN -sl1 ELSE sl1,
                            Sf1[subband][Entry(a) + 1], dither))

(* A slip: the step is adapted first.                                      *)
DifferenceLate(a, dither) ==
    LET product == Product19(Level(a, dither), StepOf(Adapted(unk10, Entry(a))))
    IN  IF subband \in Clamped THEN ClampInt24(product) ELSE product

(* unk11.                                                                  *)
Difference(a, dither) ==
    LET product == Product19(Level(a, dither), unk9)
    IN  IF subband \in Clamped THEN ClampInt24(product) ELSE product

Init ==
    /\ subband \in Subbands
    /\ unk10 = 0
    /\ unk9 = 0
    /\ last = "none"
    /\ beat = 0

Invert(a) ==
    /\ unk10' = Adapted(unk10, Entry(a))
    /\ unk9' = StepOf(unk10')
    /\ last' = IF Entry(a) = 1 THEN "inner" ELSE "outer"
    /\ beat' = 1 - beat
    /\ UNCHANGED subband

Next == \E a \in Indices[subband] : Invert(a)

(* The encoder is called for every four samples as long as there is audio. *)
Spec == Init /\ [][Next]_vars /\ WF_vars(Next)

-----------------------------------------------------------------------------
(* Properties                                                              *)

(* The shift count of the table look-up is one C defines, whatever indices *)
(* came before; at the ceiling it is exactly zero in every subband.        *)
ShiftDefined == Shift(unk10) \in 0..31

(* Once a frame has been processed the step is never zero again, or every  *)
(* later difference would be coded as the largest cell.                    *)
StepAlive == last # "none" => unk9 > 0

(* A larger logarithm never means a smaller step, across the joints of the *)
(* octaves too.                                                            *)
StepGrows == unk10 < Ceiling[subband] => StepOf(unk10) <= StepOf(unk10 + 1)

(* Two inverters that are fed the same index keep the order of their       *)
(* logarithms and get no further apart, from one unit apart and so from    *)
(* any distance; and the leak brings them closer when they are 222 units   *)
(* apart, and so when they are more.  A decoder that joined late, or was   *)
(* reset in the middle of a stream, comes within an octave (256 units) of  *)
(* the encoder by this; it need not ever reach the same logarithm.         *)
NeverDriftsApart ==
    \A c \in Entries(subband) :
      LET nearest == Adapted(unk10, c)
          after(gap) == Adapted(unk10 + gap, c) - nearest
      IN  /\ unk10 + 1 <= Ceiling[subband] => after(1) \in {0, 1}
          /\ unk10 + 222 <= Ceiling[subband] => after(222) \in 0..221

(* An encoder can choose an entry when the border below it, scaled by the  *)
(* step, is not above a difference of 24 bits.                             *)
CanChoose(c) ==
    c = 1 \/ -Product19(-Sl1[subband][c], unk9) <= 2 * (INT24_MAX + 1)

(* Both signs of an entry leave the sum over the taps, each of them below  *)
(* two, within an int32_t.                                                 *)
Fits(c) ==
    LET most == INT32_MAX \div (2 * Width[subband])
    IN  \A a \in {c - 1, -c}, dither \in Dithers :
          -most <= Difference(a, dither) /\ Difference(a, dither) <= most

(* The difference of the 422 codec is not clamped, and the filter it goes  *)
(* to cuts the sum over its taps down to an int32_t before that is         *)
(* clamped: at any step, with either sign and for any dither what the      *)
(* encoder can choose is small enough for the cut to take nothing away.    *)
(* The quantiser bounds it, not the tables: the largest entry at the       *)
(* largest step would not be.                                              *)
SumFits ==
    subband \notin Clamped =>
      \A c \in Entries(subband) : CanChoose(c) => Fits(c)

(* When the signal stays in the innermost cell the step decays all the way *)
(* to its floor: the rounding of the leak does not hold it up.             *)
SilenceResets == <>[](last = "inner") => <>[](unk10 = 0)
=============================================================================
