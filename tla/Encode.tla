------------------------------- MODULE Encode -------------------------------
(***************************************************************************)
(* The stereo encoder: encode.c and main.c, with the decision part of      *)
(* quantizer.c.  aptXHD100 is the same code with other table sizes, so one *)
(* module serves both codecs (CONSTANT Cells).                             *)
(*                                                                         *)
(* A call of aptxbtenc_encodestereo is a sequence of six steps:            *)
(*   EncodeChannel(0), EncodeChannel(1), InsertSync,                       *)
(*   PostEncode (both channels), Pack (both channels).                     *)
(* The signal path in front of the quantiser (QMF, prediction) reaches     *)
(* this module as a choice: per subband, which cell of the quantiser table *)
(* the magnitude falls in, the signed distance to the decision point, and  *)
(* the sign of the difference.                                             *)
(***************************************************************************)
EXTENDS Integers

CONSTANTS
    Cells,         \* per subband, cells of the quantiser table per sign
    Register,      \* values of the codeword history, 16 ^ 6 in the code
    Shifts,        \* byte-order shifts aptxbtenc_init may choose
    Signals        \* what the signal path may present to the quantisers

Channels == 0..1
Subbands == 0..3   \* APTX_SUBBAND_LL, _LH, _HL, _HH

Residual == [cell : Nat, error : Int, negative : BOOLEAN]

(* Sizes of the subband tables, half of what aptX_search_LL .. _HH are     *)
(* called with: 65, 9, 3, 5 and 257, 33, 9, 17.                            *)
Cells422 == [sb \in Subbands |-> <<64, 8, 2, 4>>[sb + 1]]
CellsHD100 == [sb \in Subbands |-> <<256, 32, 8, 16>>[sb + 1]]

(* Any table sizes will do; bytes are swapped in 16-bit codewords only.    *)
ASSUME CellsAssumption == Cells \in [Subbands -> Nat \ {0}]
ASSUME RegisterAssumption == Register \in Nat \ {0}
ASSUME ShiftsAssumption ==
    /\ Shifts \subseteq {0, 8}
    /\ 8 \in Shifts => 16 * Cells[0] * Cells[1] * Cells[2] * Cells[3] <= 65536
ASSUME SignalsAssumption ==
    /\ Signals \subseteq [Subbands -> Residual]
    /\ \A s \in Signals, sb \in Subbands : s[sb].cell < Cells[sb]

VARIABLES
    pc,           \* where aptxbtenc_encodestereo stands
    quantizer,    \* per channel and subband: unk1, unk2, unk3
    codeword,     \* per channel: upper bits of the history register
    dither,       \* per channel and subband
    dither_sign,  \* per channel
    sync,         \* frames to go until the next mark
    shift,        \* 8 when the codewords leave with their bytes swapped
    scaled,       \* unk9 of the inverters has left its initial zero
    consumed,     \* what aptX_process_subband was last given
    code,         \* the caller's output
    order         \* history variable: the shift that code was written with

encoder == <<quantizer, codeword, dither, dither_sign, sync, shift, scaled>>
vars == <<pc, encoder, consumed, code, order>>

-----------------------------------------------------------------------------
(* Codeword history and dither                                             *)

(* Two's complement reading of the low digits of x, modulo m.              *)
Wrap(x, m) == ((x + (m \div 2)) % m) - (m \div 2)

(* The nibble aptX_update_codeword_history shifts in: the low bit of HL,   *)
(* the second bit of LH (its weight is 2, so it lands on bit 2) and the    *)
(* two low bits of LL.                                                     *)
Nibble(q) ==
    8 * (q[2].unk1 % 2) + 4 * ((q[1].unk1 \div 2) % 2) + (q[0].unk1 % 4)

UpdateCodewordHistory(h, q) == (16 * h + Nibble(q)) % Register

(* The 48-bit product 0x4F1BBB * (codeword >> 7), as two 24-bit halves.    *)
(* The register holds the history above its eight zero bits, so the shift  *)
(* leaves twice the history; 0x4F1BBB * 2 = 2531 * 4096 + 1910.            *)
Product(h) ==
    LET signed == Wrap(h, Register)
        u      == signed % 16777216
        low    == 1910 * (u % 4096)
        mid    == 2531 * (u % 4096) + 1910 * (u \div 4096) + (low \div 4096)
        high   == 2531 * (u \div 4096) + (mid \div 4096)
    IN  [lo |-> (mid % 4096) * 4096 + (low % 4096),
         hi |-> (high - IF signed < 0 THEN 10368886 ELSE 0) % 16777216]

DitherB(h) == Product(h).hi + Product(h).lo
DitherC(h) == (Product(h).lo \div 4194304) + 4 * DitherB(h)

(* c << 23, 18, 13, 8 in 32-bit arithmetic.                                *)
DitherOf(h) ==
    LET c == DitherC(h)
    IN  [sb \in Subbands |->
            <<Wrap(c, 512) * 8388608, Wrap(c, 16384) * 262144,
              Wrap(c, 524288) * 8192, Wrap(c, 16777216) * 256>>[sb + 1]]

DitherSignOf(h) == (DitherB(h) \div 8388608) % 2

-----------------------------------------------------------------------------
(* Quantiser decision                                                      *)

Abs(x) == IF x < 0 THEN -x ELSE x
Complement(x, negative) == IF negative THEN -x - 1 ELSE x

(* A slip: the search for a zero step runs past the last cell.             *)
QuantisedPastEnd(sb, r) ==
    LET best == IF scaled THEN r.cell ELSE Cells[sb]
    IN  [unk1 |-> Complement(best, r.negative),
         unk2 |-> Complement(best - 1, r.negative),
         unk3 |-> Abs(r.error)]

(* The cell and the neighbour below it are the two candidates; the sign of *)
(* unk3 tells which is the better one.  While the inverter's step is still *)
(* zero the search runs to the last cell and the distance is a magnitude.  *)
Quantised(sb, r) ==
    LET cell  == IF scaled THEN r.cell ELSE Cells[sb] - 1
        error == IF scaled THEN r.error ELSE Abs(r.error)
        best  == IF error < 0 THEN cell - 1 ELSE cell
        other == IF error < 0 THEN cell ELSE cell - 1
    IN  [unk1 |-> Complement(best, r.negative),
         unk2 |-> Complement(other, r.negative),
         unk3 |-> Abs(error)]

-----------------------------------------------------------------------------
(* Parity and the codeword                                                 *)

BitSum(q) == q[0].unk1 + q[1].unk1 + q[2].unk1 + q[3].unk1
Parity(q, sign) == (BitSum(q) + sign) % 2

Width(sb) == 2 * Cells[sb]

(* Slips: HH keeps its own low bit; LL loses its highest bit.              *)
WordWithoutParity(q, sign) ==
    (q[0].unk1 % Width(0))
      + Width(0) * ((q[1].unk1 % Width(1))
      + Width(1) * ((q[2].unk1 % Width(2))
      + Width(2) * (q[3].unk1 % Width(3))))

WordNarrow(q, sign) ==
    (q[0].unk1 % Cells[0])
      + Width(0) * ((q[1].unk1 % Width(1))
      + Width(1) * ((q[2].unk1 % Width(2))
      + Width(2) * (2 * ((q[3].unk1 % Width(3)) \div 2) + Parity(q, sign))))

(* The low bit of HH gives way to the parity of the whole channel.         *)
Word(q, sign) ==
    LET hh == 2 * ((q[3].unk1 % Width(3)) \div 2) + Parity(q, sign)
    IN  (q[0].unk1 % Width(0))
          + Width(0) * ((q[1].unk1 % Width(1))
          + Width(1) * ((q[2].unk1 % Width(2))
          + Width(2) * hh))

SwapBytes(w, s) == IF s = 8 THEN (w \div 256) + 256 * (w % 256) ELSE w

-----------------------------------------------------------------------------
(* Synchronisation                                                         *)

Distance(at) == quantizer[at[1]][at[2]].unk3

Closer(at, best) == IF Distance(at) < Distance(best) THEN at ELSE best

(* A slip: the loop ends before HH.                                        *)
ScanChannelShort(ch, best) ==
    Closer(<<ch, 0>>, Closer(<<ch, 2>>, Closer(<<ch, 1>>, best)))

(* One of the two loops of aptX_insert_sync, over map = {1, 2, 0, 3}.      *)
ScanChannel(ch, best) ==
    Closer(<<ch, 3>>, Closer(<<ch, 0>>,
        Closer(<<ch, 2>>, Closer(<<ch, 1>>, best))))

Cheapest == ScanChannel(0, ScanChannel(1, <<1, 1>>))

FrameParity ==
    (Parity(quantizer[0], dither_sign[0])
        + Parity(quantizer[1], dither_sign[1])) % 2

(* A slip: the mark comes a frame early.                                   *)
WantedEarly == IF sync = 1 THEN 1 ELSE 0

Wanted == IF sync = 0 THEN 1 ELSE 0

-----------------------------------------------------------------------------
(* The steps                                                               *)

Zero == [unk1 |-> 0, unk2 |-> 0, unk3 |-> 0]
NoDither == [sb \in Subbands |-> 0]

(* Slips: a restart that leaves the cycle of marks where it is, or the     *)
(* codeword history.                                                       *)
ResetKeepsSync(s) ==
    /\ shift' = s
    /\ UNCHANGED sync
    /\ quantizer' = [ch \in Channels |-> [sb \in Subbands |-> Zero]]
    /\ codeword' = [ch \in Channels |-> 0]
    /\ dither' = [ch \in Channels |-> NoDither]
    /\ dither_sign' = [ch \in Channels |-> 0]
    /\ scaled' = FALSE

ResetKeepsHistory(s) ==
    /\ shift' = s
    /\ sync' = 7
    /\ quantizer' = [ch \in Channels |-> [sb \in Subbands |-> Zero]]
    /\ UNCHANGED codeword
    /\ dither' = [ch \in Channels |-> NoDither]
    /\ dither_sign' = [ch \in Channels |-> 0]
    /\ scaled' = FALSE

Reset(s) ==
    /\ shift' = s
    /\ sync' = 7
    /\ quantizer' = [ch \in Channels |-> [sb \in Subbands |-> Zero]]
    /\ codeword' = [ch \in Channels |-> 0]
    /\ dither' = [ch \in Channels |-> NoDither]
    /\ dither_sign' = [ch \in Channels |-> 0]
    /\ scaled' = FALSE

Init ==
    /\ pc = "idle"
    /\ shift \in Shifts
    /\ sync = 7
    /\ quantizer = [ch \in Channels |-> [sb \in Subbands |-> Zero]]
    /\ codeword = [ch \in Channels |-> 0]
    /\ dither = [ch \in Channels |-> NoDither]
    /\ dither_sign = [ch \in Channels |-> 0]
    /\ scaled = FALSE
    /\ consumed = [ch \in Channels |-> [a |-> NoDither, dither |-> NoDither]]
    /\ code = [ch \in Channels |-> 0]
    /\ order = shift

(* aptxbtenc_init on a context in use: everything is cleared but the       *)
(* caller's output buffer.                                                 *)
ReInit ==
    /\ pc = "idle"
    /\ \E s \in Shifts : Reset(s)
    /\ UNCHANGED <<pc, consumed, code, order>>

(* aptX_encode: the history takes in the indices of the previous frame,    *)
(* the dither follows from it, then the new differences are quantised.     *)
EncodeChannel(ch, from, to) ==
    /\ pc = from
    /\ pc' = to
    /\ \E s \in Signals :
         LET h == UpdateCodewordHistory(codeword[ch], quantizer[ch])
         IN  /\ codeword' = [codeword EXCEPT ![ch] = h]
             /\ dither' = [dither EXCEPT ![ch] = DitherOf(h)]
             /\ dither_sign' = [dither_sign EXCEPT ![ch] = DitherSignOf(h)]
             /\ quantizer' = [quantizer EXCEPT ![ch] =
                                [sb \in Subbands |-> Quantised(sb, s[sb])]]
    /\ UNCHANGED <<sync, shift, scaled, consumed, code, order>>

(* aptX_insert_sync: when the parity of the frame is not the one the cycle *)
(* asks for, the least certain decision is replaced by its runner-up.      *)
InsertSync ==
    /\ pc = "sync"
    /\ pc' = "post"
    /\ quantizer' =
         IF FrameParity = Wanted THEN quantizer
         ELSE LET at == Cheapest
              IN  [quantizer EXCEPT ![at[1]][at[2]].unk1 =
                     quantizer[at[1]][at[2]].unk2]
    /\ sync' = (sync - 1) % 8
    /\ UNCHANGED <<codeword, dither, dither_sign, shift, scaled, consumed>>
    /\ UNCHANGED <<code, order>>

Indices(q) == [sb \in Subbands |-> q[sb].unk1]

(* aptX_post_encode for both channels: the local decoder follows the       *)
(* indices that will be sent.                                              *)
PostEncode ==
    /\ pc = "post"
    /\ pc' = "pack"
    /\ consumed' = [ch \in Channels |->
                      [a |-> Indices(quantizer[ch]), dither |-> dither[ch]]]
    /\ scaled' = TRUE
    /\ UNCHANGED <<quantizer, codeword, dither, dither_sign, sync, shift>>
    /\ UNCHANGED <<code, order>>

Pack ==
    /\ pc = "pack"
    /\ pc' = "idle"
    /\ code' = [ch \in Channels |->
                  SwapBytes(Word(quantizer[ch], dither_sign[ch]), shift)]
    /\ order' = shift
    /\ UNCHANGED <<encoder, consumed>>

Next ==
    \/ ReInit
    \/ EncodeChannel(0, "idle", "right")
    \/ EncodeChannel(1, "right", "sync")
    \/ InsertSync
    \/ PostEncode
    \/ Pack

Spec == Init /\ [][Next]_vars

-----------------------------------------------------------------------------
(* The receiving end: how a decoder (libavcodec, or the decoder the 4.2.2  *)
(* library itself would need) reads a codeword, given the dither sign.     *)

Below(sb) == CASE sb = 0 -> 1
               [] sb = 1 -> Width(0)
               [] sb = 2 -> Width(0) * Width(1)
               [] sb = 3 -> Width(0) * Width(1) * Width(2)

Field(w, sb) == (w \div Below(sb)) % Width(sb)

ParityBit(w) == Field(w, 3) % 2

UnpackWord(w, sign) ==
    LET ll  == Wrap(Field(w, 0), Width(0))
        lh  == Wrap(Field(w, 1), Width(1))
        hl  == Wrap(Field(w, 2), Width(2))
        low == (ParityBit(w) + ll + lh + hl + sign) % 2
        hh  == Wrap(2 * (Field(w, 3) \div 2) + low, Width(3))
    IN  [sb \in Subbands |-> <<ll, lh, hl, hh>>[sb + 1]]

-----------------------------------------------------------------------------
(* Properties                                                              *)

Decision == [unk1 : Int, unk2 : Int, unk3 : Nat]

InTable(d, sb) ==
    /\ d.unk1 \in -Cells[sb]..Cells[sb] - 1
    /\ d.unk2 \in -Cells[sb]..Cells[sb] - 1

(* Type invariant.  The ranges of unk1 and unk2 matter: the inverse        *)
(* quantiser indexes tables of Cells + 1 entries with what unk1 holds      *)
(* (processor.c, aptX_invert_quantization), flipped or not.                *)
TypeOK ==
    /\ pc \in {"idle", "right", "sync", "post", "pack"}
    /\ quantizer \in [Channels -> [Subbands -> Decision]]
    /\ \A ch \in Channels, sb \in Subbands : InTable(quantizer[ch][sb], sb)
    /\ codeword \in [Channels -> 0..Register - 1]
    /\ dither \in [Channels -> [Subbands -> Int]]
    /\ dither_sign \in [Channels -> 0..1]
    /\ sync \in 0..7
    /\ shift \in Shifts
    /\ scaled \in BOOLEAN
    /\ consumed \in [Channels -> [a : [Subbands -> Int],
                                  dither : [Subbands -> Int]]]
    /\ code \in [Channels -> Int]
    /\ order \in Shifts

(* The parity the two codewords of the frame show on the wire is even but  *)
(* in every eighth frame since aptxbtenc_init, whatever the audio is       *)
(* (aptX_insert_sync together with aptX_pack_codeword).  sync counts down  *)
(* before the frame is packed, so the cycle lags behind it until then.     *)
Framing == INSTANCE SyncPattern WITH
    position <- (IF pc \in {"post", "pack"} THEN 6 - sync ELSE 7 - sync) % 8,
    mark     <- (ParityBit(SwapBytes(code[0], order))
                   + ParityBit(SwapBytes(code[1], order))) % 2

SyncOnTheWire == Framing!Spec

(* The price of a mark: aptX_insert_sync changes nothing when the parity   *)
(* is already right, and otherwise moves one index of one subband by one   *)
(* step, where no other decision of either channel was less certain.       *)
CheapestFlip ==
    [][pc = "sync" /\ pc' = "post" =>
         LET old(at) == quantizer[at[1]][at[2]]
             new(at) == quantizer'[at[1]][at[2]]
             changed == {at \in Channels \X Subbands : new(at) # old(at)}
         IN  IF FrameParity = Wanted
             THEN changed = {}
             ELSE \E at \in Channels \X Subbands :
                    /\ changed = {at}
                    /\ Abs(new(at).unk1 - old(at).unk1) = 1
                    /\ \A other \in Channels \X Subbands :
                         old(at).unk3 <= old(other).unk3]_vars

(* What leaves the encoder is what its own inverse quantisers were fed: a  *)
(* decoder that knows the dither sign reads back from the codeword exactly *)
(* the indices aptX_post_encode consumed, the flipped one included, though *)
(* the low bit of HH is never sent.                                        *)
Decodable ==
    [][pc = "pack" /\ pc' = "idle" =>
         \A ch \in Channels :
           UnpackWord(SwapBytes(code'[ch], shift), dither_sign[ch])
             = consumed[ch].a]_vars
=============================================================================
