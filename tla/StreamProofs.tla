---------------------------- MODULE StreamProofs ----------------------------
(***************************************************************************)
(* The encoder and the link behind it, for any tables, any size of the     *)
(* history, any audio, and any losses and restarts: the dither, the        *)
(* codewords, the cycle of marks, and the decoder that has to follow it by *)
(* counting.                                                               *)
(***************************************************************************)
EXTENDS Stream, TLAPS

-----------------------------------------------------------------------------
(* Arithmetic                                                              *)

(* A number is taken apart by the base it was put together with.           *)
LEMMA DivMod ==
    ASSUME NEW m \in Nat, m > 0, NEW k \in Int, NEW a \in 0..m - 1
    PROVE  /\ (a + m * k) % m = a
           /\ (a + m * k) \div m = k
<1>1. (a + m * k) \div m = k
  OBVIOUS
<1>2. (a + m * k) = m * ((a + m * k) \div m) + ((a + m * k) % m)
  OBVIOUS
<1> QED
  BY <1>1, <1>2

(* Two divisions in a row are one.                                         *)
LEMMA DivDiv ==
    ASSUME NEW w \in Int, NEW m \in Nat, m > 0, NEW n \in Nat, n > 0
    PROVE  w \div (m * n) = (w \div m) \div n
OBVIOUS

(* Truncating to an even width and sign-extending again loses nothing of a *)
(* number that fits.                                                       *)
LEMMA WrapFits ==
    ASSUME NEW n \in Nat, n > 0, NEW x \in -n..n - 1
    PROVE  /\ x % (2 * n) \in 0..2 * n - 1
           /\ Wrap(x % (2 * n), 2 * n) = x
<1>1. (2 * n) \div 2 = n
  OBVIOUS
<1>2. CASE x >= 0
  <2>1. x % (2 * n) = x
    BY <1>2, DivMod
  <2>2. (x + n) % (2 * n) = x + n
    OBVIOUS
  <2> QED
    BY <1>1, <2>1, <2>2 DEF Wrap
<1>3. CASE x < 0
  <2>1. x = (x + 2 * n) + (2 * n) * (-1)
    OBVIOUS
  <2>2. x % (2 * n) = x + 2 * n
    BY <1>3, <2>1, DivMod
  <2>3. x + 2 * n + n = (x + n) + (2 * n) * 1
    OBVIOUS
  <2>4. (x + 2 * n + n) % (2 * n) = x + n
    BY <1>3, <2>3, DivMod
  <2> QED
    BY <1>1, <1>3, <2>2, <2>4 DEF Wrap
<1> QED
  BY <1>2, <1>3

(* Swapping the bytes of a 16-bit number twice is the identity.            *)
LEMMA SwapTwice ==
    ASSUME NEW s \in {0, 8}, NEW w \in Nat, s = 8 => w <= 65535
    PROVE  SwapBytes(SwapBytes(w, s), s) = w
<1>1. CASE s = 0
  BY <1>1 DEF SwapBytes
<1>2. CASE s = 8
  <2> DEFINE hi == w \div 256
             lo == w % 256
  <2>1. hi \in 0..255 /\ lo \in 0..255 /\ w = lo + 256 * hi
    BY <1>2
  <2> HIDE DEF hi, lo
  <2>2. (hi + 256 * lo) % 256 = hi /\ (hi + 256 * lo) \div 256 = lo
    BY <2>1
  <2>3. SwapBytes(w, s) = hi + 256 * lo
    BY <1>2 DEF SwapBytes, hi, lo
  <2> QED
    BY <1>2, <2>1, <2>2, <2>3 DEF SwapBytes
<1> QED
  BY <1>1, <1>2

-----------------------------------------------------------------------------
(* The codeword                                                            *)

(* Every field of the codeword has an even width that is not zero.         *)
LEMMA WidthType == \A sb \in Subbands : Cells[sb] \in Nat /\ Cells[sb] > 0
                                          /\ Width(sb) = 2 * Cells[sb]
BY CellsAssumption DEF Width

(* The fields of a number written in the mixed base of the codeword.       *)
LEMMA Digits ==
    ASSUME NEW a \in 0..Width(0) - 1, NEW b \in 0..Width(1) - 1,
           NEW c \in 0..Width(2) - 1, NEW d \in 0..Width(3) - 1,
           NEW w, w = a + Width(0) * (b + Width(1) * (c + Width(2) * d))
    PROVE  /\ w \in Nat
           /\ Field(w, 0) = a
           /\ Field(w, 1) = b
           /\ Field(w, 2) = c
           /\ Field(w, 3) = d
<1> DEFINE W0 == Width(0)
           W1 == Width(1)
           W2 == Width(2)
           W3 == Width(3)
           y2 == c + W2 * d
           y1 == b + W1 * y2
<1>1. /\ W0 \in Nat /\ W0 > 0 /\ W1 \in Nat /\ W1 > 0
      /\ W2 \in Nat /\ W2 > 0 /\ W3 \in Nat /\ W3 > 0
  BY WidthType DEF Subbands
<1>2. /\ a \in 0..W0 - 1 /\ b \in 0..W1 - 1 /\ c \in 0..W2 - 1 /\ d \in 0..W3 - 1
      /\ w = a + W0 * y1
  OBVIOUS
<1>3. Below(0) = 1 /\ Below(1) = W0 /\ Below(2) = W0 * W1 /\ Below(3) = W0 * W1 * W2
  BY DEF Below
<1>4. /\ Field(w, 0) = (w \div Below(0)) % W0
      /\ Field(w, 1) = (w \div Below(1)) % W1
      /\ Field(w, 2) = (w \div Below(2)) % W2
      /\ Field(w, 3) = (w \div Below(3)) % W3
  BY DEF Field
<1> HIDE DEF W0, W1, W2, W3
<1>5. y2 \in Nat /\ y2 % W2 = c /\ y2 \div W2 = d
  BY <1>1, <1>2, DivMod
<1> HIDE DEF y2
<1>6. y1 \in Nat /\ y1 % W1 = b /\ y1 \div W1 = y2
  BY <1>1, <1>2, <1>5, DivMod
<1> HIDE DEF y1
<1>7. w \in Nat /\ w % W0 = a /\ w \div W0 = y1
  BY <1>1, <1>2, <1>6, DivMod
<1>8. w \div (W0 * W1) = y2
  BY <1>1, <1>6, <1>7, DivDiv
<1>9. w \div (W0 * W1 * W2) = d
  <2>1. W0 * W1 \in Nat /\ W0 * W1 > 0
    BY <1>1
  <2> QED
    BY <2>1, <1>1, <1>5, <1>7, <1>8, DivDiv
<1>10. w \div 1 = w
  BY <1>7
<1>11. d % W3 = d
  <2>1. d = d + W3 * 0
    BY <1>1, <1>2
  <2> QED
    BY <2>1, <1>1, <1>2, DivMod
<1> QED
  BY <1>3, <1>4, <1>5, <1>6, <1>7, <1>8, <1>9, <1>10, <1>11

Fits(q) == \A sb \in Subbands : q[sb].unk1 \in -Cells[sb]..Cells[sb] - 1

(* The fields of a channel's codeword.                                     *)
LEMMA WordFields ==
    ASSUME NEW q, Fits(q), NEW sign \in 0..1
    PROVE  /\ Word(q, sign) \in Nat
           /\ 8 \in Shifts => Word(q, sign) <= 65535
           /\ Field(Word(q, sign), 0) = q[0].unk1 % Width(0)
           /\ Field(Word(q, sign), 1) = q[1].unk1 % Width(1)
           /\ Field(Word(q, sign), 2) = q[2].unk1 % Width(2)
           /\ Field(Word(q, sign), 3)
                = 2 * ((q[3].unk1 % Width(3)) \div 2) + Parity(q, sign)
<1> DEFINE a == q[0].unk1 % Width(0)
           b == q[1].unk1 % Width(1)
           c == q[2].unk1 % Width(2)
           e == q[3].unk1 % Width(3)
           d == 2 * (e \div 2) + Parity(q, sign)
           w == Word(q, sign)
<1>1. \A sb \in Subbands : q[sb].unk1 % Width(sb) \in 0..Width(sb) - 1
  BY WidthType, WrapFits DEF Fits
<1>2. /\ a \in 0..Width(0) - 1 /\ b \in 0..Width(1) - 1
      /\ c \in 0..Width(2) - 1 /\ e \in 0..Width(3) - 1
  BY <1>1 DEF Subbands
<1>3. Parity(q, sign) \in 0..1
  BY DEF Parity, BitSum, Fits, Subbands
<1>4. d \in 0..Width(3) - 1
  <2>1. Width(3) = 2 * Cells[3] /\ Cells[3] \in Nat
    BY WidthType DEF Subbands
  <2> HIDE DEF e
  <2>2. e \div 2 \in 0..Cells[3] - 1
    BY <1>2, <2>1
  <2> QED
    BY <1>3, <2>1, <2>2
<1>5. w = a + Width(0) * (b + Width(1) * (c + Width(2) * d))
  BY DEF Word
<1> HIDE DEF a, b, c, d, e, w
<1>6. 8 \in Shifts => w <= 65535
  <2> DEFINE y2 == c + Width(2) * d
             y1 == b + Width(1) * y2
             M2 == Width(2) * Width(3)
             M1 == Width(1) * M2
  <2>1. /\ Width(0) = 2 * Cells[0] /\ Width(1) = 2 * Cells[1]
        /\ Width(2) = 2 * Cells[2] /\ Width(3) = 2 * Cells[3]
        /\ Cells[0] \in Nat /\ Cells[1] \in Nat /\ Cells[2] \in Nat /\ Cells[3] \in Nat
    BY WidthType DEF Subbands
  <2>2. y2 \in Nat /\ M2 \in Nat /\ y2 <= M2 - 1
    BY <1>2, <1>4, <2>1
  <2>3. M2 = 4 * (Cells[2] * Cells[3])
    BY <2>1
  <2> HIDE DEF y2, M2
  <2>4. y1 \in Nat /\ M1 \in Nat /\ y1 <= M1 - 1
    BY <1>2, <2>1, <2>2
  <2>5. M1 = 8 * (Cells[1] * (Cells[2] * Cells[3]))
    BY <2>1, <2>3
  <2>6. w = a + Width(0) * y1
    BY <1>5 DEF y2
  <2> HIDE DEF y1, M1
  <2>7. w <= Width(0) * M1 - 1
    BY <1>2, <2>1, <2>4, <2>6
  <2>8. Width(0) * M1 = 16 * Cells[0] * Cells[1] * Cells[2] * Cells[3]
    BY <2>1, <2>5
  <2>9. Width(0) * M1 \in Int /\ w \in Int
    BY <1>2, <2>1, <2>4, <2>6
  <2> QED
    BY <2>7, <2>8, <2>9, ShiftsAssumption
<1> QED
  BY <1>2, <1>4, <1>5, <1>6, Digits DEF a, b, c, d, e, w

(* The bit of HH that carries the parity on the wire.                      *)
LEMMA ParityOnTheWire ==
    ASSUME NEW q, Fits(q), NEW sign \in 0..1
    PROVE  ParityBit(Word(q, sign)) = Parity(q, sign)
<1>1. Parity(q, sign) \in 0..1
  BY DEF Parity, BitSum, Fits, Subbands
<1>2. q[3].unk1 % Width(3) \in Int
  BY WidthType, WrapFits DEF Fits, Subbands
<1> QED
  BY <1>1, <1>2, WordFields DEF ParityBit

(* The decoder recovers the indices, the unsent bit of HH from the parity. *)
LEMMA UnpackOfWord ==
    ASSUME NEW q, Fits(q), NEW sign \in 0..1
    PROVE  UnpackWord(Word(q, sign), sign) = Indices(q)
<1> DEFINE w == Word(q, sign)
           e == q[3].unk1 % Width(3)
           low == (ParityBit(w) + q[0].unk1 + q[1].unk1 + q[2].unk1 + sign) % 2
<1>1. \A sb \in Subbands : /\ q[sb].unk1 \in Int
                           /\ q[sb].unk1 % Width(sb) \in 0..Width(sb) - 1
                           /\ Wrap(q[sb].unk1 % Width(sb), Width(sb)) = q[sb].unk1
  BY WidthType, WrapFits DEF Fits
<1>2. /\ Wrap(Field(w, 0), Width(0)) = q[0].unk1
      /\ Wrap(Field(w, 1), Width(1)) = q[1].unk1
      /\ Wrap(Field(w, 2), Width(2)) = q[2].unk1
  BY <1>1, WordFields DEF Subbands
<1>3. /\ q[0].unk1 \in Int /\ q[1].unk1 \in Int /\ q[2].unk1 \in Int
      /\ q[3].unk1 \in Int /\ e \in Int /\ Wrap(e, Width(3)) = q[3].unk1
  BY <1>1 DEF Subbands
<1>4. Field(w, 3) = 2 * (e \div 2) + Parity(q, sign)
  BY WordFields
<1>5. low = q[3].unk1 % 2
  BY <1>3, ParityOnTheWire DEF Parity, BitSum
<1>6. e % 2 = q[3].unk1 % 2
  <2>1. Width(3) = 2 * Cells[3] /\ Cells[3] \in Nat /\ Cells[3] > 0
    BY WidthType DEF Subbands
  <2>2. q[3].unk1 \in -Cells[3]..Cells[3] - 1
    BY DEF Fits, Subbands
  <2>3. \/ e = q[3].unk1
        \/ e = q[3].unk1 + 2 * Cells[3]
    <3>1. CASE q[3].unk1 >= 0
      BY <2>1, <2>2, <3>1
    <3>2. CASE q[3].unk1 < 0
      BY <2>1, <2>2, <3>2
    <3> QED
      BY <1>3, <3>1, <3>2
  <2> HIDE DEF e
  <2> QED
    BY <1>3, <2>1, <2>3
<1>7. 2 * (Field(w, 3) \div 2) + low = e
  <2>1. Parity(q, sign) \in 0..1
    BY <1>3 DEF Parity, BitSum
  <2> HIDE DEF e, low
  <2>2. Field(w, 3) \div 2 = e \div 2
    BY <1>3, <1>4, <2>1
  <2>3. e = 2 * (e \div 2) + (e % 2)
    BY <1>3
  <2> QED
    BY <1>5, <1>6, <2>2, <2>3
<1>8. UnpackWord(w, sign) =
        [sb \in Subbands |->
          <<q[0].unk1, q[1].unk1, q[2].unk1, q[3].unk1>>[sb + 1]]
  BY <1>2, <1>3, <1>7 DEF UnpackWord
<1>9. \A sb \in Subbands :
        <<q[0].unk1, q[1].unk1, q[2].unk1, q[3].unk1>>[sb + 1] = q[sb].unk1
  BY DEF Subbands
<1> QED
  BY <1>8, <1>9 DEF Indices

-----------------------------------------------------------------------------
(* The inductive invariant                                                 *)

Adjacent(q) ==
    \A sb \in Subbands : q[sb].unk1 - q[sb].unk2 \in {-1, 1}

(* The runner-up of a fresh decision is one step away, so that taking it   *)
(* flips the parity.                                                       *)
RunnerUpAdjacent ==
    /\ pc \in {"right", "sync"} => Adjacent(quantizer[0])
    /\ pc = "sync" => Adjacent(quantizer[1])

(* Between aptX_insert_sync and the packing of the codewords the frame has *)
(* the parity the cycle asked for, the counter being one step ahead.       *)
ParityPlanted ==
    pc \in {"post", "pack"} => FrameParity = IF sync = 7 THEN 1 ELSE 0

ConsumedIsSent ==
    pc = "pack" => \A ch \in Channels :
                     consumed[ch].a = Indices(quantizer[ch])

IInv == TypeOK /\ RunnerUpAdjacent /\ ParityPlanted /\ ConsumedIsSent

-----------------------------------------------------------------------------
(* The operators of the steps                                              *)

(* The history register has at least one value.                            *)
LEMMA RegisterType == Register \in Nat /\ Register > 0
BY RegisterAssumption

(* Reading low digits as a signed number gives an integer.                 *)
LEMMA WrapType ==
    ASSUME NEW x \in Int, NEW m \in Nat, m > 0
    PROVE  Wrap(x, m) \in Int
BY DEF Wrap

(* Shifting a nibble in keeps the history inside its register.             *)
LEMMA HistoryType ==
    ASSUME NEW h \in 0..Register - 1, NEW q, Fits(q)
    PROVE  UpdateCodewordHistory(h, q) \in 0..Register - 1
<1>1. Nibble(q) \in Int
  BY DEF Nibble, Fits, Subbands
<1> QED
  BY <1>1, RegisterType DEF UpdateCodewordHistory

(* Both halves of the product are integers.                                *)
LEMMA ProductType ==
    ASSUME NEW h \in 0..Register - 1
    PROVE  Product(h).lo \in Int /\ Product(h).hi \in Int
<1> DEFINE u == Wrap(h, Register) % 16777216
<1>1. Wrap(h, Register) \in Int
  BY RegisterType, WrapType
<1>2. u \in Int /\ u % 4096 \in Int /\ u \div 4096 \in Int
  BY <1>1, SMT
<1> HIDE DEF u
<1>3. Product(h) =
        LET low  == 1910 * (u % 4096)
            mid  == 2531 * (u % 4096) + 1910 * (u \div 4096) + (low \div 4096)
            high == 2531 * (u \div 4096) + (mid \div 4096)
        IN  [lo |-> (mid % 4096) * 4096 + (low % 4096),
             hi |-> (high - IF Wrap(h, Register) < 0 THEN 10368886 ELSE 0)
                      % 16777216]
  BY SMT DEF Product, u
<1> QED
  BY <1>1, <1>2, <1>3, SMT

(* The dither of every subband is an integer, its sign a bit.              *)
LEMMA DitherType ==
    ASSUME NEW h \in 0..Register - 1
    PROVE  /\ DitherOf(h) \in [Subbands -> Int]
           /\ DitherSignOf(h) \in 0..1
<1>1. DitherB(h) \in Int /\ DitherC(h) \in Int
  BY ProductType, SMT DEF DitherB, DitherC
<1>2. \A m \in {512, 16384, 524288, 16777216} : Wrap(DitherC(h), m) \in Int
  BY <1>1, WrapType, SMT
<1>3. DitherSignOf(h) \in 0..1
  BY <1>1, SMT DEF DitherSignOf
<1> QED
  BY <1>2, <1>3, SMT DEF DitherOf, Subbands

(* A decision and its runner-up are neighbours, both inside the table.     *)
LEMMA QuantisedType ==
    ASSUME TypeOK, NEW s \in Signals, NEW sb \in Subbands
    PROVE  /\ Quantised(sb, s[sb]) \in Decision /\ InTable(Quantised(sb, s[sb]), sb)
           /\ Quantised(sb, s[sb]).unk1 - Quantised(sb, s[sb]).unk2 \in {-1, 1}
<1>1. /\ s[sb].cell \in 0..Cells[sb] - 1
      /\ s[sb].error \in Int
      /\ s[sb].negative \in BOOLEAN
  <2>1. s \in [Subbands -> Residual]
    BY SignalsAssumption
  <2>2. s[sb] \in Residual
    BY <2>1
  <2>3. s[sb].cell \in Nat /\ s[sb].cell < Cells[sb] /\ Cells[sb] \in Nat
    BY <2>2, SignalsAssumption, WidthType DEF Residual
  <2> QED
    BY <2>2, <2>3 DEF Residual
<1>2. Cells[sb] \in Nat /\ Cells[sb] > 0 /\ scaled \in BOOLEAN
  BY WidthType DEF TypeOK
<1> QED
  BY <1>1, <1>2 DEF Quantised, Decision, InTable, Complement, Abs

(* A type-correct channel fits the fields of a codeword.                   *)
LEMMA FitsType ==
    ASSUME TypeOK, NEW ch \in Channels
    PROVE  Fits(quantizer[ch])
BY DEF TypeOK, Fits, Decision, InTable

-----------------------------------------------------------------------------
(* Taking the runner-up                                                    *)

(* The two loops of aptX_insert_sync find a decision of least distance.    *)
LEMMA CheapestIsLeast ==
    ASSUME TypeOK
    PROVE  /\ Cheapest \in Channels \X Subbands
           /\ \A at \in Channels \X Subbands :
                Distance(Cheapest) <= Distance(at)
<1> DEFINE All == Channels \X Subbands
<1>1. \A at \in All : Distance(at) \in Nat
  BY DEF TypeOK, Decision, InTable, Distance
<1> HIDE DEF All
<1>2. ASSUME NEW at \in All, NEW best \in All
      PROVE  /\ Closer(at, best) \in All
             /\ Distance(Closer(at, best)) <= Distance(at)
             /\ Distance(Closer(at, best)) <= Distance(best)
  BY <1>1, <1>2 DEF Closer
<1>3. ASSUME NEW ch \in Channels, NEW best \in All
      PROVE  /\ ScanChannel(ch, best) \in All
             /\ Distance(ScanChannel(ch, best)) <= Distance(best)
             /\ \A sb \in Subbands :
                  Distance(ScanChannel(ch, best)) <= Distance(<<ch, sb>>)
  <2> DEFINE c1 == Closer(<<ch, 1>>, best)
             c2 == Closer(<<ch, 2>>, c1)
             c3 == Closer(<<ch, 0>>, c2)
             c4 == Closer(<<ch, 3>>, c3)
  <2>1. /\ <<ch, 0>> \in All /\ <<ch, 1>> \in All
        /\ <<ch, 2>> \in All /\ <<ch, 3>> \in All
    BY DEF All, Subbands
  <2>2. /\ c1 \in All /\ Distance(c1) <= Distance(best)
        /\ Distance(c1) <= Distance(<<ch, 1>>)
    BY <1>2, <1>3, <2>1
  <2> HIDE DEF c1
  <2>3. /\ c2 \in All /\ Distance(c2) <= Distance(c1)
        /\ Distance(c2) <= Distance(<<ch, 2>>)
    BY <1>2, <2>1, <2>2
  <2> HIDE DEF c2
  <2>4. /\ c3 \in All /\ Distance(c3) <= Distance(c2)
        /\ Distance(c3) <= Distance(<<ch, 0>>)
    BY <1>2, <2>1, <2>3
  <2> HIDE DEF c3
  <2>5. /\ c4 \in All /\ Distance(c4) <= Distance(c3)
        /\ Distance(c4) <= Distance(<<ch, 3>>)
    BY <1>2, <2>1, <2>4
  <2>6. ScanChannel(ch, best) = c4
    BY DEF ScanChannel, c1, c2, c3
  <2> HIDE DEF c4
  <2>7. /\ Distance(c4) <= Distance(best)
        /\ Distance(c4) <= Distance(<<ch, 0>>)
        /\ Distance(c4) <= Distance(<<ch, 1>>)
        /\ Distance(c4) <= Distance(<<ch, 2>>)
        /\ Distance(c4) <= Distance(<<ch, 3>>)
    BY <1>1, <1>3, <2>1, <2>2, <2>3, <2>4, <2>5
  <2> QED
    BY <2>5, <2>6, <2>7 DEF Subbands
<1> DEFINE right == ScanChannel(1, <<1, 1>>)
<1>4. /\ right \in All
      /\ \A sb \in Subbands : Distance(right) <= Distance(<<1, sb>>)
  BY <1>3 DEF All, Channels, Subbands
<1> HIDE DEF right
<1>5. /\ ScanChannel(0, right) \in All
      /\ Distance(ScanChannel(0, right)) <= Distance(right)
      /\ \A sb \in Subbands :
           Distance(ScanChannel(0, right)) <= Distance(<<0, sb>>)
  BY <1>3, <1>4 DEF Channels
<1>6. Cheapest = ScanChannel(0, right)
  BY DEF Cheapest, right
<1>7. ASSUME NEW at \in All
      PROVE  Distance(Cheapest) <= Distance(at)
  <2>1. PICK ch \in Channels, sb \in Subbands : at = <<ch, sb>>
    BY <1>7 DEF All
  <2>2. CASE ch = 0
    BY <1>5, <1>6, <2>1, <2>2
  <2>3. CASE ch = 1
    <3>1. Distance(right) <= Distance(at)
      BY <1>4, <2>1, <2>3
    <3> QED
      BY <1>1, <1>4, <1>5, <1>6, <1>7, <3>1
  <2> QED
    BY <2>1, <2>2, <2>3 DEF Channels
<1> QED
  BY <1>5, <1>6, <1>7 DEF All

(* Moving one index by one turns the parity of a frame, whichever channel  *)
(* it is in.                                                               *)
LEMMA OneStepTurns ==
    ASSUME NEW x \in Int, NEW y \in Int, NEW z \in Int, NEW s \in 0..1, NEW t \in 0..1,
           z - x \in {-1, 1}
    PROVE  /\ (((z + s) % 2) + ((y + t) % 2)) % 2
                = 1 - ((((x + s) % 2) + ((y + t) % 2)) % 2)
           /\ (((y + t) % 2) + ((z + s) % 2)) % 2
                = 1 - ((((y + t) % 2) + ((x + s) % 2)) % 2)
<1>1. (z + s) % 2 = 1 - ((x + s) % 2)
  OBVIOUS
<1>2. (x + s) % 2 \in 0..1 /\ (y + t) % 2 \in 0..1
  OBVIOUS
<1> QED
  BY <1>1, <1>2

(* What aptX_insert_sync leaves behind.                                    *)
LEMMA FlipResult ==
    ASSUME IInv, InsertSync, FrameParity # Wanted
    PROVE  \E at \in Channels \X Subbands :
             /\ quantizer' = [quantizer EXCEPT ![at[1]][at[2]].unk1 =
                                quantizer[at[1]][at[2]].unk2]
             /\ Adjacent(quantizer[at[1]])
             /\ \A other \in Channels \X Subbands :
                  Distance(at) <= Distance(other)
<1>1. Cheapest \in Channels \X Subbands
  BY CheapestIsLeast DEF IInv
<1>2. Cheapest[1] \in Channels
  BY <1>1
<1>3. Adjacent(quantizer[Cheapest[1]])
  BY <1>2 DEF IInv, RunnerUpAdjacent, InsertSync, Channels
<1>4. quantizer' = [quantizer EXCEPT ![Cheapest[1]][Cheapest[2]].unk1 =
                      quantizer[Cheapest[1]][Cheapest[2]].unk2]
  BY DEF InsertSync
<1> QED
  BY <1>1, <1>3, <1>4, CheapestIsLeast DEF IInv

(* The same for the step the code takes, unk1 = unk2.                      *)
LEMMA FlipTurnsParity ==
    ASSUME TypeOK, dither_sign' = dither_sign,
           NEW ch \in Channels, NEW sb \in Subbands,
           Adjacent(quantizer[ch]),
           quantizer' = [quantizer EXCEPT ![ch][sb].unk1 = quantizer[ch][sb].unk2]
    PROVE  FrameParity' = 1 - FrameParity
<1> DEFINE Sum(q) == BitSum(q[0]) + BitSum(q[1])
<1>1. \A c \in Channels : /\ BitSum(quantizer[c]) \in Int
                          /\ dither_sign[c] \in 0..1
  BY FitsType DEF TypeOK, Fits, BitSum, Subbands
<1>2. \A c \in Channels, b \in Subbands :
        quantizer'[c][b].unk1 =
          IF c = ch /\ b = sb THEN quantizer[ch][sb].unk2 ELSE quantizer[c][b].unk1
  BY DEF TypeOK, Decision, InTable
<1>3. /\ quantizer[ch][sb].unk1 \in Int /\ quantizer[ch][sb].unk2 \in Int
      /\ quantizer[ch][sb].unk1 - quantizer[ch][sb].unk2 \in {-1, 1}
  BY DEF TypeOK, Decision, InTable, Adjacent
<1>4. \A c \in Channels, b \in Subbands : quantizer[c][b].unk1 \in Int
  BY DEF TypeOK, Decision, InTable
<1>5. BitSum(quantizer'[ch]) - BitSum(quantizer[ch])
        = quantizer[ch][sb].unk2 - quantizer[ch][sb].unk1
  <2>1. CASE sb = 0
    BY <1>2, <1>3, <1>4, <2>1 DEF BitSum, Subbands
  <2>2. CASE sb = 1
    BY <1>2, <1>3, <1>4, <2>2 DEF BitSum, Subbands
  <2>3. CASE sb = 2
    BY <1>2, <1>3, <1>4, <2>3 DEF BitSum, Subbands
  <2>4. CASE sb = 3
    BY <1>2, <1>3, <1>4, <2>4 DEF BitSum, Subbands
  <2> QED
    BY <2>1, <2>2, <2>3, <2>4 DEF Subbands
<1>6. \A c \in Channels : c # ch => BitSum(quantizer'[c]) = BitSum(quantizer[c])
  BY <1>2 DEF BitSum, Subbands
<1>7. BitSum(quantizer'[ch]) \in Int
  BY <1>2, <1>3, <1>4 DEF BitSum, Subbands
<1>8. /\ FrameParity = (((BitSum(quantizer[0]) + dither_sign[0]) % 2)
                         + ((BitSum(quantizer[1]) + dither_sign[1]) % 2)) % 2
      /\ FrameParity' = (((BitSum(quantizer'[0]) + dither_sign[0]) % 2)
                         + ((BitSum(quantizer'[1]) + dither_sign[1]) % 2)) % 2
  BY DEF FrameParity, Parity, BitSum
<1>9. BitSum(quantizer'[ch]) - BitSum(quantizer[ch]) \in {-1, 1}
  BY <1>3, <1>5
<1>10. CASE ch = 0
  <2>1. BitSum(quantizer'[1]) = BitSum(quantizer[1])
    BY <1>6, <1>10 DEF Channels
  <2> QED
    BY <1>1, <1>7, <1>8, <1>9, <1>10, <2>1, OneStepTurns DEF Channels
<1>11. CASE ch = 1
  <2>1. BitSum(quantizer'[0]) = BitSum(quantizer[0])
    BY <1>6, <1>11 DEF Channels
  <2> QED
    BY <1>1, <1>7, <1>8, <1>9, <1>11, <2>1, OneStepTurns DEF Channels
<1> QED
  BY <1>10, <1>11 DEF Channels

-----------------------------------------------------------------------------
(* The invariant is inductive                                              *)

(* A fresh encoder satisfies the inductive invariant.                      *)
LEMMA InitIInv == Init => IInv
<1> SUFFICES ASSUME Init PROVE IInv
  OBVIOUS
<1>1. Zero \in Decision /\ \A sb \in Subbands : InTable(Zero, sb)
  BY WidthType DEF Zero, Decision, InTable
<1>2. shift \in Shifts /\ 0 \in 0..Register - 1
  BY RegisterType DEF Init
<1>3. TypeOK
  <2>1. /\ quantizer \in [Channels -> [Subbands -> Decision]]
        /\ \A ch \in Channels, sb \in Subbands : quantizer[ch][sb] = Zero
    BY <1>1 DEF Init
  <2>2. /\ dither \in [Channels -> [Subbands -> Int]]
        /\ consumed \in [Channels -> [a : [Subbands -> Int],
                                      dither : [Subbands -> Int]]]
    BY DEF Init, NoDither
  <2>3. /\ codeword \in [Channels -> 0..Register - 1]
        /\ dither_sign \in [Channels -> 0..1]
        /\ code \in [Channels -> Int]
    BY <1>2 DEF Init
  <2>4. scaled \in BOOLEAN
    BY DEF Init
  <2>5. /\ pc \in {"idle", "right", "sync", "post", "pack"}
        /\ sync \in 0..7
        /\ order \in Shifts
    BY <1>2 DEF Init
  <2> QED
    BY <1>1, <1>2, <2>1, <2>2, <2>3, <2>4, <2>5 DEF TypeOK
<1> QED
  BY <1>3 DEF Init, IInv, RunnerUpAdjacent, ParityPlanted, ConsumedIsSent

(* Every step of the encoder preserves it.                                 *)
LEMMA StepIInv == IInv /\ [Next]_vars => IInv'
<1> SUFFICES ASSUME IInv, [Next]_vars PROVE IInv'
  OBVIOUS
<1> USE DEF IInv
<1>1. ASSUME ReInit PROVE IInv'
  <2>1. Zero \in Decision /\ \A sb \in Subbands : InTable(Zero, sb)
    BY WidthType DEF Zero, Decision, InTable
  <2>2. 0 \in 0..Register - 1
    BY RegisterType
  <2>3. TypeOK'
    <3>1. PICK s \in Shifts : Reset(s)
      BY <1>1 DEF ReInit
    <3>2. /\ quantizer' \in [Channels -> [Subbands -> Decision]]
          /\ \A ch \in Channels, sb \in Subbands : quantizer'[ch][sb] = Zero
      BY <2>1, <3>1 DEF Reset
    <3>3. /\ dither' \in [Channels -> [Subbands -> Int]]
          /\ codeword' \in [Channels -> 0..Register - 1]
          /\ dither_sign' \in [Channels -> 0..1]
      BY <2>2, <3>1 DEF Reset, NoDither
    <3>4. sync' \in 0..7 /\ shift' \in Shifts
      BY <3>1 DEF Reset
    <3>5. scaled' \in BOOLEAN
      BY <3>1 DEF Reset
    <3> QED
      BY <1>1, <2>1, <3>2, <3>3, <3>4, <3>5 DEF ReInit, TypeOK
  <2> QED
    BY <1>1, <2>3 DEF ReInit, RunnerUpAdjacent, ParityPlanted, ConsumedIsSent
<1>2. ASSUME NEW ch \in Channels, NEW from, NEW to,
             \/ ch = 0 /\ from = "idle" /\ to = "right"
             \/ ch = 1 /\ from = "right" /\ to = "sync",
             EncodeChannel(ch, from, to)
      PROVE  IInv'
  <2> DEFINE h == UpdateCodewordHistory(codeword[ch], quantizer[ch])
  <2>1. PICK s \in Signals :
          /\ codeword' = [codeword EXCEPT ![ch] = h]
          /\ dither' = [dither EXCEPT ![ch] = DitherOf(h)]
          /\ dither_sign' = [dither_sign EXCEPT ![ch] = DitherSignOf(h)]
          /\ quantizer' = [quantizer EXCEPT ![ch] =
                             [sb \in Subbands |-> Quantised(sb, s[sb])]]
    BY <1>2 DEF EncodeChannel
  <2>2. h \in 0..Register - 1
    <3>1. codeword[ch] \in 0..Register - 1
      BY DEF TypeOK
    <3> QED
      BY <3>1, FitsType, HistoryType
  <2> HIDE DEF h
  <2>3. DitherOf(h) \in [Subbands -> Int] /\ DitherSignOf(h) \in 0..1
    BY <2>2, DitherType
  <2>4. \A sb \in Subbands :
          /\ Quantised(sb, s[sb]) \in Decision /\ InTable(Quantised(sb, s[sb]), sb)
          /\ Quantised(sb, s[sb]).unk1 - Quantised(sb, s[sb]).unk2 \in {-1, 1}
    BY QuantisedType
  <2>5. /\ pc' = to
        /\ UNCHANGED <<sync, shift, scaled, consumed, code, order>>
    BY <1>2 DEF EncodeChannel
  <2>6. /\ \A c \in Channels \ {ch} : quantizer'[c] = quantizer[c]
        /\ quantizer'[ch] = [sb \in Subbands |-> Quantised(sb, s[sb])]
        /\ quantizer' \in [Channels -> [Subbands -> Decision]]
    BY <2>1, <2>4 DEF TypeOK
  <2>7. TypeOK'
    BY <1>2, <2>1, <2>2, <2>3, <2>4, <2>5, <2>6 DEF TypeOK
  <2>8. Adjacent(quantizer'[ch])
    BY <2>4, <2>6 DEF Adjacent
  <2>9. RunnerUpAdjacent'
    <3>1. CASE ch = 0
      BY <1>2, <2>5, <2>8, <3>1 DEF RunnerUpAdjacent
    <3>2. CASE ch = 1
      <4>1. pc = "right" /\ quantizer'[0] = quantizer[0]
        BY <1>2, <2>6, <3>2 DEF EncodeChannel, Channels
      <4> QED
        BY <1>2, <2>5, <2>8, <3>2, <4>1 DEF RunnerUpAdjacent
    <3> QED
      BY <3>1, <3>2 DEF Channels
  <2> QED
    BY <1>2, <2>5, <2>7, <2>9 DEF ParityPlanted, ConsumedIsSent
<1>3. ASSUME InsertSync PROVE IInv'
  <2>1. TypeOK'
    <3>1. CASE FrameParity = Wanted
      BY <1>3, <3>1 DEF InsertSync, TypeOK
    <3>2. CASE FrameParity # Wanted
      <4>1. PICK at \in Channels \X Subbands :
              quantizer' = [quantizer EXCEPT ![at[1]][at[2]].unk1 =
                              quantizer[at[1]][at[2]].unk2]
        BY <1>3, <3>2, FlipResult
      <4>2. /\ quantizer' \in [Channels -> [Subbands -> Decision]]
            /\ \A c \in Channels, b \in Subbands :
                 InTable(quantizer'[c][b], b)
        <5>1. at[1] \in Channels /\ at[2] \in Subbands
          BY <4>1
        <5>2. \A c \in Channels, b \in Subbands :
                quantizer'[c][b] =
                  IF c = at[1] /\ b = at[2]
                  THEN [quantizer[c][b] EXCEPT !.unk1 = quantizer[c][b].unk2]
                  ELSE quantizer[c][b]
          BY <4>1, <5>1 DEF TypeOK
        <5>3. \A c \in Channels, b \in Subbands :
                quantizer[c][b] \in Decision /\ InTable(quantizer[c][b], b)
          BY DEF TypeOK
        <5>4. \A c \in Channels, b \in Subbands :
                quantizer'[c][b] \in Decision /\ InTable(quantizer'[c][b], b)
          <6> TAKE c \in Channels, b \in Subbands
          <6>1. quantizer[c][b] \in Decision /\ InTable(quantizer[c][b], b)
            BY <5>3
          <6>2. LET d == [quantizer[c][b] EXCEPT !.unk1 = quantizer[c][b].unk2]
                IN  d \in Decision /\ InTable(d, b)
            BY <6>1 DEF Decision, InTable
          <6> QED
            BY <5>2, <6>1, <6>2
        <5>5. /\ quantizer' = [c \in Channels |-> quantizer'[c]]
              /\ \A c \in Channels :
                   quantizer'[c] = [b \in Subbands |-> quantizer'[c][b]]
          BY <4>1, <5>1 DEF TypeOK
        <5> QED
          BY <5>4, <5>5
      <4> QED
        <5>1. sync' \in 0..7
          BY <1>3 DEF InsertSync, TypeOK
        <5> QED
          BY <1>3, <4>2, <5>1 DEF InsertSync, TypeOK
    <3> QED
      BY <3>1, <3>2
  <2>2. FrameParity' = Wanted
    <3>1. CASE FrameParity = Wanted
      BY <1>3, <3>1 DEF InsertSync, FrameParity
    <3>2. CASE FrameParity # Wanted
      <4>1. PICK at \in Channels \X Subbands :
              /\ quantizer' = [quantizer EXCEPT ![at[1]][at[2]].unk1 =
                                 quantizer[at[1]][at[2]].unk2]
              /\ Adjacent(quantizer[at[1]])
        BY <1>3, <3>2, FlipResult
      <4>2. at[1] \in Channels /\ at[2] \in Subbands
        BY <4>1
      <4>3. dither_sign' = dither_sign
        BY <1>3 DEF InsertSync
      <4>4. FrameParity' = 1 - FrameParity
        BY <4>1, <4>2, <4>3, FlipTurnsParity
      <4>5. FrameParity \in 0..1
        BY FitsType DEF FrameParity, Parity, BitSum, Fits, TypeOK, Channels, Subbands
      <4> QED
        BY <3>2, <4>4, <4>5 DEF Wanted
    <3> QED
      BY <3>1, <3>2
  <2>3. sync' = 7 <=> sync = 0
    BY <1>3 DEF InsertSync, TypeOK
  <2> QED
    BY <1>3, <2>1, <2>2, <2>3
    DEF InsertSync, Wanted, RunnerUpAdjacent, ParityPlanted, ConsumedIsSent
<1>4. ASSUME PostEncode PROVE IInv'
  <2>1. TypeOK'
    <3>1. \A ch \in Channels : Indices(quantizer[ch]) \in [Subbands -> Int]
      BY DEF TypeOK, Indices, Decision, InTable
    <3> QED
      BY <1>4, <3>1 DEF PostEncode, TypeOK
  <2> QED
    BY <1>4, <2>1
    DEF PostEncode, RunnerUpAdjacent, ParityPlanted, ConsumedIsSent, FrameParity
<1>5. ASSUME Pack PROVE IInv'
  <2>1. \A ch \in Channels :
          SwapBytes(Word(quantizer[ch], dither_sign[ch]), shift) \in Int
    <3> SUFFICES ASSUME NEW ch \in Channels
                 PROVE  SwapBytes(Word(quantizer[ch], dither_sign[ch]), shift) \in Int
      OBVIOUS
    <3>1. Word(quantizer[ch], dither_sign[ch]) \in Nat
      BY FitsType, WordFields DEF TypeOK
    <3> QED
      BY <3>1 DEF SwapBytes
  <2>2. TypeOK'
    BY <1>5, <2>1 DEF Pack, encoder, TypeOK
  <2> QED
    BY <1>5, <2>2 DEF Pack, RunnerUpAdjacent, ParityPlanted, ConsumedIsSent
<1>6. ASSUME UNCHANGED vars PROVE IInv'
  BY <1>6 DEF vars, encoder, TypeOK, RunnerUpAdjacent, ParityPlanted,
              ConsumedIsSent, FrameParity
<1> QED
  BY <1>1, <1>2, <1>3, <1>4, <1>5, <1>6 DEF Next, Channels

(* The inductive invariant holds in every reachable state of the encoder,  *)
(* whatever the tables, the register and the audio (encode.c, main.c).     *)
THEOREM Invariance == Spec => []IInv
BY InitIInv, StepIInv, PTL DEF Spec

-----------------------------------------------------------------------------
(* The dither                                                              *)

(* The two halves that the dither is made of are those of the 48-bit       *)
(* product 0x4F1BBB * (codeword >> 7), for a history of at most 24 bits of *)
(* either sign (aptX_generate_dither, encode.c).                           *)
THEOREM DitherProductExact ==
    ASSUME Register <= 16777216, NEW h \in 0..Register - 1
    PROVE  /\ 0 <= Product(h).lo /\ Product(h).lo <= 16777215
           /\ 0 <= Product(h).hi /\ Product(h).hi <= 16777215
           /\ Product(h).hi * 16777216 + Product(h).lo
                = (10368886 * Wrap(h, Register)) % 281474976710656
<1> DEFINE s    == Wrap(h, Register)
           u    == s % 16777216
           ul   == u % 4096
           uh   == u \div 4096
           low  == 1910 * ul
           mid  == 2531 * ul + 1910 * uh + (low \div 4096)
           high == 2531 * uh + (mid \div 4096)
           cut  == high - IF s < 0 THEN 10368886 ELSE 0
<1>1. s \in Int /\ -8388608 <= s /\ s <= 8388607
  BY RegisterType, SMT DEF Wrap
<1>2. Product(h) = [lo |-> (mid % 4096) * 4096 + (low % 4096),
                    hi |-> cut % 16777216]
  BY SMT DEF Product
<1> HIDE DEF s
<1>3. u \in Int /\ u = IF s < 0 THEN s + 16777216 ELSE s
  BY <1>1, SMT
<1> HIDE DEF u
<1>4. ul \in Int /\ uh \in Int /\ u = 4096 * uh + ul
  BY <1>3, SMT
<1> HIDE DEF ul, uh
<1>5. low \in Int /\ mid \in Int /\ high \in Int /\ cut \in Int
  BY <1>1, <1>4, SMT
<1>6. 10368886 * u = 16777216 * high + 4096 * (mid % 4096) + (low % 4096)
  BY <1>4, SMT
<1>7. 10368886 * s = 16777216 * cut + 4096 * (mid % 4096) + (low % 4096)
  <2> HIDE DEF high, mid, low
  <2> QED
    BY <1>1, <1>3, <1>5, <1>6, SMT
<1> HIDE DEF low, mid, high, cut
<1>8. /\ (mid % 4096) \in Int /\ 0 <= mid % 4096 /\ mid % 4096 <= 4095
      /\ (low % 4096) \in Int /\ 0 <= low % 4096 /\ low % 4096 <= 4095
      /\ (cut % 16777216) \in Int
      /\ 0 <= cut % 16777216 /\ cut % 16777216 <= 16777215
      /\ (cut \div 16777216) \in Int
      /\ cut = 16777216 * (cut \div 16777216) + (cut % 16777216)
  BY <1>5, SMT
<1>9. /\ Product(h).lo = 4096 * (mid % 4096) + (low % 4096)
      /\ Product(h).hi = cut % 16777216
  BY <1>2, <1>8, SMT
<1>10. ASSUME NEW a \in Int, NEW k \in Int, 0 <= a, a < 281474976710656
       PROVE  (281474976710656 * k + a) % 281474976710656 = a
  BY <1>10, SMT
<1> DEFINE a == (cut % 16777216) * 16777216 + 4096 * (mid % 4096) + (low % 4096)
           k == cut \div 16777216
<1>11. /\ a \in Int /\ k \in Int /\ 0 <= a /\ a < 281474976710656
       /\ 10368886 * s = 281474976710656 * k + a
  BY <1>7, <1>8, SMT
<1>12. (10368886 * s) % 281474976710656 = a
  <2> HIDE DEF a, k
  <2> QED
    BY <1>10, <1>11
<1> QED
  BY <1>8, <1>9, <1>12, SMT DEF s

(* What is left of c shifted up by at least eight bits: a 32-bit integer,  *)
(* and a multiple of 256.                                                  *)
IsDither(d) ==
    /\ d \in Int
    /\ d % 256 = 0
    /\ -2147483648 <= d
    /\ d <= 2147483392

(* Every dither is one, whatever the history.                              *)
LEMMA DithersFit ==
    ASSUME NEW h \in 0..Register - 1, NEW sb \in Subbands
    PROVE  IsDither(DitherOf(h)[sb])
<1> DEFINE c == DitherC(h)
<1>1. c \in Int
  BY ProductType, SMT DEF DitherB, DitherC
<1> HIDE DEF c
<1>2. /\ IsDither(Wrap(c, 512) * 8388608)
      /\ IsDither(Wrap(c, 16384) * 262144)
      /\ IsDither(Wrap(c, 524288) * 8192)
      /\ IsDither(Wrap(c, 16777216) * 256)
  BY <1>1, SMT DEF IsDither, Wrap
<1>3. DitherOf(h)[sb] = <<Wrap(c, 512) * 8388608, Wrap(c, 16384) * 262144,
                          Wrap(c, 524288) * 8192, Wrap(c, 16777216) * 256>>[sb + 1]
  BY SMT DEF DitherOf, c
<1> QED
  BY <1>2, <1>3, SMT DEF Subbands

DithersRight ==
    \A ch \in Channels, sb \in Subbands :
      /\ IsDither(dither[ch][sb])
      /\ IsDither(consumed[ch].dither[sb])

(* Whatever was encoded, every dither an encoder holds, or has given to    *)
(* its inverse quantisers, is a 32-bit integer whose low eight bits are    *)
(* zero: what the inverters take for granted of it (DithersAssumption of   *)
(* Inverter), and what QuantisedFits of InverterProofs is about (encode.c, *)
(* aptX_generate_dither and aptX_post_encode).                             *)
THEOREM DithersOf32Bits == Spec => []DithersRight
<1>0. IsDither(0)
  BY SMT DEF IsDither
<1>1. Init => DithersRight
  BY <1>0 DEF Init, DithersRight, NoDither, Channels, Subbands
<1>2. ASSUME IInv, DithersRight, [Next]_vars PROVE DithersRight'
  <2> USE DEF DithersRight
  <2>0. /\ dither \in [Channels -> [Subbands -> Int]]
        /\ codeword \in [Channels -> 0..Register - 1]
        /\ \A ch \in Channels : Fits(quantizer[ch])
    BY <1>2, FitsType DEF IInv, TypeOK
  <2>1. CASE ReInit
    BY <1>0, <1>2, <2>1 DEF ReInit, Reset, NoDither
  <2>2. ASSUME NEW ch \in Channels, NEW from, NEW to, EncodeChannel(ch, from, to)
        PROVE  DithersRight'
    <3> DEFINE h == UpdateCodewordHistory(codeword[ch], quantizer[ch])
    <3>1. h \in 0..Register - 1
      BY <2>0, HistoryType
    <3>2. \A sb \in Subbands : IsDither(DitherOf(h)[sb])
      BY <3>1, DithersFit
    <3>3. dither' = [dither EXCEPT ![ch] = DitherOf(h)] /\ consumed' = consumed
      BY <2>2 DEF EncodeChannel
    <3> HIDE DEF h
    <3> QED
      BY <1>2, <2>0, <3>2, <3>3
  <2>3. CASE InsertSync \/ Pack \/ UNCHANGED vars
    BY <1>2, <2>3 DEF InsertSync, Pack, vars, encoder
  <2>4. CASE PostEncode
    BY <1>2, <2>4 DEF PostEncode
  <2> QED
    BY <1>2, <2>1, <2>2, <2>3, <2>4 DEF Next, Channels
<1> QED
  BY <1>1, <1>2, Invariance, PTL DEF Spec

-----------------------------------------------------------------------------
(* Theorems                                                                *)

(* Type correctness; in particular an index, flipped or not, stays inside  *)
(* the tables of the inverse quantiser (quantizer.c, encode.c).            *)
THEOREM TypeCorrect == Spec => []TypeOK
BY Invariance, PTL DEF IInv

(* aptX_insert_sync moves at most one index, by one step, and where that   *)
(* costs least.                                                            *)
THEOREM FlipIsCheapest == Spec => CheapestFlip
<1>1. ASSUME IInv, Next, pc = "sync" /\ pc' = "post"
      PROVE  LET old(at) == quantizer[at[1]][at[2]]
                 new(at) == quantizer'[at[1]][at[2]]
                 changed == {at \in Channels \X Subbands : new(at) # old(at)}
             IN  IF FrameParity = Wanted
                 THEN changed = {}
                 ELSE \E at \in Channels \X Subbands :
                        /\ changed = {at}
                        /\ Abs(new(at).unk1 - old(at).unk1) = 1
                        /\ \A other \in Channels \X Subbands :
                             old(at).unk3 <= old(other).unk3
  <2> DEFINE old(at) == quantizer[at[1]][at[2]]
             new(at) == quantizer'[at[1]][at[2]]
             changed == {at \in Channels \X Subbands : new(at) # old(at)}
  <2>1. InsertSync
    BY <1>1 DEF Next, ReInit, EncodeChannel, PostEncode, Pack
  <2>2. CASE FrameParity = Wanted
    <3>1. quantizer' = quantizer
      BY <2>1, <2>2 DEF InsertSync
    <3> QED
      BY <2>2, <3>1
  <2>3. CASE FrameParity # Wanted
    <3>1. PICK at \in Channels \X Subbands :
            /\ quantizer' = [quantizer EXCEPT ![at[1]][at[2]].unk1 =
                               quantizer[at[1]][at[2]].unk2]
            /\ Adjacent(quantizer[at[1]])
            /\ \A other \in Channels \X Subbands : Distance(at) <= Distance(other)
      BY <1>1, <2>1, <2>3, FlipResult
    <3>2. at[1] \in Channels /\ at[2] \in Subbands
      BY <3>1
    <3>3. quantizer \in [Channels -> [Subbands -> Decision]]
      BY <1>1 DEF IInv, TypeOK
    <3>4. \A other \in Channels \X Subbands :
            new(other) = IF other = at
                         THEN [old(other) EXCEPT !.unk1 = old(at).unk2]
                         ELSE old(other)
      BY <3>1, <3>2, <3>3
    <3>5. old(at) \in Decision /\ old(at).unk1 - old(at).unk2 \in {-1, 1}
      BY <3>1, <3>2, <3>3 DEF Adjacent
    <3>6. new(at).unk1 = old(at).unk2
      BY <3>4, <3>5 DEF Decision
    <3>7. new(at) # old(at) /\ Abs(new(at).unk1 - old(at).unk1) = 1
      BY <3>5, <3>6 DEF Decision, Abs
    <3>8. changed = {at}
      <4>1. \A other \in Channels \X Subbands : new(other) # old(other) <=> other = at
        BY <3>4, <3>7
      <4> HIDE DEF old, new
      <4> QED
        BY <3>1, <4>1
    <3>9. \A other \in Channels \X Subbands : old(at).unk3 <= old(other).unk3
      BY <3>1 DEF Distance
    <3> QED
      BY <2>3, <3>7, <3>8, <3>9
  <2> QED
    BY <2>2, <2>3
<1> QED
  BY <1>1, Invariance, PTL DEF Spec, CheapestFlip, vars

(* A decoder reads back what the encoder's own inverse quantisers were fed.*)
THEOREM ReadsBack == Spec => Decodable
<1>1. ASSUME IInv, Next, pc = "pack" /\ pc' = "idle"
      PROVE  \A ch \in Channels :
               UnpackWord(SwapBytes(code'[ch], shift), dither_sign[ch])
                 = consumed[ch].a
  <2>1. Pack
    BY <1>1 DEF Next, ReInit, EncodeChannel, PostEncode, InsertSync
  <2> SUFFICES ASSUME NEW ch \in Channels
               PROVE  UnpackWord(SwapBytes(code'[ch], shift), dither_sign[ch])
                        = consumed[ch].a
    OBVIOUS
  <2> DEFINE w == Word(quantizer[ch], dither_sign[ch])
  <2>2. Fits(quantizer[ch]) /\ dither_sign[ch] \in 0..1 /\ shift \in Shifts
    BY <1>1, FitsType DEF IInv, TypeOK
  <2>3. code'[ch] = SwapBytes(w, shift)
    BY <2>1 DEF Pack
  <2>4. w \in Nat /\ (shift = 8 => w <= 65535)
    BY <2>2, WordFields
  <2>5. shift \in {0, 8}
    BY <2>2, ShiftsAssumption
  <2> HIDE DEF w
  <2>6. SwapBytes(code'[ch], shift) = w
    BY <2>3, <2>4, <2>5, SwapTwice
  <2>7. UnpackWord(w, dither_sign[ch]) = Indices(quantizer[ch])
    BY <2>2, UnpackOfWord DEF w
  <2>8. consumed[ch].a = Indices(quantizer[ch])
    BY <1>1 DEF IInv, ConsumedIsSent
  <2> QED
    BY <2>6, <2>7, <2>8
<1> QED
  BY <1>1, Invariance, PTL DEF Spec, Decodable, vars

(* The encoder implements the framing it promises, for every audio signal. *)
THEOREM MarksEveryEighthFrame == Spec => SyncOnTheWire
<1> DEFINE position == (IF pc \in {"post", "pack"} THEN 6 - sync ELSE 7 - sync) % 8
           mark == (ParityBit(SwapBytes(code[0], order))
                      + ParityBit(SwapBytes(code[1], order))) % 2
<1>1. Init => Framing!Init
  <2> SUFFICES ASSUME Init PROVE Framing!Init
    OBVIOUS
  <2>1. position = 0
    BY DEF Init
  <2>2. \A s \in {0, 8} : SwapBytes(0, s) = 0
    BY DEF SwapBytes
  <2>3. ParityBit(0) = 0
    <3>1. 0 = 0 + Width(0) * (0 + Width(1) * (0 + Width(2) * 0))
      BY WidthType DEF Subbands
    <3>2. \A sb \in Subbands : 0 \in 0..Width(sb) - 1
      BY WidthType
    <3>3. Field(0, 3) = 0
      BY <3>1, <3>2, Digits DEF Subbands
    <3> QED
      BY <3>3 DEF ParityBit
  <2> QED
    BY <2>1, <2>2, <2>3, ShiftsAssumption DEF Init, Framing!Init, Channels
<1>2. IInv /\ IInv' /\ [Next]_vars => [Framing!Next]_(Framing!vars)
  <2> SUFFICES ASSUME IInv, IInv', [Next]_vars
               PROVE  [Framing!Next]_(Framing!vars)
    OBVIOUS
  <2> USE DEF Framing!vars
  <2>1. CASE ReInit
    <3>1. position' = 0 /\ mark' = mark
      BY <2>1 DEF ReInit, Reset
    <3> QED
      BY <3>1 DEF Framing!Next, Framing!Restart
  <2>2. ASSUME NEW ch \in Channels, NEW from, NEW to,
               \/ from = "idle" /\ to = "right"
               \/ from = "right" /\ to = "sync",
               EncodeChannel(ch, from, to)
        PROVE  [Framing!Next]_(Framing!vars)
    <3>1. position' = position /\ mark' = mark
      BY <2>2 DEF EncodeChannel
    <3> QED
      BY <3>1
  <2>3. CASE InsertSync
    <3>1. position' = position
      BY <2>3 DEF InsertSync, IInv, TypeOK
    <3>2. mark' = mark
      BY <2>3 DEF InsertSync
    <3> QED
      BY <3>1, <3>2
  <2>4. CASE PostEncode
    <3>1. position' = position /\ mark' = mark
      BY <2>4 DEF PostEncode
    <3> QED
      BY <3>1
  <2>5. CASE Pack
    <3>1. position' = (position + 1) % 8 /\ (position = 7 <=> sync = 7)
      <4>1. pc = "pack" /\ pc' = "idle" /\ sync' = sync /\ sync \in 0..7
        BY <2>5 DEF Pack, encoder, IInv, TypeOK
      <4>2. position = (6 - sync) % 8 /\ position' = (7 - sync) % 8
        BY <4>1
      <4> HIDE DEF position
      <4> QED
        BY <4>1, <4>2
    <3>2. \A ch \in Channels :
            ParityBit(SwapBytes(code'[ch], order'))
              = Parity(quantizer[ch], dither_sign[ch])
      <4> SUFFICES ASSUME NEW ch \in Channels
                   PROVE  ParityBit(SwapBytes(code'[ch], order'))
                            = Parity(quantizer[ch], dither_sign[ch])
        OBVIOUS
      <4> DEFINE w == Word(quantizer[ch], dither_sign[ch])
      <4>1. Fits(quantizer[ch]) /\ dither_sign[ch] \in 0..1 /\ shift \in Shifts
        BY FitsType DEF IInv, TypeOK
      <4>2. code'[ch] = SwapBytes(w, shift) /\ order' = shift
        BY <2>5 DEF Pack
      <4>3. w \in Nat /\ (shift = 8 => w <= 65535)
        BY <4>1, WordFields
      <4>4. ParityBit(w) = Parity(quantizer[ch], dither_sign[ch])
        BY <4>1, ParityOnTheWire
      <4>5. shift \in {0, 8}
        BY <4>1, ShiftsAssumption
      <4> HIDE DEF w
      <4> QED
        BY <4>2, <4>3, <4>4, <4>5, SwapTwice
    <3>3. mark' = FrameParity
      BY <3>2 DEF FrameParity, Channels
    <3>4. mark' = IF sync = 7 THEN 1 ELSE 0
      BY <2>5, <3>3 DEF IInv, ParityPlanted, Pack
    <3> QED
      BY <3>1, <3>4 DEF Framing!Next, Framing!Frame, Framing!Period
  <2>6. CASE UNCHANGED vars
    BY <2>6 DEF vars, encoder
  <2> QED
    BY <2>1, <2>2, <2>3, <2>4, <2>5, <2>6 DEF Next, Channels
<1> QED
  BY <1>1, <1>2, Invariance, PTL DEF Spec, SyncOnTheWire, Framing!Spec

-----------------------------------------------------------------------------
(* The first frame of a stream                                             *)

(* A channel after aptxbtenc_init, and after the first aptX_encode.        *)
Blank(ch) ==
    /\ codeword[ch] = 0
    /\ quantizer[ch] = [sb \in Subbands |-> Zero]

Started(ch) ==
    /\ dither_sign[ch] = 0
    /\ \A sb \in Subbands : quantizer[ch][sb].unk1 = Cells[sb] - 1

Announced == code[0] = magic /\ code[1] = magic

(* An empty history makes no dither, and the sign of none is zero.         *)
LEMMA NothingDithers ==
    ASSUME NEW q, q = [sb \in Subbands |-> Zero]
    PROVE  UpdateCodewordHistory(0, q) = 0 /\ DitherSignOf(0) = 0
<1>1. Register \in Nat /\ Register > 0
  BY RegisterType
<1>2. q[0].unk1 = 0 /\ q[1].unk1 = 0 /\ q[2].unk1 = 0
  BY DEF Subbands, Zero
<1>3. Nibble(q) = 0
  BY <1>2 DEF Nibble
<1>4. 0 % Register = 0
  BY <1>1
<1>5. UpdateCodewordHistory(0, q) = 0
  BY <1>3, <1>4 DEF UpdateCodewordHistory
<1>6. Wrap(0, Register) = 0
  <2>1. (Register \div 2) \in 0..Register - 1
    BY <1>1
  <2>2. (0 + (Register \div 2)) % Register = Register \div 2
    BY <1>1, <2>1
  <2> QED
    BY <2>1, <2>2 DEF Wrap
<1>7. Product(0) = [lo |-> 0, hi |-> 0]
  BY <1>6, SMT DEF Product
<1>8. DitherB(0) = 0
  BY <1>7 DEF DitherB
<1>9. DitherSignOf(0) = 0
  BY <1>8, SMT DEF DitherSignOf
<1> QED
  BY <1>5, <1>9

(* Before the step has left zero a quantiser that hears nothing chooses    *)
(* the last cell on the positive side.                                     *)
LEMMA LastCellChosen ==
    ASSUME ~scaled, NEW sb \in Subbands, NEW r \in Residual,
           Quantised(sb, r).unk1 >= 0
    PROVE  Quantised(sb, r).unk1 = Cells[sb] - 1
<1>1. Cells[sb] \in Nat /\ Cells[sb] > 0
  BY WidthType
<1>2. r.error \in Int /\ r.negative \in BOOLEAN
  BY DEF Residual
<1>3. Abs(r.error) \in Int /\ Abs(r.error) >= 0
  BY <1>2 DEF Abs
<1>4. Quantised(sb, r).unk1 = Complement(Cells[sb] - 1, r.negative)
  BY <1>3 DEF Quantised
<1> QED
  BY <1>1, <1>4 DEF Complement

(* With the last cells in both channels the parity of a frame is even.     *)
LEMMA FirstParity ==
    ASSUME Started(0), Started(1)
    PROVE  FrameParity = 0
<1> DEFINE s == (Cells[0] - 1) + (Cells[1] - 1) + (Cells[2] - 1) + (Cells[3] - 1)
<1>1. \A sb \in Subbands : Cells[sb] \in Int
  BY WidthType
<1>2. s \in Int
  BY <1>1 DEF Subbands
<1>3. Parity(quantizer[0], dither_sign[0]) = (s + 0) % 2
      /\ Parity(quantizer[1], dither_sign[1]) = (s + 0) % 2
  BY DEF Started, Parity, BitSum, Subbands
<1> HIDE DEF s
<1> QED
  BY <1>2, <1>3 DEF FrameParity

(* And the codeword of either channel is the one the decoder looks for.    *)
LEMMA FirstWord ==
    ASSUME NEW ch \in Channels, Started(ch), shift \in Shifts
    PROVE  SwapBytes(Word(quantizer[ch], dither_sign[ch]), shift)
             = Decoder!Magic(shift = 8)
<1> DEFINE q == quantizer[ch]
<1>1. /\ q[0].unk1 = Cells[0] - 1 /\ q[1].unk1 = Cells[1] - 1
      /\ q[2].unk1 = Cells[2] - 1 /\ q[3].unk1 = Cells[3] - 1
      /\ dither_sign[ch] = 0
  BY DEF Started, Subbands
<1> HIDE DEF q
<1>2. CASE Codec = "APTX" /\ Cells = Cells422
  <2>1. Cells[0] = 64 /\ Cells[1] = 8 /\ Cells[2] = 2 /\ Cells[3] = 4
    BY <1>2 DEF Cells422, Subbands
  <2>2. Parity(q, 0) = 0
    BY <1>1, <2>1, SMT DEF Parity, BitSum
  <2>3. Word(q, 0) = 19391
    BY <1>1, <2>1, <2>2, SMT DEF Word, Width
  <2>4. shift = 0 \/ shift = 8
    BY ShiftsAssumption
  <2>5. Decoder!Magic(shift = 8) = IF shift = 8 THEN 48971 ELSE 19391
    BY <1>2, SMT DEF Decoder!Magic
  <2>6. SwapBytes(19391, shift) = IF shift = 8 THEN 48971 ELSE 19391
    BY SMT DEF SwapBytes
  <2> QED
    BY <1>1, <2>3, <2>4, <2>5, <2>6, SMT DEF q
<1>3. CASE Codec = "APTX_HD" /\ Cells = CellsHD100
  <2>1. Cells[0] = 256 /\ Cells[1] = 32 /\ Cells[2] = 8 /\ Cells[3] = 16
    BY <1>3 DEF CellsHD100, Subbands
  <2>2. Parity(q, 0) = 0
    BY <1>1, <2>1, SMT DEF Parity, BitSum
  <2>3. Word(q, 0) = 7585535
    BY <1>1, <2>1, <2>2, SMT DEF Word, Width
  <2>4. shift = 0
    BY <2>1, ShiftsAssumption, SMT
  <2>5. Decoder!Magic(shift = 8) = 7585535
    BY <1>3, <2>4, SMT DEF Decoder!Magic
  <2>6. SwapBytes(7585535, shift) = 7585535
    BY <2>4, SMT DEF SwapBytes
  <2> QED
    BY <1>1, <2>3, <2>4, <2>5, <2>6, SMT DEF q
<1> QED
  BY <1>2, <1>3, SameCodec

-----------------------------------------------------------------------------
(* The link                                                                *)

(* The frames the decoder should have counted, modulo 8.                   *)
Due == IF pc \in {"post", "pack"} \/ wire = "sent" THEN (6 - sync) % 8
                                                   ELSE (7 - sync) % 8

LinkTypeOK ==
    /\ wire \in {"none", "sent", "lost", "delivered"}
    /\ wire = "sent" => pc = "idle"
    /\ first \in BOOLEAN
    /\ av_ctx \in {"null", "closed", "open"}
    /\ fed \in 0..7
    /\ magic = Decoder!Magic(shift = 8)

(* Until the first frame of a stream is through.                           *)
FirstFrame ==
    first =>
      /\ pc \in {"idle", "right", "sync"} /\ wire # "sent" => sync = 7 /\ ~scaled
      /\ pc = "post" => ~scaled
      /\ pc \in {"post", "pack"} \/ wire = "sent" => sync = 6
      /\ pc = "idle" /\ wire # "sent" => Blank(0) /\ Blank(1)
      /\ pc = "right" => Started(0) /\ Blank(1)
      /\ pc \in {"sync", "post", "pack"} => Started(0) /\ Started(1)
      /\ wire = "sent" => Announced

Counted == clean => av_ctx = "open" /\ fed = Due

(* The inductive invariant, together with that of the encoder.             *)
LinkInv == LinkTypeOK /\ FirstFrame /\ Counted

(* The stream's steps are the encoder's, or leave it alone.                *)
LEMMA StreamStep == [StreamNext]_streamVars => [Next]_vars
BY DEF StreamNext, streamVars, Next, Restart, Encode, Finish, Send, Lose, Deliver

(* The link starts within the invariant.                                   *)
LEMMA StreamStart == StreamInit => IInv /\ LinkInv
<1> SUFFICES ASSUME StreamInit PROVE IInv /\ LinkInv
  OBVIOUS
<1>1. IInv
  BY InitIInv DEF StreamInit
<1>2. LinkTypeOK
  BY DEF StreamInit, LinkTypeOK
<1>3. FirstFrame
  BY DEF StreamInit, Init, FirstFrame, Blank, Channels
<1>4. Counted
  BY DEF StreamInit, Init, Counted, Due
<1> QED
  BY <1>1, <1>2, <1>3, <1>4 DEF LinkInv

(* aptxbtenc_init in the middle of a stream.                               *)
LEMMA RestartKeeps ==
    ASSUME IInv, LinkInv, Restart
    PROVE  LinkInv'
<1>1. /\ pc = "idle" /\ pc' = "idle" /\ wire # "sent" /\ wire' = wire
      /\ sync' = 7 /\ shift' = shift /\ ~scaled' /\ first' /\ ~clean'
      /\ first' = TRUE /\ av_ctx' = av_ctx /\ fed' = fed /\ magic' = magic
      /\ codeword' = [ch \in Channels |-> 0]
      /\ quantizer' = [ch \in Channels |-> [sb \in Subbands |-> Zero]]
  BY DEF Restart, ReInit, Reset, receiver
<1>2. LinkTypeOK'
  BY <1>1 DEF LinkInv, LinkTypeOK
<1>3. FirstFrame'
  <2>1. Blank(0)' /\ Blank(1)'
    BY <1>1 DEF Blank, Channels
  <2> QED
    BY <1>1, <2>1 DEF FirstFrame
<1> QED
  BY <1>1, <1>2, <1>3 DEF LinkInv, Counted

(* What aptX_encode leaves in a channel that was blank.                    *)
LEMMA EncodeStarts ==
    ASSUME IInv, NEW ch \in Channels, NEW from, NEW to,
           Encode(ch, from, to), ~scaled, Blank(ch)
    PROVE  Started(ch)'
<1>1. PICK s \in Signals :
        LET h == UpdateCodewordHistory(codeword[ch], quantizer[ch])
        IN  /\ dither_sign' = [dither_sign EXCEPT ![ch] = DitherSignOf(h)]
            /\ quantizer' = [quantizer EXCEPT ![ch] =
                               [sb \in Subbands |-> Quantised(sb, s[sb])]]
  BY DEF Encode, EncodeChannel
<1>2. UpdateCodewordHistory(codeword[ch], quantizer[ch]) = 0 /\ DitherSignOf(0) = 0
  BY NothingDithers DEF Blank
<1>3. /\ quantizer \in [Channels -> [Subbands -> Decision]]
      /\ dither_sign \in [Channels -> 0..1]
  BY DEF IInv, TypeOK
<1>4. dither_sign'[ch] = 0
  BY <1>1, <1>2, <1>3
<1>5. quantizer'[ch] = [sb \in Subbands |-> Quantised(sb, s[sb])]
  BY <1>1, <1>3
<1>6. ASSUME NEW sb \in Subbands PROVE quantizer'[ch][sb].unk1 = Cells[sb] - 1
  <2>1. quantizer'[ch][sb].unk1 >= 0
    BY DEF Encode, NothingHeardYet
  <2>2. s[sb] \in Residual
    BY SignalsAssumption
  <2>3. quantizer'[ch][sb] = Quantised(sb, s[sb])
    BY <1>5
  <2> QED
    BY <2>1, <2>2, <2>3, LastCellChosen
<1> QED
  BY <1>4, <1>6 DEF Started

(* aptX_encode of either channel.                                          *)
LEMMA EncodeKeeps ==
    ASSUME IInv, LinkInv,
           NEW ch \in Channels, NEW from, NEW to,
           \/ ch = 0 /\ from = "idle" /\ to = "right"
           \/ ch = 1 /\ from = "right" /\ to = "sync",
           Encode(ch, from, to)
    PROVE  LinkInv'
<1>1. /\ pc = from /\ pc' = to /\ wire # "sent" /\ wire' = wire
      /\ sync' = sync /\ shift' = shift /\ scaled' = scaled /\ first' = first
      /\ clean' = clean /\ av_ctx' = av_ctx /\ fed' = fed /\ magic' = magic
  BY DEF Encode, EncodeChannel, receiver, link
<1>2. LinkTypeOK'
  BY <1>1 DEF LinkInv, LinkTypeOK
<1>3. Counted'
  BY <1>1 DEF LinkInv, Counted, Due
<1>4. FirstFrame'
  <2> SUFFICES ASSUME first' PROVE FirstFrame'
    BY DEF FirstFrame
  <2>1. first /\ FirstFrame
    BY <1>1 DEF LinkInv
  <2>2. ~scaled /\ sync = 7 /\ Blank(ch)
    BY <1>1, <2>1 DEF FirstFrame
  <2>3. Started(ch)'
    BY <2>2, EncodeStarts
  <2>4. \A c \in Channels : c # ch => /\ codeword'[c] = codeword[c]
                                      /\ dither_sign'[c] = dither_sign[c]
                                      /\ quantizer'[c] = quantizer[c]
    <3>1. /\ quantizer \in [Channels -> [Subbands -> Decision]]
          /\ dither_sign \in [Channels -> 0..1]
          /\ codeword \in [Channels -> 0..Register - 1]
      BY DEF IInv, TypeOK
    <3>2. PICK s \in Signals :
            LET h == UpdateCodewordHistory(codeword[ch], quantizer[ch])
            IN  /\ codeword' = [codeword EXCEPT ![ch] = h]
                /\ dither_sign' = [dither_sign EXCEPT ![ch] = DitherSignOf(h)]
                /\ quantizer' = [quantizer EXCEPT ![ch] =
                                   [sb \in Subbands |-> Quantised(sb, s[sb])]]
      BY DEF Encode, EncodeChannel
    <3> QED
      BY <3>1, <3>2
  <2>5. CASE ch = 0
    <3>1. Blank(1)'
      BY <1>1, <2>1, <2>4, <2>5 DEF FirstFrame, Blank, Channels
    <3> QED
      BY <1>1, <2>2, <2>3, <2>5, <3>1 DEF FirstFrame
  <2>6. CASE ch = 1
    <3>1. Started(0)'
      BY <1>1, <2>1, <2>4, <2>6 DEF FirstFrame, Started, Channels
    <3> QED
      BY <1>1, <2>2, <2>3, <2>6, <3>1 DEF FirstFrame
  <2> QED
    BY <2>5, <2>6
<1> QED
  BY <1>2, <1>3, <1>4 DEF LinkInv

(* aptX_insert_sync and aptX_post_encode.                                  *)
LEMMA FinishKeeps ==
    ASSUME IInv, LinkInv, Finish
    PROVE  LinkInv'
<1>1. /\ wire' = wire /\ shift' = shift /\ first' = first /\ clean' = clean
      /\ av_ctx' = av_ctx /\ fed' = fed /\ magic' = magic
      /\ dither_sign' = dither_sign
  BY DEF Finish, InsertSync, PostEncode, receiver, link
<1>2. CASE InsertSync
  <2>1. pc = "sync" /\ pc' = "post" /\ wire # "sent" /\ sync' = (sync - 1) % 8
        /\ scaled' = scaled /\ sync \in 0..7
    BY <1>2 DEF InsertSync, LinkInv, LinkTypeOK, IInv, TypeOK
  <2>2. LinkTypeOK'
    BY <1>1, <2>1 DEF LinkInv, LinkTypeOK
  <2>3. Counted'
    <3>1. (6 - ((sync - 1) % 8)) % 8 = (7 - sync) % 8
      BY <2>1
    <3> QED
      BY <1>1, <2>1, <3>1 DEF LinkInv, Counted, Due
  <2>4. FirstFrame'
    <3> SUFFICES ASSUME first' PROVE FirstFrame'
      BY DEF FirstFrame
    <3>1. Started(0) /\ Started(1) /\ sync = 7 /\ ~scaled
      BY <1>1, <2>1 DEF LinkInv, FirstFrame
    <3>2. quantizer' = quantizer
      BY <1>2, <3>1, FirstParity DEF InsertSync, Wanted
    <3>3. Started(0)' /\ Started(1)'
      BY <1>1, <3>1, <3>2 DEF Started
    <3>4. sync' = 6
      BY <2>1, <3>1
    <3> QED
      BY <1>1, <2>1, <3>1, <3>3, <3>4 DEF FirstFrame
  <2> QED
    BY <2>2, <2>3, <2>4 DEF LinkInv
<1>3. CASE PostEncode
  <2>1. pc = "post" /\ pc' = "pack" /\ wire # "sent" /\ sync' = sync
        /\ quantizer' = quantizer
    BY <1>3 DEF PostEncode, LinkInv, LinkTypeOK
  <2>2. LinkTypeOK'
    BY <1>1, <2>1 DEF LinkInv, LinkTypeOK
  <2>3. Counted'
    BY <1>1, <2>1 DEF LinkInv, Counted, Due
  <2>4. FirstFrame'
    <3> SUFFICES ASSUME first' PROVE FirstFrame'
      BY DEF FirstFrame
    <3>1. Started(0) /\ Started(1) /\ sync = 6
      BY <1>1, <2>1 DEF LinkInv, FirstFrame
    <3>2. Started(0)' /\ Started(1)'
      BY <1>1, <2>1, <3>1 DEF Started
    <3> QED
      BY <1>1, <2>1, <3>1, <3>2 DEF FirstFrame
  <2> QED
    BY <2>2, <2>3, <2>4 DEF LinkInv
<1> QED
  BY <1>2, <1>3 DEF Finish

(* aptX_pack_codeword: the first frame announces the stream.               *)
LEMMA SendKeeps ==
    ASSUME IInv, LinkInv, Send
    PROVE  LinkInv'
<1>1. /\ pc = "pack" /\ pc' = "idle" /\ wire' = "sent" /\ sync' = sync
      /\ shift' = shift /\ first' = first /\ clean' = clean
      /\ av_ctx' = av_ctx /\ fed' = fed /\ magic' = magic
      /\ code' = [ch \in Channels |->
                    SwapBytes(Word(quantizer[ch], dither_sign[ch]), shift)]
  BY DEF Send, Pack, receiver, encoder
<1>2. LinkTypeOK'
  BY <1>1 DEF LinkInv, LinkTypeOK
<1>3. Counted'
  BY <1>1 DEF LinkInv, Counted, Due
<1>4. FirstFrame'
  <2> SUFFICES ASSUME first' PROVE FirstFrame'
    BY DEF FirstFrame
  <2>1. /\ Started(0) /\ Started(1) /\ sync = 6
        /\ shift \in Shifts /\ magic = Decoder!Magic(shift = 8)
    BY <1>1 DEF LinkInv, FirstFrame, LinkTypeOK, IInv, TypeOK
  <2>2. code'[0] = magic /\ code'[1] = magic
    BY <1>1, <2>1, FirstWord DEF Channels
  <2>3. Announced'
    BY <1>1, <2>2 DEF Announced
  <2> QED
    BY <1>1, <2>1, <2>3 DEF FirstFrame
<1> QED
  BY <1>2, <1>3, <1>4 DEF LinkInv

(* A lost frame.                                                           *)
LEMMA LoseKeeps ==
    ASSUME LinkInv, Lose
    PROVE  LinkInv'
BY DEF Lose, vars, encoder, receiver, LinkInv, LinkTypeOK, FirstFrame, Counted

(* What aptx_ffmpeg_decode makes of a frame: the first of a stream makes   *)
(* it start over, and a context that stays open counts.                    *)
LEMMA DeliverCounts ==
    ASSUME LinkInv, NEW failing \in Decoder!Reinits, NEW accepted,
           Deliver(failing, accepted)
    PROVE  /\ magic' = magic
           /\ av_ctx' \in {"null", "closed", "open"}
           /\ fed' \in 0..7
           /\ first /\ av_ctx' = "open" => fed' = 1
           /\ first /\ failing = "none" /\ ~crashed' => av_ctx' = "open"
           /\ ~first /\ clean /\ ~Decoder!IsNewStream(code) =>
                av_ctx' = "open" /\ fed' = (fed + 1) % 8
<1>1. /\ wire = "sent" /\ LinkTypeOK /\ FirstFrame /\ Counted
      /\ Decoder!Decode(code, failing, accepted)
  BY DEF Deliver, LinkInv
<1>2. first => Decoder!IsNewStream(code)
  BY <1>1 DEF FirstFrame, Announced, Decoder!IsNewStream
<1>3. /\ failing = "context" => Decoder!Rebuilt(failing) = "null"
      /\ failing = "open" => Decoder!Rebuilt(failing) = "closed"
      /\ failing = "none" => Decoder!Rebuilt(failing) = "open"
      /\ failing \in {"context", "open", "none"}
  BY DEF Decoder!Rebuilt, Decoder!Reinits
<1>4. fed \in 0..7 /\ (fed + 1) % 8 \in 0..7 /\ (0 + 1) % 8 = 1
  BY <1>1 DEF LinkTypeOK
<1>5. CASE av_ctx = "null"
  BY <1>1, <1>4, <1>5
     DEF Decoder!Decode, Decoder!Crash, Decoder!fields, LinkTypeOK, Counted
<1>6. CASE av_ctx # "null" /\ Decoder!IsNewStream(code)
  <2>1. /\ av_ctx' = Decoder!Rebuilt(failing) /\ magic' = magic
        /\ IF failing = "none" THEN Decoder!Feed("open", 0, accepted)
           ELSE rv' = -1 /\ fed' = 0
    BY <1>1, <1>6 DEF Decoder!Decode
  <2>2. fed' = IF failing = "none" THEN 1 ELSE 0
    BY <1>4, <2>1 DEF Decoder!Feed
  <2> QED
    BY <1>3, <1>6, <2>1, <2>2
<1>7. CASE av_ctx # "null" /\ ~Decoder!IsNewStream(code)
  <2>1. /\ av_ctx' = av_ctx /\ magic' = magic
        /\ Decoder!Feed(av_ctx, fed, accepted)
    BY <1>1, <1>7 DEF Decoder!Decode
  <2>2. fed' = IF av_ctx = "open" THEN (fed + 1) % 8 ELSE fed
    BY <2>1 DEF Decoder!Feed
  <2> QED
    BY <1>1, <1>2, <1>4, <1>7, <2>1, <2>2 DEF LinkTypeOK, Counted
<1> QED
  BY <1>5, <1>6, <1>7

(* A frame that arrives.                                                   *)
LEMMA DeliverKeeps ==
    ASSUME IInv, LinkInv, NEW failing \in Decoder!Reinits, NEW accepted,
           Deliver(failing, accepted)
    PROVE  LinkInv'
<1>1. /\ wire = "sent" /\ pc = "idle" /\ wire' = "delivered" /\ first' = FALSE
      /\ pc' = pc /\ sync' = sync /\ shift' = shift /\ sync \in 0..7
      /\ clean' = IF first THEN failing = "none" /\ ~crashed'
                  ELSE clean /\ ~Decoder!IsNewStream(code)
  BY DEF Deliver, vars, encoder, LinkInv, LinkTypeOK, IInv, TypeOK
<1>2. LinkTypeOK'
  BY <1>1, DeliverCounts DEF LinkInv, LinkTypeOK
<1>3. FirstFrame'
  BY <1>1 DEF FirstFrame
<1>4. Counted'
  <2> SUFFICES ASSUME clean' PROVE av_ctx' = "open" /\ fed' = (7 - sync) % 8
    BY <1>1 DEF Counted, Due
  <2>1. CASE first
    <3>1. sync = 6
      BY <1>1, <2>1 DEF LinkInv, FirstFrame
    <3>2. av_ctx' = "open"
      BY <1>1, <2>1, DeliverCounts
    <3>3. fed' = 1
      BY <2>1, <3>2, DeliverCounts
    <3> QED
      BY <3>1, <3>2, <3>3
  <2>2. CASE ~first
    <3>1. clean /\ fed = (6 - sync) % 8
      BY <1>1, <2>2 DEF LinkInv, Counted, Due
    <3>2. av_ctx' = "open" /\ fed' = (fed + 1) % 8
      BY <1>1, <2>2, <3>1, DeliverCounts
    <3>3. (((6 - sync) % 8) + 1) % 8 = (7 - sync) % 8
      BY <1>1
    <3> QED
      BY <3>1, <3>2, <3>3
  <2> QED
    BY <2>1, <2>2
<1> QED
  BY <1>2, <1>3, <1>4 DEF LinkInv

(* Every step of the stream keeps both invariants.                         *)
LEMMA LinkStep ==
    IInv /\ LinkInv /\ [StreamNext]_streamVars => IInv' /\ LinkInv'
<1> SUFFICES ASSUME IInv, LinkInv, [StreamNext]_streamVars
             PROVE  IInv' /\ LinkInv'
  OBVIOUS
<1>1. IInv'
  BY StreamStep, StepIInv
<1>2. CASE Restart
  BY <1>1, <1>2, RestartKeeps
<1>3. CASE Encode(0, "idle", "right")
  BY <1>1, <1>3, EncodeKeeps DEF Channels
<1>4. CASE Encode(1, "right", "sync")
  BY <1>1, <1>4, EncodeKeeps DEF Channels
<1>5. CASE Finish
  BY <1>1, <1>5, FinishKeeps
<1>6. CASE Send
  BY <1>1, <1>6, SendKeeps
<1>7. CASE Lose
  BY <1>1, <1>7, LoseKeeps
<1>8. ASSUME NEW failing \in Decoder!Reinits, NEW accepted \in BOOLEAN,
             Deliver(failing, accepted)
      PROVE  LinkInv'
  BY <1>8, DeliverKeeps
<1>9. CASE UNCHANGED streamVars
  <2>1. /\ pc' = pc /\ sync' = sync /\ shift' = shift /\ scaled' = scaled
        /\ codeword' = codeword /\ quantizer' = quantizer
        /\ dither_sign' = dither_sign /\ code' = code
        /\ wire' = wire /\ first' = first /\ clean' = clean
        /\ av_ctx' = av_ctx /\ fed' = fed /\ magic' = magic
    BY <1>9 DEF streamVars, vars, encoder, receiver, link
  <2>2. LinkTypeOK' /\ Counted'
    BY <2>1 DEF LinkInv, LinkTypeOK, Counted, Due
  <2>3. /\ Blank(0)' = Blank(0) /\ Blank(1)' = Blank(1)
        /\ Started(0)' = Started(0) /\ Started(1)' = Started(1)
        /\ Announced' = Announced
    BY <2>1 DEF Blank, Started, Announced
  <2>4. FirstFrame'
    BY <2>1, <2>3 DEF LinkInv, FirstFrame
  <2> QED
    BY <1>1, <2>2, <2>4 DEF LinkInv
<1> QED
  BY <1>1, <1>2, <1>3, <1>4, <1>5, <1>6, <1>7, <1>8, <1>9 DEF StreamNext

(* The encoder's invariant and the link's hold in every behaviour.         *)
THEOREM LinkInvariance == StreamSpec => [](IInv /\ LinkInv)
BY StreamStart, LinkStep, PTL DEF StreamSpec

(* Put behind a link, the encoder goes on being the encoder: the stream    *)
(* implements the encoder's specification, and every property proved of    *)
(* that holds of the stream too.                                           *)
THEOREM StreamImplementsEncoder == StreamSpec => Spec
<1>1. StreamInit => Init
  BY DEF StreamInit
<1> QED
  BY <1>1, StreamStep, PTL DEF StreamSpec, Spec

(* The decoder of aptx-ffmpeg.c keeps count of the encoder's frames: from  *)
(* the start of a stream for as long as no frame is lost and none is taken *)
(* for another start, its count is the encoder's place in the cycle of     *)
(* marks.                                                                  *)
THEOREM StaysInStep == StreamSpec => []InStep
<1>1. IInv /\ LinkInv => InStep
  BY DEF LinkInv, Counted, Due, InStep
<1> QED
  BY <1>1, LinkInvariance, PTL

(* The check for a new stream in aptx_ffmpeg_decode misses none: what      *)
(* aptxbtenc_encodestereo makes of the first four samples, whatever they   *)
(* are, is the codeword the check compares with, on both channels.         *)
THEOREM StartsAreNoticed == StreamSpec => NewStreamDetected
<1>1. ASSUME LinkInv, [StreamNext]_streamVars,
             Arrives, first, av_ctx' = "open"
      PROVE  fed' = 1
  <2>1. PICK failing \in Decoder!Reinits, accepted \in BOOLEAN :
               Deliver(failing, accepted)
    BY <1>1 DEF Arrives, StreamNext, streamVars, link, Restart, Encode, Finish,
                Send, Lose
  <2> QED
    BY <1>1, <2>1, DeliverCounts
<1> QED
  BY <1>1, LinkInvariance, PTL DEF StreamSpec, NewStreamDetected
=============================================================================
