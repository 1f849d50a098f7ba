------------------------ MODULE FfmpegEncoderProofs -------------------------
(***************************************************************************)
(* The conversions of codewords, for all bytes; the encoder structure, for *)
(* any number of users, packets and initialisations.                       *)
(***************************************************************************)
EXTENDS FfmpegEncoder, TLAPS

(* A decoder with the same endian argument gets back the bytes of a packet *)
(* of the 422 codec.                                                       *)
LEMMA RoundTrip422 ==
    ASSUME NEW x \in Byte, NEW y \in Byte, NEW e \in BOOLEAN
    PROVE  Packet422(Code422(<<x, y>>, e), e) = <<x, y>>
<1>1. CASE e
  <2>1. Code422(<<x, y>>, e) = x + 256 * y
    BY <1>1 DEF Code422
  <2>2. (x + 256 * y) % 256 = x /\ ((x + 256 * y) \div 256) % 256 = y
    BY SMT DEF Byte
  <2> QED
    BY <1>1, <2>1, <2>2 DEF Packet422
<1>2. CASE ~e
  <2>1. Code422(<<x, y>>, e) = 256 * x + y
    BY <1>2 DEF Code422
  <2>2. (256 * x + y) % 256 = y /\ ((256 * x + y) \div 256) % 256 = x
    BY SMT DEF Byte
  <2> QED
    BY <1>2, <2>1, <2>2 DEF Packet422
<1> QED
  BY <1>1, <1>2

(* A decoder without the endian argument gets back the bytes of a packet   *)
(* of the HD codec; one with it gets them in reverse, whatever the encoder *)
(* was given.                                                              *)
LEMMA RoundTripHD ==
    ASSUME NEW x \in Byte, NEW y \in Byte, NEW z \in Byte
    PROVE  /\ PacketHD(CodeHD(<<x, y, z>>), FALSE) = <<x, y, z>>
           /\ PacketHD(CodeHD(<<x, y, z>>), TRUE) = <<z, y, x>>
<1>1. CodeHD(<<x, y, z>>) = 65536 * x + 256 * y + z
  BY SMT DEF CodeHD, Byte
<1>2. /\ (65536 * x + 256 * y + z) % 256 = z
      /\ ((65536 * x + 256 * y + z) \div 256) % 256 = y
      /\ ((65536 * x + 256 * y + z) \div 65536) % 256 = x
  <2> x \in 0..255 /\ y \in 0..255 /\ z \in 0..255
    BY DEF Byte
  <2>1. (65536 * x + 256 * y + z) % 256 = z
    BY SMT
  <2>2. ((65536 * x + 256 * y + z) \div 256) % 256 = y
    <3>1. (65536 * x + 256 * y + z) \div 256 = 256 * x + y
      BY SMT
    <3>2. (256 * x + y) % 256 = y
      BY SMT
    <3> QED
      BY <3>1, <3>2, SMT
  <2>3. ((65536 * x + 256 * y + z) \div 65536) % 256 = x
    <3>1. (65536 * x + 256 * y + z) \div 65536 = x
      BY SMT
    <3>2. x % 256 = x
      BY SMT
    <3> QED
      BY <3>1, <3>2, SMT
  <2> QED
    BY <2>1, <2>2, <2>3
<1> QED
  BY <1>1, <1>2, SMT DEF PacketHD

(* The three back ends make the same codeword of the same bytes on a       *)
(* little-endian host; on a big-endian one the stub gives a 422 codeword   *)
(* in the order that was not asked for.                                    *)
THEOREM StubCodewords ==
    ASSUME NEW x \in Byte, NEW y \in Byte, NEW z \in Byte, NEW e \in BOOLEAN
    PROVE  /\ StubCode422(<<x, y>>, e, "little") = Code422(<<x, y>>, e)
           /\ StubCode422(<<x, y>>, e, "big") = Code422(<<x, y>>, ~e)
           /\ StubCodeHD(<<x, y, z>>, "little") = CodeHD(<<x, y, z>>)
<1>1. x + 256 * y = 256 * y + x /\ 256 * x + y = y + 256 * x
  BY SMT DEF Byte
<1>2. z + 256 * y + 65536 * x = 65536 * x + 256 * y + z
  BY SMT DEF Byte
<1>3. StubCode422(<<x, y>>, e, "little") = Code422(<<x, y>>, e)
  BY <1>1 DEF StubCode422, Code422
<1>4. StubCode422(<<x, y>>, e, "big") = Code422(<<x, y>>, ~e)
  BY <1>1 DEF StubCode422, Code422
<1> QED
  BY <1>2, <1>3, <1>4, SMT DEF StubCodeHD, CodeHD

-----------------------------------------------------------------------------
(* The structure                                                           *)

(* The inductive invariant: what is handed out was made by the structure   *)
(* as it is, for the codec its user takes it for.                          *)
Structure ==
    /\ codec \in Codecs
    /\ endian \in BOOLEAN
    /\ av_packet # "filled"
    /\ ready => /\ av_ctx = "open" /\ av_packet # "null"
                /\ av_frame = "buffered" /\ ~crashed
    /\ served # "nobody" =>
         /\ handle[served] = codec
         /\ data \in Packets[codec]
         /\ code = Codewords(codec, endian, data)

Inv ==
    /\ Structure
    /\ handle \in [Users -> Codecs \cup {"none"}]
    /\ served \in Users \cup {"nobody"}

(* A size that fits tells the codecs apart.                                *)
LEMMA SizeTellsCodec ==
    ASSUME NEW c \in Codecs, NEW d \in Codecs, NEW p \in Packets[c],
           SizeFits(Len(p), PacketSize(d))
    PROVE  d = c
<1>1. p \in [1..PacketSize(c) -> Byte]
  BY PacketsAssumption
<1>2. PacketSize(c) \in Nat
  BY DEF PacketSize
<1>3. Len(p) = PacketSize(c)
  BY <1>1, <1>2
<1> QED
  BY <1>3 DEF SizeFits, PacketSize, Codecs

(* Every call keeps the invariant.                                         *)
LEMMA StructureInvariant == Spec => []Inv
<1>1. Init => Inv
  BY DEF Init, Inv, Structure, Codecs
<1>2. Inv /\ [Next]_vars => Inv'
  <2> SUFFICES ASSUME Inv, [Next]_vars PROVE Inv'
    OBVIOUS
  <2> USE DEF Inv, Structure
  <2>1. ASSUME NEW u \in Users, NEW c \in Codecs, NEW e \in BOOLEAN,
               NEW failing \in Failures, New(u, c, e, failing)
        PROVE  Inv'
    <3>1. codec' = c /\ endian' = e /\ served' = "nobody" /\ crashed' = FALSE
      BY <2>1 DEF New, Nobody
    <3>2. av_packet' # "filled"
      BY <2>1 DEF New
    <3>3. ready' => /\ av_ctx' = "open" /\ av_packet' # "null"
                    /\ av_frame' = "buffered"
      BY <2>1 DEF New, NewSucceeds
    <3>4. handle' \in [Users -> Codecs \cup {"none"}]
      BY <2>1 DEF New
    <3> QED
      BY <3>1, <3>2, <3>3, <3>4
  <2>2. ASSUME NEW u \in Users, NEW failing \in Refusals,
               NEW p \in Packets[codec], Encode(u, failing, p)
        PROVE  Inv'
    <3>1. UNCHANGED <<av_ctx, av_frame, codec, endian, handle, ready>>
      BY <2>2 DEF Encode, users
    <3>2. CASE av_frame = "null"
      BY <2>2, <3>1, <3>2 DEF Encode, result
    <3>3. CASE av_frame # "null"
      <4> DEFINE received == failing = "none" /\ av_frame = "buffered"
                 success == received /\ SizeFits(Len(p), PacketSize(handle[u]))
      <4>1. /\ av_packet' = "blank"
            /\ served' = IF success THEN u ELSE "nobody"
            /\ data' = IF success THEN p ELSE <<>>
            /\ code' = IF success THEN Codewords(handle[u], endian, p) ELSE <<>>
            /\ crashed' = crashed
        BY <2>2, <3>3 DEF Encode, AfterSuccess, AfterFailure
      <4>2. handle[u] \in Codecs
        BY <2>2 DEF Encode
      <4>3. success => handle[u] = codec
        BY <4>2, SizeTellsCodec
      <4> HIDE DEF success
      <4> QED
        BY <3>1, <4>1, <4>3
    <3> QED
      BY <3>2, <3>3
  <2>3. ASSUME NEW u \in Users, Destroy(u) PROVE Inv'
    BY <2>3 DEF Destroy, Nobody, fields
  <2>4. CASE UNCHANGED vars
    BY <2>4 DEF vars, fields, users, result
  <2> QED
    BY <2>1, <2>2, <2>3, <2>4 DEF Next, EncodeStereo
<1> QED
  BY <1>1, <1>2, PTL DEF Spec

(* Whichever call fails, no reference to a packet is held between two      *)
(* calls.                                                                  *)
THEOREM PacketsReleased == Spec => []PacketReleased
<1>1. Inv => PacketReleased
  BY DEF Inv, Structure, PacketReleased
<1> QED
  BY <1>1, StructureInvariant, PTL

(* Every pointer leads to a complete structure until somebody's            *)
(* initialisation fails, whoever destroys what.                            *)
THEOREM StaysUsable == Spec => []UsableUntilNewFails
<1>1. Inv => UsableUntilNewFails
  BY DEF Inv, Structure, UsableUntilNewFails
<1> QED
  BY <1>1, StructureInvariant, PTL

(* The size of the packet alone keeps a user from getting codewords of the *)
(* other codec.                                                            *)
THEOREM OwnCodecOnly == Spec => []NeverTheOtherCodec
<1>1. Inv => NeverTheOtherCodec
  BY DEF Inv, Structure, NeverTheOtherCodec
<1> QED
  BY <1>1, StructureInvariant, PTL

(* The bytes a decoder makes of the codewords a user gets are those of the *)
(* packet libavcodec made, for all packets.                                *)
THEOREM DecodersGetPackets == Spec => []DecodersGetThePacket
<1>1. Inv => DecodersGetThePacket
  <2> SUFFICES ASSUME Inv, served # "nobody",
                      codec = "APTX" => asked[served] = endian
               PROVE  data = IF handle[served] = "APTX"
                        THEN Packet422(code[1], asked[served])
                               \o Packet422(code[2], asked[served])
                        ELSE PacketHD(code[1], FALSE) \o PacketHD(code[2], FALSE)
    BY DEF DecodersGetThePacket
  <2>1. /\ handle[served] = codec
        /\ code = Codewords(codec, endian, data)
        /\ data \in [1..PacketSize(codec) -> Byte]
        /\ codec \in Codecs
        /\ endian \in BOOLEAN
    BY PacketsAssumption DEF Inv, Structure
  <2>2. CASE codec = "APTX"
    <3>1. data \in [1..4 -> Byte]
      BY <2>1, <2>2 DEF PacketSize
    <3>2. code = <<Code422(<<data[1], data[2]>>, endian),
                   Code422(<<data[3], data[4]>>, endian)>>
      BY <2>1, <2>2 DEF Codewords
    <3>3. data[1] \in Byte /\ data[2] \in Byte /\ data[3] \in Byte /\ data[4] \in Byte
      BY <3>1
    <3>4. /\ Packet422(code[1], endian) = <<data[1], data[2]>>
          /\ Packet422(code[2], endian) = <<data[3], data[4]>>
      BY <2>1, <3>2, <3>3, RoundTrip422
    <3>5. data = <<data[1], data[2]>> \o <<data[3], data[4]>>
      BY <3>1, <3>3
    <3> QED
      BY <2>1, <2>2, <3>4, <3>5
  <2>3. CASE codec = "APTX_HD"
    <3>1. data \in [1..6 -> Byte]
      BY <2>1, <2>3 DEF PacketSize
    <3>2. code = <<CodeHD(<<data[1], data[2], data[3]>>),
                   CodeHD(<<data[4], data[5], data[6]>>)>>
      BY <2>1, <2>3 DEF Codewords
    <3>3. /\ data[1] \in Byte /\ data[2] \in Byte /\ data[3] \in Byte
          /\ data[4] \in Byte /\ data[5] \in Byte /\ data[6] \in Byte
      BY <3>1
    <3>4. /\ PacketHD(code[1], FALSE) = <<data[1], data[2], data[3]>>
          /\ PacketHD(code[2], FALSE) = <<data[4], data[5], data[6]>>
      <4>1. \A x, y, z \in Byte : PacketHD(CodeHD(<<x, y, z>>), FALSE) = <<x, y, z>>
        BY RoundTripHD
      <4>2. /\ code[1] = CodeHD(<<data[1], data[2], data[3]>>)
            /\ code[2] = CodeHD(<<data[4], data[5], data[6]>>)
        BY <3>2
      <4>3. PacketHD(CodeHD(<<data[1], data[2], data[3]>>), FALSE)
              = <<data[1], data[2], data[3]>>
        BY <3>3, <4>1
      <4>4. PacketHD(CodeHD(<<data[4], data[5], data[6]>>), FALSE)
              = <<data[4], data[5], data[6]>>
        BY <3>3, <4>1
      <4> QED
        BY <4>2, <4>3, <4>4, Zenon
    <3>5. data = <<data[1], data[2], data[3]>> \o <<data[4], data[5], data[6]>>
      BY <3>1, <3>3
    <3> QED
      BY <2>1, <2>3, <3>4, <3>5
  <2> QED
    BY <2>1, <2>2, <2>3 DEF Codecs
<1> QED
  BY <1>1, StructureInvariant, PTL

(* A program linked with the stub on a little-endian host takes every      *)
(* packet for the same codewords.                                          *)
THEOREM StubsAgree == Spec => []StubAgrees
<1>1. Inv => StubAgrees
  <2> SUFFICES ASSUME Inv, served # "nobody"
               PROVE  code = IF codec = "APTX"
                        THEN <<StubCode422(<<data[1], data[2]>>, endian, "little"),
                               StubCode422(<<data[3], data[4]>>, endian, "little")>>
                        ELSE <<StubCodeHD(<<data[1], data[2], data[3]>>, "little"),
                               StubCodeHD(<<data[4], data[5], data[6]>>, "little")>>
    BY DEF StubAgrees
  <2>1. /\ code = Codewords(codec, endian, data)
        /\ data \in [1..PacketSize(codec) -> Byte]
        /\ codec \in Codecs
        /\ endian \in BOOLEAN
    BY PacketsAssumption DEF Inv, Structure
  <2>2. /\ \A x, y \in Byte : \A e \in BOOLEAN :
             StubCode422(<<x, y>>, e, "little") = Code422(<<x, y>>, e)
        /\ \A x, y, z \in Byte :
             StubCodeHD(<<x, y, z>>, "little") = CodeHD(<<x, y, z>>)
    <3>1. 0 \in Byte
      BY SMT DEF Byte
    <3>2. TRUE \in BOOLEAN
      OBVIOUS
    <3> QED
      BY <3>1, <3>2, StubCodewords
  <2>3. CASE codec = "APTX"
    <3>1. data[1] \in Byte /\ data[2] \in Byte /\ data[3] \in Byte /\ data[4] \in Byte
      BY <2>1, <2>3 DEF PacketSize
    <3>2. /\ StubCode422(<<data[1], data[2]>>, endian, "little")
               = Code422(<<data[1], data[2]>>, endian)
          /\ StubCode422(<<data[3], data[4]>>, endian, "little")
               = Code422(<<data[3], data[4]>>, endian)
      BY <2>1, <2>2, <3>1
    <3> QED
      BY <2>1, <2>3, <3>2 DEF Codewords
  <2>4. CASE codec = "APTX_HD"
    <3>1. /\ data[1] \in Byte /\ data[2] \in Byte /\ data[3] \in Byte
          /\ data[4] \in Byte /\ data[5] \in Byte /\ data[6] \in Byte
      BY <2>1, <2>4 DEF PacketSize
    <3>2. StubCodeHD(<<data[1], data[2], data[3]>>, "little")
            = CodeHD(<<data[1], data[2], data[3]>>)
      BY <2>2, <3>1
    <3>3. StubCodeHD(<<data[4], data[5], data[6]>>, "little")
            = CodeHD(<<data[4], data[5], data[6]>>)
      BY <2>2, <3>1
    <3> QED
      BY <2>1, <2>4, <3>2, <3>3 DEF Codewords
  <2> QED
    BY <2>1, <2>3, <2>4 DEF Codecs
<1> QED
  BY <1>1, StructureInvariant, PTL
=============================================================================
