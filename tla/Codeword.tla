------------------------------ MODULE Codeword ------------------------------
(***************************************************************************)
(* How codewords and the bytes of a packet are turned into each other.     *)
(* aptx-ffmpeg.c and aptx-freeaptx.c shift, with counts their init chooses *)
(* by the endian argument; aptx-stub.c stores bytes in memory, so that the *)
(* number depends on the byte order of the host; aptxenc and aptxdec       *)
(* always use the numbers of endian = 0.  A packet is the two codewords of *)
(* a frame; here a channel's share of it is converted, two bytes or three. *)
(***************************************************************************)
EXTENDS Integers, Sequences

Byte == 0..255

(* shift_hi is 0 and shift_lo 8 with endian, the other way round without.  *)
Code422(b, endian) ==
    IF endian THEN b[1] + 256 * b[2] ELSE 256 * b[1] + b[2]

(* The encoders of the HD codec do not use their shift counts: "Keep       *)
(* endianness swapping bug from apt-X HD."                                 *)
CodeHD(b) == 65536 * b[1] + 256 * b[2] + b[3]

(* The decoders use them in both codecs.                                   *)
Packet422(code, endian) ==
    LET low  == code % 256
        high == (code \div 256) % 256
    IN  IF endian THEN <<low, high>> ELSE <<high, low>>

(* A slip: the middle byte is taken from the wrong end.                    *)
PacketHDShifted(code, endian) ==
    LET low  == code % 256
        high == (code \div 65536) % 256
    IN  IF endian THEN <<low, low, high>> ELSE <<high, low, low>>

PacketHD(code, endian) ==
    LET low  == code % 256
        mid  == (code \div 256) % 256
        high == (code \div 65536) % 256
    IN  IF endian THEN <<low, mid, high>> ELSE <<high, mid, low>>

Hosts == {"little", "big"}

(* A slip: the bytes are stored in the order of the packet.                *)
StubCode422Unswapped(b, endian, host) ==
    IF host = "little" THEN b[1] + 256 * b[2] ELSE 256 * b[1] + b[2]

(* The stub stores a uint16_t byte by byte.                                *)
StubCode422(b, endian, host) ==
    LET c == IF endian THEN <<b[1], b[2]>> ELSE <<b[2], b[1]>>
    IN  IF host = "little" THEN c[1] + 256 * c[2] ELSE 256 * c[1] + c[2]

(* ... and a uint32_t, its last byte zero; as a number of 24 bits on a     *)
(* little-endian host, while on a big-endian one the codeword lands in the *)
(* upper bytes: it is given in units of 256 there.                         *)
StubCodeHD(b, host) ==
    IF host = "little" THEN b[3] + 256 * b[2] + 65536 * b[1]
    ELSE 65536 * b[3] + 256 * b[2] + b[1]
=============================================================================
