-------------------------------- MODULE Pcm ---------------------------------
(***************************************************************************)
(* The way of a sample between a file and a codec: the conversions of the  *)
(* two utilities and those of the back ends.  The codecs themselves work   *)
(* on signed samples of 24 bits.  A sample of a sound file has 32 bits; of *)
(* one that is written the lowest 16 (or 8, in the HD codec) are zero, and *)
(* it is given here in units of these.                                     *)
(***************************************************************************)
EXTENDS Integers

Signed(v, modulus) ==
    LET low == v % modulus IN IF 2 * low < modulus THEN low ELSE low - modulus

Sample16 == {v \in Int : -32768 <= v /\ v <= 32767}
Sample24 == {v \in Int : -8388608 <= v /\ v <= 8388607}

(* What a back end makes of a sample it is to encode: aptx-ffmpeg.c shifts *)
(* it to the upper end of 32 bits, the codec takes the upper 24.           *)
FfmpegIn(hd, pcm) == IF hd THEN pcm ELSE 256 * pcm

(* aptx-freeaptx.c splits it into three bytes.                             *)
FreeaptxIn(hd, pcm) ==
    LET Byte(v) == v % 256
    IN  Signed(IF hd THEN Byte(pcm) + 256 * Byte(pcm \div 256)
                            + 65536 * Byte(pcm \div 65536)
               ELSE 256 * Byte(pcm) + 65536 * Byte(pcm \div 256), 16777216)

(* aptxenc: what it passes on of a sample of a 16-bit raw stream, and of   *)
(* one of 32 bits of a sound file.                                         *)
EncodeRaw(hd, sample) == IF hd THEN 256 * sample ELSE sample
EncodeSound(hd, sample) == sample \div (IF hd THEN 256 ELSE 65536)

(* What a back end hands out of a decoded sample: aptx-ffmpeg.c shifts the *)
(* 32 bits libavcodec gives.                                               *)
FfmpegOut(hd, v) == IF hd THEN v ELSE v \div 256

(* A slip: the upper byte is lost.                                         *)
FreeaptxOutShort(hd, v) ==
    LET number == v % 65536 IN IF hd THEN number ELSE number \div 256

(* aptx-freeaptx.c puts three bytes together as a number that is never     *)
(* negative: the sign is not extended.                                     *)
FreeaptxOut(hd, v) ==
    LET number == v % 16777216 IN IF hd THEN number ELSE number \div 256

(* aptxdec: what it writes to a raw stream of 16 bits, and to a sound file.*)
DecodeRaw(hd, pcm) == Signed(IF hd THEN pcm \div 256 ELSE pcm, 65536)
DecodeSound(hd, pcm) == Signed(pcm, IF hd THEN 16777216 ELSE 65536)
=============================================================================
