------------------------------- MODULE Backend ------------------------------
(***************************************************************************)
(* The library the utilities are linked with, as far as they can tell the  *)
(* three of them apart.  aptx-stub.c: the encoder plays a recording over   *)
(* and over, the decoder counts, and nothing fails; both keep a counter in *)
(* a structure of the same type.  The other two encode and decode, may     *)
(* fail at any call, and differ in how they hand out samples.              *)
(***************************************************************************)
EXTENDS Pcm

CONSTANT StreamLength  \* bytes of the recording

ASSUME StreamLengthAssumption == StreamLength \in Nat /\ StreamLength >= 6

VARIABLES
    hd,      \* built for aptX HD
    backend  \* "ffmpeg", "freeaptx" or "stub"

library == <<hd, backend>>

FrameBytes == IF hd THEN 6 ELSE 4

LibraryInit == hd \in BOOLEAN /\ backend \in {"ffmpeg", "freeaptx", "stub"}

MayFail == backend # "stub"

(* A slip: a frame is taken as soon as its first byte is there.            *)
StartLate(counter) == IF counter >= StreamLength THEN 0 ELSE counter

(* Where in the recording the next frame starts.                           *)
Start(counter) ==
    IF counter + FrameBytes > StreamLength THEN 0 ELSE counter

(* aptx_stub_encode and aptx_stub_decode: the counter after the call.      *)
AfterEncode(counter) == Start(counter) + FrameBytes
AfterDecode(counter) == counter + 8

(* The first sample a decoder hands out.                                   *)
Samples(v, counter) ==
    CASE backend = "ffmpeg"   -> FfmpegOut(hd, v)
      [] backend = "freeaptx" -> FreeaptxOut(hd, v)
      [] backend = "stub"     -> counter + 1
=============================================================================
