---------------------------- MODULE FfmpegEncoder ---------------------------
(***************************************************************************)
(* The encoder API over libavcodec (aptx-ffmpeg.c), with the one static    *)
(* structure that NewAptxEnc and NewAptxhdEnc both hand out.  Several      *)
(* users hold the same pointer, each with the codec and the byte order it  *)
(* asked for; a call of one initialises the structure again under the      *)
(* others.  What libavcodec and the allocator answer is a choice at every  *)
(* call.  aptxbtenc_init and aptxhdbtenc_init are the same function on a   *)
(* structure of the caller's.                                              *)
(***************************************************************************)
EXTENDS Codeword

CONSTANTS
    Users,    \* parts of a program that call NewAptxEnc or NewAptxhdEnc
    Packets,  \* packets libavcodec makes, per codec
    MaxLost   \* bound on how often the structure is initialised again

Codecs == {"APTX", "APTX_HD"}

(* The size the encode function of a codec asks for.                       *)
PacketSize(c) == IF c = "APTX" THEN 4 ELSE 6

ASSUME PacketsAssumption ==
    \A c \in Codecs : Packets[c] \subseteq [1..PacketSize(c) -> Byte]
ASSUME MaxLostAssumption == MaxLost \in Nat
ASSUME UsersAssumption == "nobody" \notin Users

VARIABLES
    av_ctx,     \* "null", "closed" (allocated, not opened), "open"
    av_packet,  \* "null", "blank", "filled" (holds a reference to data)
    av_frame,   \* "null", "bare" (without a buffer), "buffered"
    codec,      \* what the context encodes
    endian,     \* the byte order the shift counts stand for
    handle,     \* per user: the codec it takes its pointer for, or "none"
    asked,      \* per user: the byte order it asked for
    ready,      \* history variable: the last initialisation succeeded
    served,     \* history variable: who got codewords from the last call
    data,       \* history variable: the packet they were made from
    code,       \* the codewords
    crashed,    \* a null pointer was dereferenced
    lost        \* history variable: allocated objects nothing points to

fields == <<av_ctx, av_packet, av_frame>>
users == <<handle, asked>>
result == <<served, data, code>>
vars == <<fields, codec, endian, users, ready, result, crashed, lost>>

Held(field) == IF field = "null" THEN 0 ELSE 1

Referenced == Held(av_ctx) + Held(av_packet) + Held(av_frame)

(* A structure with static storage starts zeroed.                          *)
Init ==
    /\ av_ctx = "null"
    /\ av_packet = "null"
    /\ av_frame = "null"
    /\ codec = "APTX"
    /\ endian = FALSE
    /\ handle = [u \in Users |-> "none"]
    /\ asked = [u \in Users |-> FALSE]
    /\ ready = FALSE
    /\ served = "nobody"
    /\ data = <<>>
    /\ code = <<>>
    /\ crashed = FALSE
    /\ lost = 0

Nobody ==
    /\ served' = "nobody"
    /\ data' = <<>>
    /\ code' = <<>>

Failures == {"find", "context", "open", "packet", "frame", "frame_size",
             "buffer", "none"}

(* A slip: the size of the frame is not asked of the context.              *)
NewSucceedsUnasked(failing) == failing \in {"frame_size", "none"}

NewSucceeds(failing) == failing = "none"

(* aptx_ffmpeg_enc_init up to the call that fails.  The pointers are       *)
(* cleared first, whatever they pointed to, and the failure path frees     *)
(* nothing (aptx_ffmpeg_destroy returns at once): a pointer another user   *)
(* still holds then leads to a structure that is half built.               *)
New(u, c, e, failing) ==
    /\ ~crashed
    /\ lost + Referenced <= MaxLost
    /\ lost' = lost + Referenced
    /\ codec' = c
    /\ endian' = e
    /\ av_ctx' = IF failing \in {"find", "context"} THEN "null"
                 ELSE IF failing = "open" THEN "closed" ELSE "open"
    /\ av_packet' = IF failing \in {"find", "context", "open", "packet"}
                    THEN "null" ELSE "blank"
    /\ av_frame' = IF failing = "none" THEN "buffered"
                   ELSE IF failing \in {"frame_size", "buffer"} THEN "bare" ELSE "null"
    /\ ready' = NewSucceeds(failing)
    /\ handle' = [handle EXCEPT ![u] = IF NewSucceeds(failing) THEN c ELSE "none"]
    /\ asked' = [asked EXCEPT ![u] = e]
    /\ Nobody
    /\ UNCHANGED crashed

(* A slip: a packet that is longer will do.                                *)
SizeFitsLonger(size, wanted) == size >= wanted

SizeFits(size, wanted) == size = wanted

(* A slip: the error path leaves the packet as it is.                      *)
AfterFailureKept(packet) == packet

(* av_packet_unref                                                         *)
AfterFailure(packet) == "blank"
AfterSuccess(packet) == "blank"

(* aptxbtenc_encodestereo, aptxhdbtenc_encodestereo                        *)
Codewords(c, e, p) ==
    IF c = "APTX"
    THEN <<Code422(<<p[1], p[2]>>, e), Code422(<<p[3], p[4]>>, e)>>
    ELSE <<CodeHD(<<p[1], p[2], p[3]>>), CodeHD(<<p[4], p[5], p[6]>>)>>

Refusals == {"writable", "send", "receive", "none"}

(* aptx_ffmpeg_encode, up to the call that fails, and the function of the  *)
(* codec the user takes the structure for.  A frame without a buffer       *)
(* cannot be made writable.  An open context encodes a packet of its own   *)
(* codec.                                                                  *)
Encode(u, failing, p) ==
    /\ ~crashed
    /\ handle[u] # "none"
    /\ IF av_frame = "null"
       THEN /\ crashed' = TRUE
            /\ UNCHANGED <<av_packet, result>>
       ELSE LET received == failing = "none" /\ av_frame = "buffered"
                packet   == IF received THEN "filled" ELSE av_packet
                success  == received /\ SizeFits(Len(p), PacketSize(handle[u]))
            IN  /\ av_packet' = IF success THEN AfterSuccess(packet)
                                ELSE AfterFailure(packet)
                /\ served' = IF success THEN u ELSE "nobody"
                /\ data' = IF success THEN p ELSE <<>>
                /\ code' = IF success THEN Codewords(handle[u], endian, p) ELSE <<>>
                /\ UNCHANGED crashed
    /\ UNCHANGED <<av_ctx, av_frame, codec, endian, users, ready, lost>>

EncodeStereo ==
    \E u \in Users, failing \in Refusals, p \in Packets[codec] : Encode(u, failing, p)

(* aptx_ffmpeg_destroy returns at once unless it is given NULL.            *)
Destroy(u) ==
    /\ ~crashed
    /\ handle[u] # "none"
    /\ handle' = [handle EXCEPT ![u] = "none"]
    /\ Nobody
    /\ UNCHANGED <<fields, codec, endian, asked, ready, crashed, lost>>

Next ==
    \/ \E u \in Users, c \in Codecs, e \in BOOLEAN, failing \in Failures :
         New(u, c, e, failing)
    \/ EncodeStereo
    \/ \E u \in Users : Destroy(u)

Spec == Init /\ [][Next]_vars

-----------------------------------------------------------------------------
(* Properties                                                              *)

(* Between two calls the packet holds no reference, whichever call failed  *)
(* in between.                                                             *)
PacketReleased == av_packet # "filled"

(* Every pointer that was handed out leads to a complete structure until   *)
(* somebody's initialisation fails; only then an encode call can crash.    *)
UsableUntilNewFails ==
    ready => /\ av_ctx = "open" /\ av_packet # "null" /\ av_frame = "buffered"
             /\ ~crashed

(* A user never gets codewords that were made by the other codec, although *)
(* nothing but the size of a packet tells that somebody else has turned    *)
(* the structure to that codec.                                            *)
NeverTheOtherCodec == served # "nobody" => handle[served] = codec

(* The bytes a decoder makes of the codewords are those of the packet.  In *)
(* the HD codec that takes a decoder without endian, whatever the encoder  *)
(* was asked for; in the other the user must still have the byte order it  *)
(* asked for, which another user may have changed.                         *)
DecodersGetThePacket ==
    (served # "nobody" /\ (codec = "APTX" => asked[served] = endian)) =>
      data = IF handle[served] = "APTX"
             THEN Packet422(code[1], asked[served]) \o Packet422(code[2], asked[served])
             ELSE PacketHD(code[1], FALSE) \o PacketHD(code[2], FALSE)

(* A program that is linked with the stub instead sees the same packet as  *)
(* the same codewords, on a little-endian host.                            *)
StubAgrees ==
    served # "nobody" =>
      code = IF codec = "APTX"
             THEN <<StubCode422(<<data[1], data[2]>>, endian, "little"),
                    StubCode422(<<data[3], data[4]>>, endian, "little")>>
             ELSE <<StubCodeHD(<<data[1], data[2], data[3]>>, "little"),
                    StubCodeHD(<<data[4], data[5], data[6]>>, "little")>>
=============================================================================
