---------------------------- MODULE FfmpegDecoder ---------------------------
(***************************************************************************)
(* The decoder API over libavcodec (aptx-ffmpeg.c): the life of one        *)
(* decoder structure.  What libavcodec and the allocator answer is a       *)
(* choice at every call.  decode and destroy are called on a structure     *)
(* that aptxbtdec_init has initialised, as openaptx.h asks for; a caller   *)
(* need not stop at an error of decode (utils/aptxdec.c does not).         *)
(***************************************************************************)
EXTENDS Integers

CONSTANTS
    Codec,      \* "APTX" or "APTX_HD"
    Codewords,  \* codewords that arrive
    MaxLost     \* bound on how often a used structure is initialised again

ASSUME CodecAssumption == Codec \in {"APTX", "APTX_HD"}
ASSUME CodewordsAssumption == Codewords \subseteq Nat
ASSUME MaxLostAssumption == MaxLost \in Nat

VARIABLES
    av_ctx,     \* "garbage", "null", "closed" (allocated, not opened), "open"
    av_packet,  \* "garbage", "null", "allocated"
    av_frame,
    magic,      \* the codeword that announces a new stream
    ready,      \* init has returned 0, and destroy has not been called since
    rv,         \* what the last call returned
    crashed,    \* a null pointer was dereferenced
    fed,        \* history variable: frames the open context took, modulo 8
    lost        \* history variable: allocated objects nothing points to

fields == <<av_ctx, av_packet, av_frame>>
vars == <<fields, magic, ready, rv, crashed, fed, lost>>

(* A slip: one byte order for all callers.                                 *)
MagicOneOrder(endian) == IF Codec = "APTX" THEN 19391 ELSE 7585535

(* A little-endian caller hands over codewords as numbers, a big-endian    *)
(* one as the bytes lie on the wire.                                       *)
Magic(endian) ==
    CASE Codec = "APTX"    /\ endian  -> 48971     \* 0xBF4B
      [] Codec = "APTX"    /\ ~endian -> 19391     \* 0x4BBF
      [] Codec = "APTX_HD" /\ endian  -> 16760435  \* 0xFFBE73
      [] Codec = "APTX_HD" /\ ~endian -> 7585535   \* 0x73BEFF

Held(field) == IF field \in {"allocated", "closed", "open"} THEN 1 ELSE 0

Referenced == Held(av_ctx) + Held(av_packet) + Held(av_frame)

Init ==
    /\ av_ctx = "garbage"
    /\ av_packet = "garbage"
    /\ av_frame = "garbage"
    /\ magic = 0
    /\ ready = FALSE
    /\ rv = 0
    /\ crashed = FALSE
    /\ fed = 0
    /\ lost = 0

(* aptx_ffmpeg_dec_init, up to the call that fails.  aptx_ffmpeg_init      *)
(* clears the pointers first, whatever they pointed to.  The failure path  *)
(* calls aptx_ffmpeg_destroy, which returns at once.                       *)
DecInit(endian, failing) ==
    /\ ~crashed
    /\ lost + Referenced <= MaxLost
    /\ lost' = lost + Referenced
    /\ magic' = Magic(endian)
    /\ av_ctx' = CASE failing \in {"find", "context"} -> "null"
                   [] failing = "open" -> "closed"
                   [] OTHER -> "open"
    /\ av_packet' = IF failing \in {"frame", "none"} THEN "allocated" ELSE "null"
    /\ av_frame' = IF failing = "none" THEN "allocated" ELSE "null"
    /\ ready' = (failing = "none")
    /\ rv' = IF failing = "none" THEN 0 ELSE -1
    /\ fed' = 0
    /\ UNCHANGED crashed

Failures == {"find", "context", "open", "packet", "frame", "none"}

Crash ==
    /\ crashed' = TRUE
    /\ UNCHANGED <<fields, magic, ready, rv, fed, lost>>

(* aptx_ffmpeg_destroy, of an initialised handler or of NULL.  Its guard   *)
(* sends every handler but NULL away; the frees are reached through NULL.  *)
Destroy(dec) ==
    /\ ~crashed
    /\ IF dec # "NULL"
       THEN /\ ready
            /\ ready' = FALSE
            /\ UNCHANGED <<fields, magic, rv, crashed, fed, lost>>
       ELSE Crash

IsNewStream(code) == code[0] = code[1] /\ code[0] = magic

(* avcodec_free_context, then aptx_ffmpeg_init_codec up to the call that   *)
(* fails.  The codec is read through the old context.                      *)
Rebuilt(failing) ==
    CASE failing = "context" -> "null"
      [] failing = "open" -> "closed"
      [] failing = "none" -> "open"

(* A slip: the old context is not freed before the new one is allocated.   *)
NoFree(field) == field

(* What avcodec_free_context leaves in the field.                          *)
AfterFree(field) == "null"

(* Slips: the answer of an unopened context is not looked at; the count    *)
(* does not wrap.                                                          *)
FeedUnchecked(ctx, count, accepted) ==
    /\ rv' = IF accepted THEN 0 ELSE -1
    /\ fed' = IF ctx = "open" THEN (count + 1) % 8 ELSE count
FeedUnwrapped(ctx, count, accepted) ==
    /\ rv' = IF ctx = "open" /\ accepted THEN 0 ELSE -1
    /\ fed' = IF ctx = "open" THEN count + 1 ELSE count

(* aptx_ffmpeg_decode: libavcodec takes packets for an open context only,  *)
(* and may turn one down (the synchronisation parity does not fit).  An    *)
(* open context counts every packet, accepted or not.                      *)
Feed(ctx, count, accepted) ==
    /\ rv' = IF ctx = "open" /\ accepted THEN 0 ELSE -1
    /\ fed' = IF ctx = "open" THEN (count + 1) % 8 ELSE count

(* aptxbtdec_decodestereo, aptxhdbtdec_decodestereo.                       *)
Decode(code, failing, accepted) ==
    /\ ready
    /\ ~crashed
    /\ IF av_ctx = "null" THEN Crash
       ELSE /\ IF ~IsNewStream(code)
               THEN /\ Feed(av_ctx, fed, accepted)
                    /\ UNCHANGED <<av_ctx, lost>>
               ELSE /\ av_ctx' = Rebuilt(failing)
                    /\ lost' = lost + Held(AfterFree(av_ctx))
                    /\ IF failing = "none" THEN Feed("open", 0, accepted)
                       ELSE rv' = -1 /\ fed' = 0
            /\ UNCHANGED <<av_packet, av_frame, magic, ready, crashed>>

Reinits == {"context", "open", "none"}

DecodeStereo ==
    \E code \in [0..1 -> Codewords], failing \in Reinits, accepted \in BOOLEAN :
      Decode(code, failing, accepted)

Next ==
    \/ \E endian \in BOOLEAN, failing \in Failures : DecInit(endian, failing)
    \/ DecodeStereo
    \/ \E dec \in {"dec", "NULL"} : Destroy(dec)

Spec == Init /\ [][Next]_vars

-----------------------------------------------------------------------------
(* Properties                                                              *)

TypeOK ==
    /\ av_ctx \in {"garbage", "null", "closed", "open"}
    /\ av_packet \in {"garbage", "null", "allocated"}
    /\ av_frame \in {"garbage", "null", "allocated"}
    /\ magic \in {0, Magic(TRUE), Magic(FALSE)}
    /\ ready \in BOOLEAN
    /\ rv \in {0, -1}
    /\ crashed \in BOOLEAN
    /\ fed \in 0..7
    /\ lost \in 0..MaxLost

(* As long as the calls on a structure return 0 everything the next one    *)
(* goes through is there: init has built it all, and a rebuilding in the   *)
(* middle of a stream that does not end with an open context is reported,  *)
(* by that call and by every one after it until a rebuilding succeeds.     *)
SuccessMeansUsable ==
    ready => /\ av_packet = "allocated" /\ av_frame = "allocated"
             /\ rv = 0 => av_ctx = "open"

(* Decoding, with however many rebuildings in between, loses no memory.    *)
DecodingLosesNothing == [][DecodeStereo => lost' = lost]_vars

(* openaptx.h, "Destroy decoder structure." and "@param dec Initialized    *)
(* decoder handler or NULL.": what init allocated is freed again.          *)
DestroyReleases == [][Destroy("dec") => Referenced' = 0]_vars
=============================================================================
