------------------------------- MODULE AptxDec ------------------------------
(***************************************************************************)
(* utils/aptxdec.c: reads frames from a stream, decodes them and writes    *)
(* the samples to its standard output, as a sound file or raw.  Its input  *)
(* is the pipe aptxenc writes to; the bytes of a frame are numbered, so    *)
(* that a frame that is put together from the wrong bytes can be told.     *)
(***************************************************************************)
EXTENDS Sequences, Backend

CONSTANT Decoded  \* samples of 24 bits the codec decodes

ASSUME DecodedAssumption == Decoded \subseteq Sample24

VARIABLES
    dec_build,  \* "sndfile" or "raw"
    dec_pc,
    sf,         \* the output file has been opened
    context,    \* what decodes; av_ctx of libavcodec may not stay "open"
    dec_count,  \* counter of the stub
    heard,      \* history variable: the frames that were read
    played,     \* history variable: how many were handed to the output
    decoded,    \* history variable: the last decode call succeeded
    value,      \* history variable: what the codec decoded
    written     \* the first sample that was written

(* None, allocated but not opened, ready.                                  *)
Contexts == {"null", "closed", "open"}

sound == <<dec_count, decoded, value, written>>
decoder == <<dec_build, dec_pc, sf, context, heard, played, sound>>

DecInit ==
    /\ dec_build \in {"sndfile", "raw"}
    /\ dec_pc = "open"
    /\ sf = FALSE
    /\ context = "null"
    /\ dec_count = 0
    /\ heard = <<>>
    /\ played = 0
    /\ decoded = FALSE
    /\ value = 0
    /\ written = 0

(* Opening the stream, allocating and initialising the decoder.            *)
OpenStream(failing) ==
    /\ dec_pc = "open"
    /\ failing = "init" => MayFail
    /\ dec_pc' = IF failing = "none" THEN "loop" ELSE "failed"
    /\ context' = IF failing = "none" THEN "open" ELSE context
    /\ UNCHANGED <<dec_build, sf, heard, played, sound>>

Misaligned == -2

(* A slip: the size of a frame of the other codec.                         *)
ReadSizeOther == 10 - FrameBytes

ReadSize == FrameBytes

(* The frame a run of bytes is.                                            *)
FrameOf(bytes) ==
    IF \A k \in DOMAIN bytes : bytes[k] = <<bytes[1][1], k>>
    THEN bytes[1][1] ELSE Misaligned

(* A slip: the stream is taken to be over when nothing would be left.      *)
EnoughAndMore(stream) == Len(stream) > ReadSize

Enough(stream) == Len(stream) >= ReadSize

(* stream is what can be read, over that nothing more will come.  A short  *)
(* read leaves the loop.                                                   *)
ReadFrame(stream, over) ==
    /\ dec_pc = "loop"
    /\ IF Enough(stream)
       THEN /\ heard' = Append(heard, FrameOf(SubSeq(stream, 1, ReadSize)))
            /\ dec_pc' = "decode"
       ELSE /\ over
            /\ dec_pc' = "closed"
            /\ UNCHANGED heard
    /\ UNCHANGED <<dec_build, sf, context, played, sound>>

ToFile(pcm) ==
    IF dec_build = "raw" THEN DecodeRaw(hd, pcm) ELSE DecodeSound(hd, pcm)

(* The result of the decode call is not looked at: when it fails the       *)
(* arrays were never written and v, whatever they hold, is played.  With   *)
(* libavcodec a frame that announces a stream builds the context anew,     *)
(* which leaves none if it cannot be allocated, and a closed one if it     *)
(* cannot be opened (Decode of FfmpegDecoder).                             *)
DecodeFrame(to, ok, v) ==
    /\ dec_pc = "decode"
    /\ context # "null"
    /\ to = context \/ backend = "ffmpeg"
    /\ ok => to = "open"
    /\ ok \/ MayFail
    /\ dec_pc' = "write"
    /\ context' = to
    /\ dec_count' = IF backend = "stub" THEN AfterDecode(dec_count) ELSE dec_count
    /\ decoded' = ok
    /\ value' = v
    /\ written' = ToFile(Samples(v, dec_count))
    /\ UNCHANGED <<dec_build, sf, heard, played>>

(* The frame after a rebuilding that left no context: libavcodec is handed *)
(* a null pointer, and the process dies, and with it the samples stdio has *)
(* taken (played) but not yet passed on.                                   *)
DecodeNothing ==
    /\ dec_pc = "decode"
    /\ context = "null"
    /\ dec_pc' = "crashed"
    /\ UNCHANGED <<dec_build, sf, context, heard, played, sound>>

(* The sound file is created when the first samples are there; if that     *)
(* fails the call of decode is over.  A short write is only reported.      *)
WriteSamples(opens) ==
    /\ dec_pc = "write"
    /\ IF dec_build = "sndfile" /\ ~sf /\ ~opens
       THEN /\ dec_pc' = "failed"
            /\ UNCHANGED <<sf, played>>
       ELSE /\ dec_pc' = "loop"
            /\ sf' = (dec_build = "sndfile")
            /\ played' = played + 1
    /\ UNCHANGED <<dec_build, context, heard, sound>>
=============================================================================
