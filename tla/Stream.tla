------------------------------- MODULE Stream -------------------------------
(***************************************************************************)
(* An encoder of either codec, a link that may lose a frame, and a decoder *)
(* structure of aptx-ffmpeg.c that outlives the streams: the encoder may   *)
(* be started again at any time, nobody tells the decoder.  It has to see  *)
(* it from the codewords, or its count of frames no longer agrees with the *)
(* encoder's cycle of marks and it turns good frames down.                 *)
(***************************************************************************)
EXTENDS Encode

CONSTANT Codec

(* Both sides use the same codec.                                          *)
ASSUME SameCodec == \/ Codec = "APTX" /\ Cells = Cells422
                    \/ Codec = "APTX_HD" /\ Cells = CellsHD100

VARIABLES
    av_ctx, av_packet, av_frame, magic, ready, rv, crashed, fed, lost,
    wire,   \* the latest frame: "none" yet, "sent", "lost" or "delivered"
    first,  \* the frame next on the wire is the first of its stream
    clean   \* history variable: see InStep

Decoder == INSTANCE FfmpegDecoder WITH Codewords <- {}, MaxLost <- 0

link == <<wire, first, clean>>
receiver == <<av_ctx, av_packet, av_frame, magic, ready, rv, crashed, fed, lost>>
streamVars == <<vars, receiver, link>>

(* Both sides agree on the byte order, the decoder is initialised.         *)
StreamInit ==
    /\ Init
    /\ av_ctx = "open" /\ av_packet = "allocated" /\ av_frame = "allocated"
    /\ magic = Decoder!Magic(shift = 8)
    /\ ready = TRUE /\ rv = 0 /\ crashed = FALSE /\ fed = 0 /\ lost = 0
    /\ wire = "none" /\ first = TRUE /\ clean = TRUE

Restart ==
    /\ wire # "sent"
    /\ ReInit
    /\ shift' = shift
    /\ first' = TRUE
    /\ clean' = FALSE
    /\ UNCHANGED <<receiver, wire>>

(* The first four samples meet the outermost coefficients of the filter    *)
(* banks only, which round them away: all differences are zero, whatever   *)
(* the samples.                                                            *)
NothingHeardYet(ch) ==
    \A sb \in Subbands : quantizer'[ch][sb].unk1 >= 0
                         /\ quantizer'[ch][sb].unk3 = 0

Encode(ch, from, to) ==
    /\ wire # "sent"
    /\ EncodeChannel(ch, from, to)
    /\ ~scaled => NothingHeardYet(ch)
    /\ UNCHANGED <<receiver, link>>

Finish ==
    /\ InsertSync \/ PostEncode
    /\ UNCHANGED <<receiver, link>>

Send ==
    /\ Pack
    /\ wire' = "sent"
    /\ UNCHANGED <<receiver, first, clean>>

Lose ==
    /\ wire = "sent"
    /\ wire' = "lost"
    /\ first' = FALSE
    /\ clean' = FALSE
    /\ UNCHANGED <<vars, receiver>>

(* The structure starts with a clean slate at the first frame of a stream  *)
(* and keeps it while every frame arrives and none looks like a first.     *)
Deliver(failing, accepted) ==
    /\ wire = "sent"
    /\ wire' = "delivered"
    /\ Decoder!Decode(code, failing, accepted)
    /\ first' = FALSE
    /\ clean' = IF first THEN failing = "none" /\ ~crashed'
                ELSE clean /\ ~Decoder!IsNewStream(code)
    /\ UNCHANGED vars

StreamNext ==
    \/ Restart
    \/ Encode(0, "idle", "right")
    \/ Encode(1, "right", "sync")
    \/ Finish
    \/ Send
    \/ Lose
    \/ \E failing \in Decoder!Reinits, accepted \in BOOLEAN :
         Deliver(failing, accepted)

StreamSpec == StreamInit /\ [][StreamNext]_streamVars

-----------------------------------------------------------------------------
(* Properties                                                              *)

Arrives == wire = "sent" /\ wire' = "delivered"

(* No start of a stream goes unnoticed: the first frame after              *)
(* aptxbtenc_init is the announcing codeword twice, through quantiser,     *)
(* dither, parity and byte order, so that a decoder that gets it starts    *)
(* over with it (or fails to rebuild its context, and says so).            *)
NewStreamDetected ==
    [][Arrives /\ first /\ av_ctx' = "open" => fed' = 1]_streamVars

(* The decoder's count agrees with the encoder's cycle, from the start of  *)
(* a stream for as long as no frame is lost and none is taken for the      *)
(* start of another stream.                                                *)
InStep ==
    pc = "idle" /\ wire # "sent" /\ clean => fed = (7 - sync) % 8

(* aptx-ffmpeg.c: "Reinitialize decoder if new stream was detection." -    *)
(* when the stream goes on, so does the decoder's context.                 *)
ReinitOnlyForNewStream ==
    [][Arrives /\ ~first /\ av_ctx = "open" /\ av_ctx' = "open"
         => fed' = (fed + 1) % 8]_streamVars
=============================================================================
