----------------------------- MODULE Utilities ------------------------------
(***************************************************************************)
(* aptxenc FILE... | aptxdec -: two processes that share nothing but the   *)
(* pipe, linked with the same library.                                     *)
(***************************************************************************)
EXTENDS AptxEnc, AptxDec

vars == <<library, encoder, pipe, decoder>>

Init == LibraryInit /\ EncInit /\ DecInit

DecOver == dec_pc \in {"closed", "failed", "crashed"}

EncNext ==
    /\ \/ \E failing \in Failures : OpenFile(failing)
       \/ ReadPcm
       \/ \E ok \in BOOLEAN : EncodeFrame(ok)
       \/ \E count \in 0..FrameBytes : WriteFrame(count)
       \/ DecOver /\ Killed
       \/ LeaveLoop
    /\ UNCHANGED <<library, decoder>>

EncOver == enc_pc \in {"ended", "killed"}

DecNext ==
    /\ \/ \E failing \in {"file", "malloc", "init", "none"} :
            OpenStream(failing) /\ UNCHANGED pipe
       \/ /\ ReadFrame(pipe, EncOver)
          /\ pipe' = IF Enough(pipe) THEN SubSeq(pipe, ReadSize + 1, Len(pipe))
                     ELSE <<>>
       \/ \E to \in Contexts, ok \in BOOLEAN, v \in Decoded :
            DecodeFrame(to, ok, v) /\ UNCHANGED pipe
       \/ DecodeNothing /\ UNCHANGED pipe
       \/ \E opens \in BOOLEAN : WriteSamples(opens) /\ UNCHANGED pipe
    /\ UNCHANGED <<library, encoder>>

Next == EncNext \/ DecNext

(* The operating system runs both processes.                               *)
Spec == Init /\ [][Next]_vars /\ WF_vars(EncNext) /\ WF_vars(DecNext)

-----------------------------------------------------------------------------
(* Properties                                                              *)

TypeOK ==
    /\ enc_pc \in {"open", "loop", "encode", "write", "ended", "killed"}
    /\ samples \in -(IntMax + 1)..IntMax
    /\ left \in Nat
    /\ taken \in Nat
    /\ shorts \in 0..MaxShort
    /\ Len(pipe) <= Capacity
    /\ dec_pc \in {"open", "loop", "decode", "write", "closed", "failed",
                  "crashed"}
    /\ context \in Contexts
    /\ played \in 0..Len(heard)
    /\ dec_build = "raw" => written \in Sample16

(* Every frame keeps its place on the way through the pipe, over the ends  *)
(* of the files and although frames are written whose encoding failed: the *)
(* frames carry no number, and a decoder that reads at another boundary    *)
(* never finds back.  A short write, which aptxenc only warns of, is the   *)
(* one thing that moves the boundary.                                      *)
FramesKeepTheirPlace ==
    (shorts = 0 /\ backend # "stub") =>
      \A k \in DOMAIN heard : heard[k] \in {k, Noise}

(* When both processes have come to their end every frame that was read    *)
(* from the files was heard and played, those in the pipe when aptxenc     *)
(* ended included, and those whose decoding failed.  The one decode call   *)
(* that ends aptxdec is with libavcodec, directly after a call that failed *)
(* to allocate a context; also then everything before it was played.       *)
NothingLost ==
    /\ (enc_pc = "ended" /\ dec_pc = "closed" /\ shorts = 0) =>
         Len(heard) = taken /\ played = taken
    /\ dec_pc = "crashed" =>
         /\ backend = "ffmpeg" /\ ~decoded
         /\ played >= 1 /\ played = Len(heard) - 1

(* The stub never reads past its recording, and cuts it at the boundaries  *)
(* of frames each time round, whatever is left at its end.                 *)
RecordingInBounds ==
    backend = "stub" =>
      \A k \in DOMAIN heard :
        heard[k] # Misaligned =>
          heard[k] % FrameBytes = 0 /\ heard[k] + FrameBytes <= StreamLength

(* What is written has the sign of what was decoded, also with the library *)
(* that does not extend it: the conversions of aptxdec put it right.       *)
SignSurvives ==
    (decoded /\ backend # "stub") =>
      written = IF dec_build = "sndfile" /\ hd THEN value ELSE value \div 256

(* In a sound file that holds fewer samples than its header says aptxenc   *)
(* reads for ever.                                                         *)
Spinning ==
    enc_build = "sndfile" /\ enc_pc = "loop" /\ samples >= ReadSamples
      /\ left < ReadSamples

(* The two processes come to their ends, or a truncated sound file holds   *)
(* them up: nothing else does, neither a full nor an empty pipe, nor a     *)
(* raw file however short, nor the other process having died.              *)
EndOrSpin ==
    <>(EncOver /\ DecOver) \/ <>[]Spinning
=============================================================================
