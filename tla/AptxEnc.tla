------------------------------- MODULE AptxEnc ------------------------------
(***************************************************************************)
(* utils/aptxenc.c: reads audio files one after the other, encodes eight   *)
(* samples at a time (four of each channel) and writes the codewords to    *)
(* its standard output.  It is built either with libsndfile, which tells   *)
(* how many samples a file has, or for raw streams of unknown length.      *)
(* The pipe stands for the buffer of stdio and that of the kernel          *)
(* together: what was written may or may not have left the process.        *)
(***************************************************************************)
EXTENDS Sequences, Backend

CONSTANTS
    Inputs,      \* sequences of files: samples their header promises, present
    IntMax,      \* INT_MAX
    Capacity,    \* bytes the pipe behind the standard output holds
    MaxShort     \* bound on the number of short writes

(* Without a file the program only prints how it is used.                  *)
ASSUME InputsAssumption ==
    \A list \in Inputs :
      list # <<>> /\ list \in Seq([promised : Nat, present : Nat])

ASSUME LimitsAssumption == IntMax \in Nat /\ Capacity \in Nat /\ MaxShort \in Nat

ReadSamples == 8

VARIABLES
    enc_build,  \* "sndfile" or "raw"
    files,      \* the files still to do, the current one first
    enc_pc,
    samples,    \* what the loop still expects
    left,       \* samples the current file still has
    enc_count,  \* counter of the stub
    frame,      \* the frame that was encoded last; noise if that failed
    taken,      \* history variable: frames read from the files
    shorts,     \* short writes
    pipe        \* bytes written and not read yet

input == <<enc_build, files, left, taken>>
encoder == <<input, enc_pc, samples, enc_count, frame, shorts>>

Noise == -1

(* A slip: a count of 64 bits.                                             *)
AsIntWhole(n) == n

(* Conversion of a 64-bit count to an int.                                 *)
AsInt(n) == ((n + IntMax + 1) % (2 * (IntMax + 1))) - (IntMax + 1)

EncInit ==
    /\ enc_build \in {"sndfile", "raw"}
    /\ files \in Inputs
    /\ enc_pc = "open"
    /\ samples = 0
    /\ left = 0
    /\ enc_count = 0
    /\ frame = Noise
    /\ taken = 0
    /\ shorts = 0
    /\ pipe = <<>>

(* The call of encode is over, main takes the next file.  The last one     *)
(* ends the program.                                                       *)
NextFile ==
    /\ files' = Tail(files)
    /\ enc_pc' = IF Len(files) = 1 THEN "ended" ELSE "open"

Failures == {"file", "channels", "malloc", "init", "none"}

(* Up to the call that fails.                                              *)
OpenFile(failing) ==
    /\ enc_pc = "open"
    /\ IF failing = "none"
       THEN /\ enc_pc' = "loop"
            /\ samples' = IF enc_build = "raw" THEN IntMax
                          ELSE AsInt(Head(files).promised)
            /\ left' = Head(files).present
            /\ enc_count' = 0
            /\ UNCHANGED files
       ELSE /\ failing = "channels" => enc_build = "sndfile"
            /\ failing = "init" => MayFail
            /\ NextFile
            /\ UNCHANGED <<samples, left, enc_count>>
    /\ UNCHANGED <<enc_build, frame, taken, shorts, pipe>>

(* A slip: the raw build carries on like the other one.                    *)
ShortReadContinues == enc_pc' = "loop" /\ UNCHANGED files

(* A short read: the raw build returns from encode, the other one starts   *)
(* the next iteration without having reduced the count.                    *)
ShortRead ==
    IF enc_build = "raw" THEN NextFile
    ELSE enc_pc' = "loop" /\ UNCHANGED files

ReadPcm ==
    /\ enc_pc = "loop"
    /\ samples >= ReadSamples
    /\ IF left >= ReadSamples
       THEN /\ enc_pc' = "encode"
            /\ left' = left - ReadSamples
            /\ taken' = taken + 1
            /\ UNCHANGED files
       ELSE /\ left' = 0
            /\ ShortRead
            /\ UNCHANGED taken
    /\ UNCHANGED <<enc_build, samples, enc_count, frame, shorts, pipe>>

(* What the encode call leaves in the array of codewords; its result is    *)
(* not looked at.  The stub never fails.                                   *)
EncodeFrame(ok) ==
    /\ enc_pc = "encode"
    /\ ok \/ MayFail
    /\ enc_pc' = "write"
    /\ IF backend = "stub"
       THEN /\ frame' = Start(enc_count)
            /\ enc_count' = AfterEncode(enc_count)
       ELSE /\ frame' = IF ok THEN taken ELSE Noise
            /\ UNCHANGED enc_count
    /\ UNCHANGED <<input, samples, shorts, pipe>>

(* The write blocks while the pipe is full.  After a short one the program *)
(* goes on with the next frame.                                            *)
WriteFrame(count) ==
    /\ enc_pc = "write"
    /\ Len(pipe) + FrameBytes <= Capacity
    /\ pipe' = pipe \o [k \in 1..count |-> <<frame, k>>]
    /\ shorts' = IF count = FrameBytes THEN shorts ELSE shorts + 1
    /\ shorts' <= MaxShort
    /\ samples' = samples - ReadSamples
    /\ enc_pc' = "loop"
    /\ UNCHANGED <<input, enc_count, frame>>

(* A buffer is flushed to a pipe nobody reads any more: SIGPIPE is not     *)
(* handled.                                                                *)
Killed ==
    /\ enc_pc = "write"
    /\ enc_pc' = "killed"
    /\ files' = <<>>
    /\ UNCHANGED <<enc_build, left, taken, samples, enc_count, frame,
                   shorts, pipe>>

LeaveLoop ==
    /\ enc_pc = "loop"
    /\ samples < ReadSamples
    /\ NextFile
    /\ UNCHANGED <<enc_build, left, taken, samples, enc_count, frame,
                   shorts, pipe>>
=============================================================================
