-------------------------- MODULE UtilitiesProofs ---------------------------
(***************************************************************************)
(* The two utilities, for all files, pipes and recordings, and all samples *)
(* the codecs decode; and that they get to an end.                         *)
(***************************************************************************)
EXTENDS Utilities, SequenceTheorems, TLAPS

-----------------------------------------------------------------------------
(* Samples                                                                 *)

(* The number of a sample of 24 bits without its sign.                     *)
LEMMA Unsigned24 ==
    ASSUME NEW v \in Sample24
    PROVE  /\ v \in Int
           /\ v % 16777216 = IF v < 0 THEN v + 16777216 ELSE v
           /\ (v % 16777216) \div 256
                = IF v < 0 THEN v \div 256 + 65536 ELSE v \div 256
           /\ v \div 256 >= -32768 /\ v \div 256 <= 32767
           /\ v < 0 <=> v \div 256 < 0
<1>1. v \in Int /\ v >= -8388608 /\ v <= 8388607
  BY SMT DEF Sample24
<1>2. v % 16777216 = IF v < 0 THEN v + 16777216 ELSE v
  BY <1>1, SMT
<1>3. (v + 16777216) \div 256 = v \div 256 + 65536
  BY <1>1, SMT
<1>4. /\ v \div 256 >= -32768 /\ v \div 256 <= 32767
      /\ v < 0 <=> v \div 256 < 0
  BY <1>1, SMT
<1> QED
  BY <1>1, <1>2, <1>3, <1>4, SMT

(* The libraries hand the codec the same sample, whatever its sign.        *)
THEOREM LibrariesTakeTheSame ==
    ASSUME NEW v \in IF hd THEN Sample24 ELSE Sample16
    PROVE  FreeaptxIn(hd, v) = FfmpegIn(hd, v)
<1>1. CASE hd
  <2>1. v \in Int /\ v >= -8388608 /\ v <= 8388607
    BY <1>1, SMT DEF Sample24
  <2>2. (v % 256) + 256 * ((v \div 256) % 256) + 65536 * ((v \div 65536) % 256)
          = v % 16777216
    BY <2>1, SMT
  <2>3. v % 16777216 = IF v < 0 THEN v + 16777216 ELSE v
    BY <2>1, SMT
  <2>4. (v % 16777216) % 16777216 = v % 16777216
    BY <2>1, SMT
  <2> QED
    BY <1>1, <2>1, <2>2, <2>3, <2>4, SMT DEF FreeaptxIn, FfmpegIn, Signed
<1>2. CASE ~hd
  <2>1. v \in Int /\ v >= -32768 /\ v <= 32767
    BY <1>2, SMT DEF Sample16
  <2>2. 256 * (v % 256) + 65536 * ((v \div 256) % 256) = (256 * v) % 16777216
    BY <2>1, SMT
  <2>3. (256 * v) % 16777216 = IF v < 0 THEN 256 * v + 16777216 ELSE 256 * v
    BY <2>1, SMT
  <2>4. ((256 * v) % 16777216) % 16777216 = (256 * v) % 16777216
    BY <2>1, SMT
  <2> QED
    BY <1>2, <2>1, <2>2, <2>3, <2>4, SMT DEF FreeaptxIn, FfmpegIn, Signed
<1> QED
  BY <1>1, <1>2

(* The range the libraries take is the one aptxenc keeps to with a sound   *)
(* file, whatever the 32 bits it read.                                     *)
THEOREM SoundFits ==
    ASSUME NEW x \in Int, -2147483648 <= x, x <= 2147483647
    PROVE  EncodeSound(hd, x) \in IF hd THEN Sample24 ELSE Sample16
<1>1. /\ x \div 256 \in Int
      /\ -8388608 <= x \div 256 /\ x \div 256 <= 8388607
  BY SMT
<1>2. /\ x \div 65536 \in Int
      /\ -32768 <= x \div 65536 /\ x \div 65536 <= 32767
  BY SMT
<1> QED
  BY <1>1, <1>2, SMT DEF EncodeSound, Sample16, Sample24

(* A sample of a raw stream reaches the codec at the upper end of its 24   *)
(* bits in either codec, and if that is what is decoded aptxdec writes the *)
(* sample that was read, with either library.                              *)
THEOREM RawComesBack ==
    ASSUME NEW s \in Sample16
    PROVE  /\ FfmpegIn(hd, EncodeRaw(hd, s)) = 256 * s
           /\ FreeaptxIn(hd, EncodeRaw(hd, s)) = 256 * s
           /\ DecodeRaw(hd, FfmpegOut(hd, 256 * s)) = s
           /\ DecodeRaw(hd, FreeaptxOut(hd, 256 * s)) = s
<1>1. s \in Int /\ s >= -32768 /\ s <= 32767
  BY SMT DEF Sample16
<1>2. EncodeRaw(hd, s) \in IF hd THEN Sample24 ELSE Sample16
  BY <1>1, SMT DEF EncodeRaw, Sample16, Sample24
<1>3. FfmpegIn(hd, EncodeRaw(hd, s)) = 256 * s
  BY DEF FfmpegIn, EncodeRaw
<1>4. FreeaptxIn(hd, EncodeRaw(hd, s)) = 256 * s
  BY <1>2, <1>3, LibrariesTakeTheSame
<1>5. (256 * s) \div 256 = s
  BY <1>1, SMT
<1>6. s % 65536 = IF s < 0 THEN s + 65536 ELSE s
  BY <1>1, SMT
<1>7. DecodeRaw(hd, FfmpegOut(hd, 256 * s)) = s
  BY <1>1, <1>5, <1>6, SMT DEF DecodeRaw, FfmpegOut, Signed
<1>8. (256 * s) % 16777216 = IF s < 0 THEN 256 * s + 16777216 ELSE 256 * s
  BY <1>1, SMT
<1>9. ((256 * s) % 16777216) \div 256 = IF s < 0 THEN s + 65536 ELSE s
  BY <1>1, <1>8, SMT
<1>10. (IF s < 0 THEN s + 65536 ELSE s) % 65536 = IF s < 0 THEN s + 65536 ELSE s
  BY <1>1, SMT
<1>11. DecodeRaw(hd, FreeaptxOut(hd, 256 * s)) = s
  BY <1>1, <1>9, <1>10, SMT DEF DecodeRaw, FreeaptxOut, Signed
<1> QED
  BY <1>3, <1>4, <1>7, <1>11

(* aptxdec puts right what the libraries hand out, whatever the sign.      *)
LEMMA WrittenRight ==
    ASSUME NEW v \in Sample24, NEW counter, hd \in BOOLEAN,
           backend \in {"ffmpeg", "freeaptx"}, dec_build \in {"sndfile", "raw"}
    PROVE  ToFile(Samples(v, counter))
             = IF dec_build = "sndfile" /\ hd THEN v ELSE v \div 256
<1> DEFINE low == v % 16777216
           high == v \div 256
<1>1. /\ v \in Int /\ v >= -8388608 /\ v <= 8388607
      /\ low = IF v < 0 THEN v + 16777216 ELSE v
      /\ low \div 256 = IF v < 0 THEN high + 65536 ELSE high
      /\ high \in Int /\ high >= -32768 /\ high <= 32767
      /\ v < 0 <=> high < 0
  BY Unsigned24, SMT DEF Sample24
<1>2. /\ Signed(v, 16777216) = v
      /\ Signed(low, 16777216) = v
  <2>1. low % 16777216 = low
    BY <1>1, SMT
  <2> HIDE DEF high
  <2> QED
    BY <1>1, <2>1, SMT DEF Signed
<1>3. /\ Signed(high, 65536) = high
      /\ Signed(low \div 256, 65536) = high
  <2>1. high % 65536 = IF high < 0 THEN high + 65536 ELSE high
    <3> HIDE DEF high
    <3> QED
      BY <1>1, SMT
  <2>2. \A n \in Int : n = (IF high < 0 THEN high + 65536 ELSE high) => n % 65536 = n
    <3> HIDE DEF high
    <3> QED
      BY <1>1, SMT
  <2>3. low \div 256 \in Int
    BY <1>1, SMT
  <2>4. (low \div 256) % 65536 = low \div 256
    <3> HIDE DEF high, low
    <3> QED
      BY <1>1, <2>2, <2>3, SMT
  <2> HIDE DEF high, low
  <2> QED
    BY <1>1, <2>1, <2>4, SMT DEF Signed
<1>4. Samples(v, counter) = IF backend = "ffmpeg" THEN (IF hd THEN v ELSE high)
                            ELSE (IF hd THEN low ELSE low \div 256)
  BY SMT DEF Samples, FfmpegOut, FreeaptxOut
<1>5. ToFile(Samples(v, counter))
        = IF dec_build = "sndfile" /\ hd THEN v ELSE high
  <2> HIDE DEF high, low
  <2>1. CASE dec_build = "raw" /\ hd /\ backend = "ffmpeg"
    <3>1. ToFile(Samples(v, counter)) = Signed(v \div 256, 65536)
      BY <2>1, <1>4, SMT DEF ToFile, DecodeRaw
    <3> QED
      BY <2>1, <3>1, <1>3, SMT DEF high
  <2>2. CASE dec_build = "raw" /\ hd /\ backend = "freeaptx"
    BY <2>2, <1>3, <1>4, SMT DEF ToFile, DecodeRaw
  <2>3. CASE dec_build = "raw" /\ ~hd
    BY <2>3, <1>3, <1>4, SMT DEF ToFile, DecodeRaw
  <2>4. CASE dec_build = "sndfile" /\ hd
    BY <2>4, <1>2, <1>4, SMT DEF ToFile, DecodeSound
  <2>5. CASE dec_build = "sndfile" /\ ~hd
    BY <2>5, <1>3, <1>4, SMT DEF ToFile, DecodeSound
  <2> QED
    BY <2>1, <2>2, <2>3, <2>4, <2>5
<1> QED
  BY <1>5

(* The kinds of library and program, which nothing changes, and with them  *)
(* the property, which is inductive.                                       *)
Kinds ==
    /\ hd \in BOOLEAN
    /\ backend \in {"ffmpeg", "freeaptx", "stub"}
    /\ dec_build \in {"sndfile", "raw"}

LEMMA KindsInvariant == Spec => []Kinds
<1>1. Init => Kinds
  BY DEF Init, LibraryInit, EncInit, DecInit, Kinds
<1>2. Kinds /\ [Next]_vars => Kinds'
  <2> SUFFICES ASSUME Kinds, [Next]_vars PROVE Kinds'
    OBVIOUS
  <2>1. UNCHANGED <<hd, backend, dec_build>>
    <3>1. CASE EncNext
      BY <3>1 DEF EncNext, library, decoder
    <3>2. CASE DecNext
      BY <3>2 DEF DecNext, library, OpenStream, ReadFrame, DecodeFrame,
                  DecodeNothing, WriteSamples
    <3>3. CASE UNCHANGED vars
      BY <3>3 DEF vars, library, decoder
    <3> QED
      BY <3>1, <3>2, <3>3 DEF Next
  <2> QED
    BY <2>1 DEF Kinds
<1> QED
  BY <1>1, <1>2, PTL DEF Spec

(* Whatever the codec decodes, with either library, codec and build, what  *)
(* aptxdec writes has its sign and its upper bits.                         *)
THEOREM SignsSurvive == Spec => []SignSurvives
<1>1. Init => SignSurvives
  BY DEF Init, DecInit, SignSurvives
<1>2. Kinds /\ SignSurvives /\ [Next]_vars => SignSurvives'
  <2> SUFFICES ASSUME Kinds, SignSurvives, [Next]_vars PROVE SignSurvives'
    OBVIOUS
  <2>1. CASE EncNext
    BY <2>1 DEF EncNext, library, decoder, sound, SignSurvives
  <2>2. ASSUME NEW failing, OpenStream(failing), UNCHANGED library
        PROVE  SignSurvives'
    BY <2>2 DEF OpenStream, library, sound, SignSurvives
  <2>3. ASSUME ReadFrame(pipe, EncOver), UNCHANGED library
        PROVE  SignSurvives'
    BY <2>3 DEF ReadFrame, library, sound, SignSurvives
  <2>4. ASSUME NEW to \in Contexts, NEW ok \in BOOLEAN, NEW v \in Decoded,
               DecodeFrame(to, ok, v),
               UNCHANGED library
        PROVE  SignSurvives'
    <3>1. v \in Sample24
      BY DecodedAssumption
    <3>2. /\ value' = v
          /\ written' = ToFile(Samples(v, dec_count))
          /\ UNCHANGED <<hd, backend, dec_build>>
      BY <2>4 DEF DecodeFrame, library
    <3> QED
      BY <3>1, <3>2, WrittenRight DEF Kinds, SignSurvives
  <2>5. ASSUME NEW opens \in BOOLEAN, WriteSamples(opens), UNCHANGED library
        PROVE  SignSurvives'
    BY <2>5 DEF WriteSamples, library, sound, SignSurvives
  <2>6. ASSUME DecodeNothing, UNCHANGED library PROVE SignSurvives'
    BY <2>6 DEF DecodeNothing, library, sound, SignSurvives
  <2>7. CASE UNCHANGED vars
    BY <2>7 DEF vars, library, decoder, sound, SignSurvives
  <2> QED
    BY <2>1, <2>2, <2>3, <2>4, <2>5, <2>6, <2>7 DEF Next, DecNext
<1> QED
  BY <1>1, <1>2, KindsInvariant, PTL DEF Spec

-----------------------------------------------------------------------------
(* Frames                                                                  *)

(* The frames that were read from the files and are not yet written; the   *)
(* last one never is if aptxenc is killed.                                 *)
Pending == IF enc_pc \in {"encode", "write", "killed"} THEN 1 ELSE 0

(* The frames in the pipe, as long as every one was written whole.         *)
Between == taken - Pending - Len(heard)

(* The frame read last is not yet played; it never is if aptxdec crashes.  *)
Open == IF dec_pc \in {"decode", "write", "crashed"} THEN 1 ELSE 0

(* The n-th frame in the pipe is the right one or noise.                   *)
InPlace(n) ==
    \E t \in {Len(heard) + n + 1, Noise} :
      \A k \in 1..FrameBytes : pipe[FrameBytes * n + k] = <<t, k>>

(* The types the argument needs.                                           *)
Counts ==
    /\ enc_pc \in {"open", "loop", "encode", "write", "ended", "killed"}
    /\ dec_pc \in {"open", "loop", "decode", "write", "closed", "failed",
                  "crashed"}
    /\ taken \in Nat
    /\ shorts \in Nat
    /\ enc_count \in Nat
    /\ frame \in Int
    /\ heard \in Seq(Int)
    /\ pipe \in Seq(Int \X Int)
    /\ played \in Nat

(* The inductive invariant.  The pipe holds whole frames, which continue   *)
(* those that were heard, and the one that is being written continues      *)
(* both.                                                                   *)
Whole == shorts = 0 => Between \in Nat /\ Len(pipe) = FrameBytes * Between

Continues ==
    (shorts = 0 /\ backend # "stub") =>
      /\ \A n \in Nat : n < Between => InPlace(n)
      /\ enc_pc = "write" => frame \in {taken, Noise}
      /\ \A k \in DOMAIN heard : heard[k] \in {k, Noise}

(* aptxdec ends after aptxenc, with nothing left in the pipe.              *)
Finished ==
    /\ dec_pc = "closed" => EncOver /\ (shorts = 0 => Between = 0)
    /\ dec_pc # "failed" => played = Len(heard) - Open

(* What remains of a sequence after a prefix has been taken off.           *)
LEMMA Remainder ==
    ASSUME NEW S, NEW s \in Seq(S), NEW m \in Nat, m <= Len(s)
    PROVE  /\ SubSeq(s, m + 1, Len(s)) \in Seq(S)
           /\ Len(SubSeq(s, m + 1, Len(s))) = Len(s) - m
           /\ \A i \in 1..Len(s) - m : SubSeq(s, m + 1, Len(s))[i] = s[m + i]
BY SubSeqProperties, SMT

(* The bytes of one frame as they are written.                             *)
LEMMA FrameIsASequence ==
    ASSUME NEW f \in Int, NEW count \in Nat
    PROVE  /\ [k \in 1..count |-> <<f, k>>] \in Seq(Int \X Int)
           /\ Len([k \in 1..count |-> <<f, k>>]) = count
           /\ \A k \in 1..count : [j \in 1..count |-> <<f, j>>][k] = <<f, k>>
OBVIOUS

LEMMA FrameSize == Kinds => FrameBytes \in {4, 6}
BY DEF Kinds, FrameBytes

(* No step changes what was built and linked.                              *)
LEMMA LibraryStays == [Next]_vars => UNCHANGED <<hd, backend>>
BY DEF Next, EncNext, DecNext, vars, library

(* The types are right.                                                    *)
LEMMA CountsInvariant == Spec => []Counts
<1>1. Init => Counts
  BY SMT DEF Init, EncInit, DecInit, Counts, Noise
<1>2. Kinds /\ Counts /\ [Next]_vars => Counts'
  <2> SUFFICES ASSUME Kinds, Counts, [Next]_vars PROVE Counts'
    OBVIOUS
  <2>0. FrameBytes \in {4, 6}
    BY FrameSize
  <2>1. CASE EncNext
    <3>1. /\ UNCHANGED <<dec_pc, heard, played>>
          /\ dec_pc' \in {"open", "loop", "decode", "write", "closed", "failed",
                         "crashed"}
          /\ heard' \in Seq(Int)
          /\ played' \in Nat
      BY <2>1 DEF EncNext, decoder, Counts
    <3>2. ASSUME NEW failing \in Failures, OpenFile(failing) PROVE Counts'
      BY <3>1, <3>2 DEF OpenFile, NextFile, Counts
    <3>3. ASSUME ReadPcm PROVE Counts'
      BY <3>1, <3>3 DEF ReadPcm, ShortRead, NextFile, Counts
    <3>4. ASSUME NEW ok \in BOOLEAN, EncodeFrame(ok) PROVE Counts'
      <4>1. Start(enc_count) \in Nat /\ AfterEncode(enc_count) \in Nat
        BY <2>0 DEF Counts, Start, AfterEncode
      <4>2. frame' \in Int /\ enc_count' \in Nat
        BY <3>4, <4>1 DEF EncodeFrame, Counts, Noise
      <4> QED
        BY <3>1, <3>4, <4>2 DEF EncodeFrame, input, Counts
    <3>5. ASSUME NEW count \in 0..FrameBytes, WriteFrame(count) PROVE Counts'
      <4>1. count \in Nat
        BY <2>0
      <4>2. pipe' \in Seq(Int \X Int)
        BY <3>5, <4>1, FrameIsASequence, ConcatProperties DEF WriteFrame, Counts
      <4>3. shorts' \in Nat
        BY <3>5 DEF WriteFrame, Counts
      <4> QED
        BY <3>1, <3>5, <4>2, <4>3 DEF WriteFrame, input, Counts
    <3>6. ASSUME Killed PROVE Counts'
      BY <3>1, <3>6 DEF Killed, Counts
    <3>7. ASSUME LeaveLoop PROVE Counts'
      BY <3>1, <3>7 DEF LeaveLoop, NextFile, Counts
    <3> QED
      BY <2>1, <3>2, <3>3, <3>4, <3>5, <3>6, <3>7 DEF EncNext
  <2>2. CASE DecNext
    <3>1. UNCHANGED <<enc_pc, taken, shorts, enc_count, frame>>
      BY <2>2 DEF DecNext, encoder, input
    <3>2. ASSUME NEW failing, OpenStream(failing), UNCHANGED pipe PROVE Counts'
      BY <3>1, <3>2 DEF OpenStream, Counts
    <3>3. ASSUME ReadFrame(pipe, EncOver),
                 pipe' = IF Enough(pipe) THEN SubSeq(pipe, ReadSize + 1, Len(pipe))
                         ELSE <<>>
          PROVE  Counts'
      <4>1. dec_pc' \in {"decode", "closed"} /\ UNCHANGED played
        BY <3>3 DEF ReadFrame
      <4>2. CASE Enough(pipe)
        <5>1. ReadSize \in Nat /\ ReadSize <= Len(pipe) /\ ReadSize > 0
          BY <2>0, <4>2 DEF Enough, ReadSize
        <5>2. pipe' \in Seq(Int \X Int)
          BY <3>3, <4>2, <5>1, Remainder DEF Counts
        <5>3. FrameOf(SubSeq(pipe, 1, ReadSize)) \in Int
          <6>1. SubSeq(pipe, 1, ReadSize)[1] = pipe[1]
            BY <5>1, SubSeqProperties DEF Counts
          <6>2. pipe[1] \in Int \X Int
            BY <5>1 DEF Counts
          <6>3. pipe[1][1] \in Int
            BY <6>2
          <6>4. \A b : FrameOf(b) = b[1][1] \/ FrameOf(b) = Misaligned
            BY Zenon DEF FrameOf
          <6>5. Misaligned \in Int
            BY DEF Misaligned
          <6>6. \/ FrameOf(SubSeq(pipe, 1, ReadSize)) = pipe[1][1]
                \/ FrameOf(SubSeq(pipe, 1, ReadSize)) = Misaligned
            BY <6>1, <6>4, Zenon
          <6> QED
            BY <6>3, <6>5, <6>6, Zenon
        <5>4. heard' \in Seq(Int)
          <6>1. heard' = Append(heard, FrameOf(SubSeq(pipe, 1, ReadSize)))
            BY <3>3, <4>2 DEF ReadFrame
          <6>2. \A f \in Int : Append(heard, f) \in Seq(Int)
            BY DEF Counts
          <6> QED
            BY <5>3, <6>1, <6>2, Zenon
        <5> QED
          BY <3>1, <4>1, <5>2, <5>4 DEF Counts
      <4>3. CASE ~Enough(pipe)
        <5>1. pipe' = <<>> /\ UNCHANGED heard
          BY <3>3, <4>3 DEF ReadFrame
        <5> QED
          BY <3>1, <4>1, <5>1 DEF Counts
      <4> QED
        BY <4>2, <4>3
    <3>4. ASSUME NEW to \in Contexts, NEW ok \in BOOLEAN, NEW v \in Decoded,
                 DecodeFrame(to, ok, v),
                 UNCHANGED pipe
          PROVE  Counts'
      BY <3>1, <3>4 DEF DecodeFrame, Counts
    <3>5. ASSUME NEW opens \in BOOLEAN, WriteSamples(opens), UNCHANGED pipe
          PROVE  Counts'
      BY <3>1, <3>5 DEF WriteSamples, Counts
    <3>6. ASSUME DecodeNothing, UNCHANGED pipe PROVE Counts'
      BY <3>1, <3>6 DEF DecodeNothing, Counts
    <3> QED
      BY <2>2, <3>2, <3>3, <3>4, <3>5, <3>6 DEF DecNext
  <2>3. CASE UNCHANGED vars
    BY <2>3 DEF vars, encoder, decoder, input, Counts
  <2> QED
    BY <2>1, <2>2, <2>3 DEF Next
<1> QED
  BY <1>1, <1>2, KindsInvariant, PTL DEF Spec

(* A step that moves no byte and no frame leaves every frame where it is.  *)
LEMMA NothingMoves ==
    ASSUME Kinds, Counts, Whole, Continues,
           UNCHANGED <<pipe, heard, shorts, hd, backend>>, Between' = Between,
           backend # "stub" /\ enc_pc' = "write" => frame' \in {taken', Noise}
    PROVE  Whole' /\ Continues'
<1>1. FrameBytes' = FrameBytes
  BY DEF FrameBytes
<1>2. Whole'
  BY <1>1 DEF Whole
<1>3. ASSUME shorts = 0, backend # "stub", NEW n \in Nat, n < Between'
      PROVE  InPlace(n)'
  <2>1. InPlace(n)
    BY <1>3 DEF Continues
  <2> QED
    BY <1>1, <2>1 DEF InPlace
<1> QED
  BY <1>2, <1>3 DEF Continues

(* The step that puts a frame into the pipe.                               *)
LEMMA WritingContinues ==
    ASSUME Kinds, Counts, Whole, Continues, NEW count \in 0..FrameBytes,
           WriteFrame(count), UNCHANGED <<heard, hd, backend>>
    PROVE  Whole' /\ Continues'
<1>1. FrameBytes' = FrameBytes /\ FrameBytes \in {4, 6}
  BY FrameSize DEF FrameBytes
<1>2. SUFFICES ASSUME shorts' = 0
               PROVE  /\ Between' \in Nat /\ Len(pipe') = FrameBytes * Between'
                      /\ backend # "stub" =>
                           /\ \A n \in Nat : n < Between' => InPlace(n)'
                           /\ \A k \in DOMAIN heard' : heard'[k] \in {k, Noise}
  <2>1. enc_pc' # "write"
    BY DEF WriteFrame
  <2> QED
    BY <1>1, <1>2, <2>1 DEF Whole, Continues
<1>3. shorts = 0 /\ count = FrameBytes
  BY <1>1, <1>2 DEF WriteFrame, Counts
<1>4. /\ enc_pc = "write" /\ enc_pc' = "loop"
      /\ UNCHANGED <<taken, frame>>
      /\ pipe' = pipe \o [k \in 1..FrameBytes |-> <<frame, k>>]
  BY <1>3 DEF WriteFrame, input
<1>5. Between \in Nat /\ Between' = Between + 1
  <2>1. Len(heard) \in Nat
    BY DEF Counts
  <2>2. Pending = 1 /\ Pending' = 0
    BY <1>4 DEF Pending
  <2> QED
    BY <1>3, <1>4, <2>1, <2>2 DEF Between, Whole, Counts
<1>6. Len(pipe) = FrameBytes * Between
  BY <1>3 DEF Whole
<1>7. /\ Len(pipe') = FrameBytes * Between + FrameBytes
      /\ \A i \in 1..FrameBytes * Between : pipe'[i] = pipe[i]
      /\ \A k \in 1..FrameBytes : pipe'[FrameBytes * Between + k] = <<frame, k>>
  <2> DEFINE f == [k \in 1..FrameBytes |-> <<frame, k>>]
  <2>1. /\ f \in Seq(Int \X Int) /\ Len(f) = FrameBytes
        /\ \A k \in 1..FrameBytes : f[k] = <<frame, k>>
    BY <1>1, FrameIsASequence DEF Counts
  <2>2. pipe \in Seq(Int \X Int) /\ pipe' = pipe \o f
    BY <1>4 DEF Counts
  <2>3. FrameBytes * Between \in Nat /\ FrameBytes \in Nat
    BY <1>1, <1>5
  <2> HIDE DEF f
  <2>4. \A i \in 1..Len(pipe) + Len(f) :
          pipe'[i] = IF i <= Len(pipe) THEN pipe[i] ELSE f[i - Len(pipe)]
    BY <2>1, <2>2, ConcatProperties
  <2>5. Len(pipe') = Len(pipe) + Len(f)
    BY <2>1, <2>2, ConcatProperties
  <2> DEFINE N == FrameBytes * Between
             B == FrameBytes
  <2>6. N \in Nat /\ B \in Nat /\ Len(pipe) = N /\ Len(f) = B
    BY <1>6, <2>1, <2>3
  <2> HIDE DEF N, B
  <2>7. \A i \in 1..N : pipe'[i] = pipe[i]
    BY <2>4, <2>6
  <2>8. \A k \in 1..B : pipe'[N + k] = f[k]
    <3> SUFFICES ASSUME NEW k \in 1..B PROVE pipe'[N + k] = f[k]
      OBVIOUS
    <3>1. N + k \in 1..N + B /\ ~(N + k <= N) /\ N + k - N = k
      BY <2>6
    <3> QED
      BY <2>4, <2>6, <3>1
  <2> QED
    BY <2>1, <2>5, <2>6, <2>7, <2>8 DEF N, B
<1>8. Len(pipe') = FrameBytes * Between'
  BY <1>1, <1>5, <1>7
<1>9. ASSUME backend # "stub", NEW n \in Nat, n < Between'
      PROVE  InPlace(n)'
  <2>1. CASE n < Between
    <3>1. PICK t \in {Len(heard) + n + 1, Noise} :
            \A k \in 1..FrameBytes : pipe[FrameBytes * n + k] = <<t, k>>
      BY <1>3, <1>9, <2>1 DEF Continues, InPlace
    <3>2. \A k \in 1..FrameBytes : FrameBytes * n + k \in 1..FrameBytes * Between
      BY <1>1, <1>5, <2>1
    <3>3. \A k \in 1..FrameBytes : pipe'[FrameBytes * n + k] = <<t, k>>
      BY <1>7, <3>1, <3>2
    <3> QED
      BY <1>1, <3>3 DEF InPlace
  <2>2. CASE n = Between
    <3>1. frame \in {taken, Noise}
      BY <1>3, <1>4, <1>9 DEF Continues
    <3>2. Len(heard) + n + 1 = taken
      <4>1. Len(heard) \in Nat
        BY DEF Counts
      <4>2. Pending = 1
        BY <1>4 DEF Pending
      <4> QED
        BY <2>2, <4>1, <4>2 DEF Between, Counts
    <3> QED
      BY <1>1, <1>7, <2>2, <3>1, <3>2 DEF InPlace
  <2> QED
    BY <1>5, <1>9, <2>1, <2>2
<1> QED
  BY <1>3, <1>5, <1>8, <1>9 DEF Continues

(* The step that takes a frame out of the pipe, or finds it empty and over.*)
LEMMA ReadingContinues ==
    ASSUME Kinds, Counts, Whole, Continues, ReadFrame(pipe, EncOver),
           pipe' = IF Enough(pipe) THEN SubSeq(pipe, ReadSize + 1, Len(pipe))
                   ELSE <<>>,
           UNCHANGED <<enc_pc, taken, shorts, frame, hd, backend>>
    PROVE  /\ Whole' /\ Continues'
           /\ Enough(pipe) => Len(heard') = Len(heard) + 1 /\ dec_pc' = "decode"
           /\ ~Enough(pipe) => /\ heard' = heard /\ dec_pc' = "closed" /\ EncOver
                               /\ shorts = 0 => Between' = 0
<1>1. FrameBytes' = FrameBytes /\ FrameBytes \in {4, 6} /\ ReadSize = FrameBytes
  BY FrameSize DEF FrameBytes, ReadSize
<1>2. Len(heard) \in Nat /\ Pending \in {0, 1} /\ Pending' = Pending
  BY DEF Counts, Pending
<1>3. CASE ~Enough(pipe)
  <2>1. heard' = heard /\ dec_pc' = "closed" /\ EncOver /\ pipe' = <<>>
    BY <1>3 DEF ReadFrame
  <2>2. Between' = Between
    BY <1>2, <2>1 DEF Between
  <2>3. shorts = 0 => Between = 0
    <3>1. Len(pipe) < FrameBytes
      BY <1>1, <1>3 DEF Enough, Counts
    <3> QED
      BY <1>1, <3>1 DEF Whole
  <2>4. Whole'
    BY <1>1, <2>1, <2>2, <2>3 DEF Whole
  <2>5. Continues'
    BY <2>1, <2>2, <2>3 DEF Continues
  <2> QED
    BY <1>3, <2>1, <2>2, <2>3, <2>4, <2>5
<1>4. CASE Enough(pipe)
  <2> DEFINE bytes == SubSeq(pipe, 1, ReadSize)
  <2>1. heard' = Append(heard, FrameOf(bytes)) /\ dec_pc' = "decode"
    BY <1>4 DEF ReadFrame
  <2>2. Len(heard') = Len(heard) + 1
    BY <2>1 DEF Counts
  <2>3. Between \in Int /\ Between' = Between - 1
    BY <1>2, <2>2 DEF Between, Counts
  <2>4. FrameBytes <= Len(pipe)
    BY <1>1, <1>4 DEF Enough
  <2>5. SUFFICES ASSUME shorts = 0
                 PROVE  /\ Between' \in Nat /\ Len(pipe') = FrameBytes * Between'
                        /\ backend # "stub" =>
                             /\ \A n \in Nat : n < Between' => InPlace(n)'
                             /\ \A k \in DOMAIN heard' : heard'[k] \in {k, Noise}
    <3>1. enc_pc' = "write" => enc_pc = "write"
      OBVIOUS
    <3> QED
      BY <1>1, <1>4, <2>1, <2>2, <2>5, <3>1 DEF Whole, Continues
  <2>6. Between \in Nat /\ Between > 0 /\ Len(pipe) = FrameBytes * Between
    BY <1>1, <2>3, <2>4, <2>5 DEF Whole
  <2>7. /\ Len(pipe') = Len(pipe) - FrameBytes
        /\ \A i \in 1..Len(pipe) - FrameBytes : pipe'[i] = pipe[FrameBytes + i]
    <3>1. pipe' = SubSeq(pipe, FrameBytes + 1, Len(pipe))
      BY <1>1, <1>4
    <3>2. FrameBytes \in Nat /\ pipe \in Seq(Int \X Int)
      BY <1>1 DEF Counts
    <3>3. /\ Len(SubSeq(pipe, FrameBytes + 1, Len(pipe))) = Len(pipe) - FrameBytes
          /\ \A i \in 1..Len(pipe) - FrameBytes :
               SubSeq(pipe, FrameBytes + 1, Len(pipe))[i] = pipe[FrameBytes + i]
      BY <2>4, <3>2, Remainder
    <3> QED
      BY <3>1, <3>3, Zenon
  <2>8. Between' \in Nat /\ Len(pipe') = FrameBytes * Between'
    BY <1>1, <2>3, <2>6, <2>7
  <2>9. ASSUME backend # "stub", NEW n \in Nat, n < Between'
        PROVE  InPlace(n)'
    <3>1. n + 1 \in Nat /\ n + 1 < Between /\ Len(heard) + (n + 1) + 1 = Len(heard') + n + 1
      BY <1>2, <2>2, <2>3, <2>9
    <3>2. InPlace(n + 1)
      BY <2>5, <2>9, <3>1 DEF Continues
    <3>3. PICK t \in {Len(heard') + n + 1, Noise} :
            \A k \in 1..FrameBytes : pipe[FrameBytes * (n + 1) + k] = <<t, k>>
      BY <3>1, <3>2 DEF InPlace
    <3>4. \A k \in 1..FrameBytes :
            /\ FrameBytes * n + k \in 1..Len(pipe) - FrameBytes
            /\ FrameBytes + (FrameBytes * n + k) = FrameBytes * (n + 1) + k
      BY <1>1, <2>6, <3>1
    <3>5. \A k \in 1..FrameBytes : pipe'[FrameBytes * n + k] = <<t, k>>
      BY <2>7, <3>3, <3>4
    <3> QED
      BY <1>1, <3>3, <3>5 DEF InPlace
  <2>10. ASSUME backend # "stub" PROVE FrameOf(bytes) \in {Len(heard) + 1, Noise}
    <3>1. InPlace(0)
      BY <2>5, <2>6, <2>10 DEF Continues
    <3>2. PICK t \in {Len(heard) + 1, Noise} :
            \A k \in 1..FrameBytes : pipe[k] = <<t, k>>
      <4>1. Len(heard) + 0 + 1 = Len(heard) + 1
        BY <1>2
      <4>2. \A k \in 1..FrameBytes : FrameBytes * 0 + k = k
        BY <1>1
      <4> QED
        BY <3>1, <4>1, <4>2 DEF InPlace
    <3>3. DOMAIN bytes = 1..FrameBytes /\ \A k \in 1..FrameBytes : bytes[k] = pipe[k]
      <4>1. \A i \in 1..ReadSize : pipe[i] \in Int \X Int
        BY <1>1, <2>4 DEF Counts
      <4>2. 1 \in Int /\ ReadSize \in Int /\ 1 <= ReadSize /\ ReadSize - 1 + 1 = ReadSize
        BY <1>1
      <4>3. /\ bytes \in Seq(Int \X Int)
            /\ Len(bytes) = ReadSize
            /\ \A i \in 1..ReadSize : bytes[i] = pipe[1 + i - 1]
        BY <4>1, <4>2, SubSeqProperties
      <4>4. \A i \in 1..ReadSize : 1 + i - 1 = i
        BY <1>1
      <4>5. DOMAIN bytes = 1..ReadSize
        BY <4>3
      <4> QED
        BY <1>1, <4>3, <4>4, <4>5
    <3> HIDE DEF bytes
    <3>4. \A k \in 1..FrameBytes : bytes[k] = <<t, k>>
      BY <3>2, <3>3
    <3>5. 1 \in 1..FrameBytes
      BY <1>1
    <3>6. bytes[1][1] = t
      BY <3>4, <3>5
    <3>7. \A k \in DOMAIN bytes : bytes[k] = <<bytes[1][1], k>>
      BY <3>3, <3>4, <3>6
    <3>8. FrameOf(bytes) = t
      BY <3>6, <3>7 DEF FrameOf
    <3> QED
      BY <3>2, <3>8
  <2>11. ASSUME backend # "stub", NEW k \in DOMAIN heard'
         PROVE  heard'[k] \in {k, Noise}
    <3> HIDE DEF bytes
    <3>1. FrameOf(bytes) \in Int
      BY <1>2, <2>10, <2>11 DEF Noise
    <3>2. CASE k \in DOMAIN heard
      <4>1. heard'[k] = heard[k]
        BY <2>1, <3>1, <3>2 DEF Counts
      <4> QED
        BY <2>5, <2>11, <3>2, <4>1 DEF Continues
    <3>3. CASE k = Len(heard) + 1
      <4>1. heard'[k] = FrameOf(bytes)
        BY <2>1, <3>1, <3>3 DEF Counts
      <4> QED
        BY <2>10, <2>11, <3>3, <4>1
    <3>4. k \in DOMAIN heard \/ k = Len(heard) + 1
      <4>1. heard \in Seq(Int)
        BY DEF Counts
      <4>2. heard' = Append(heard, FrameOf(bytes))
        BY <2>1
      <4>3. Len(heard') = Len(heard) + 1 /\ DOMAIN heard' = 1..Len(heard')
        BY <3>1, <4>1, <4>2
      <4>4. k \in 1..(Len(heard) + 1)
        BY <2>11, <4>3
      <4> QED
        BY <4>1, <4>4
    <3> QED
      BY <3>2, <3>3, <3>4
  <2> QED
    BY <1>1, <2>8, <2>9, <2>11
<1> QED
  BY <1>3, <1>4

(* The steps of aptxenc.  All but the write leave the number of frames     *)
(* between as it is.                                                       *)
LEMMA EncodingContinues ==
    ASSUME Kinds, Counts, Whole, Continues, Finished, EncNext
    PROVE  Whole' /\ Continues' /\ Finished'
<1>1. /\ UNCHANGED <<dec_pc, heard, played, hd, backend>>
      /\ Len(heard) \in Nat
  BY DEF EncNext, decoder, library, Counts
<1>2. ASSUME NEW count \in 0..FrameBytes, WriteFrame(count)
      PROVE  Whole' /\ Continues' /\ Finished'
  <2>1. Whole' /\ Continues'
    BY <1>1, <1>2, WritingContinues
  <2>2. dec_pc # "closed"
    BY <1>2 DEF WriteFrame, EncOver, Finished
  <2> QED
    BY <1>1, <2>1, <2>2 DEF Finished, Open
<1>3. ASSUME Between' = Between, UNCHANGED <<pipe, shorts>>,
             backend # "stub" /\ enc_pc' = "write" => frame' \in {taken', Noise},
             EncOver => EncOver'
      PROVE  Whole' /\ Continues' /\ Finished'
  <2>1. Whole' /\ Continues'
    BY <1>1, <1>3, NothingMoves
  <2>2. Open' = Open
    BY <1>1 DEF Open
  <2>3. Finished'
    BY <1>1, <1>3, <2>2 DEF Finished
  <2> QED
    BY <2>1, <2>3
<1>4. ASSUME NEW failing \in Failures, OpenFile(failing)
      PROVE  Whole' /\ Continues' /\ Finished'
  <2>1. /\ enc_pc = "open" /\ enc_pc' \in {"open", "loop", "ended"}
        /\ UNCHANGED <<taken, pipe, shorts>>
    BY <1>4 DEF OpenFile, NextFile
  <2>2. Between' = Between
    BY <1>1, <2>1 DEF Between, Pending
  <2> QED
    BY <1>3, <2>1, <2>2 DEF EncOver
<1>5. ASSUME ReadPcm PROVE Whole' /\ Continues' /\ Finished'
  <2>1. /\ enc_pc = "loop" /\ UNCHANGED <<pipe, shorts>>
        /\ \/ enc_pc' = "encode" /\ taken' = taken + 1
           \/ enc_pc' \in {"open", "loop", "ended"} /\ taken' = taken
    BY <1>5 DEF ReadPcm, ShortRead, NextFile
  <2>2. Between' = Between
    BY <1>1, <2>1 DEF Between, Pending, Counts
  <2> QED
    BY <1>3, <2>1, <2>2 DEF EncOver
<1>6. ASSUME NEW ok \in BOOLEAN, EncodeFrame(ok)
      PROVE  Whole' /\ Continues' /\ Finished'
  <2>1. /\ enc_pc = "encode" /\ enc_pc' = "write"
        /\ UNCHANGED <<taken, pipe, shorts>>
        /\ backend # "stub" => frame' \in {taken', Noise}
    BY <1>6 DEF EncodeFrame, input
  <2>2. Between' = Between
    BY <1>1, <2>1 DEF Between, Pending
  <2> QED
    BY <1>3, <2>1, <2>2 DEF EncOver
<1>7. ASSUME Killed PROVE Whole' /\ Continues' /\ Finished'
  <2>1. /\ enc_pc = "write" /\ enc_pc' = "killed"
        /\ UNCHANGED <<taken, pipe, shorts>>
    BY <1>7 DEF Killed
  <2>2. Between' = Between
    BY <1>1, <2>1 DEF Between, Pending
  <2> QED
    BY <1>3, <2>1, <2>2 DEF EncOver
<1>8. ASSUME LeaveLoop PROVE Whole' /\ Continues' /\ Finished'
  <2>1. /\ enc_pc = "loop" /\ enc_pc' \in {"open", "ended"}
        /\ UNCHANGED <<taken, pipe, shorts>>
    BY <1>8 DEF LeaveLoop, NextFile
  <2>2. Between' = Between
    BY <1>1, <2>1 DEF Between, Pending
  <2> QED
    BY <1>3, <2>1, <2>2 DEF EncOver
<1> QED
  BY <1>2, <1>4, <1>5, <1>6, <1>7, <1>8 DEF EncNext

(* The steps of aptxdec.  All but the read leave the pipe alone.           *)
LEMMA DecodingContinues ==
    ASSUME Kinds, Counts, Whole, Continues, Finished, DecNext
    PROVE  Whole' /\ Continues' /\ Finished'
<1>1. /\ UNCHANGED <<enc_pc, taken, shorts, frame, hd, backend>>
      /\ Len(heard) \in Nat /\ EncOver' = EncOver /\ Pending' = Pending
  BY DEF DecNext, encoder, input, library, Counts, EncOver, Pending
<1>2. ASSUME UNCHANGED <<pipe, heard>>, dec_pc' # "closed",
             dec_pc' # "failed" => played' = Len(heard) - Open'
      PROVE  Whole' /\ Continues' /\ Finished'
  <2>1. Between' = Between
    BY <1>1, <1>2 DEF Between
  <2>2. backend # "stub" /\ enc_pc' = "write" /\ shorts = 0 => frame' \in {taken', Noise}
    BY <1>1 DEF Continues
  <2>3. Whole' /\ Continues'
    <3>1. CASE shorts = 0
      BY <1>1, <1>2, <2>1, <2>2, <3>1, NothingMoves
    <3>2. CASE shorts # 0
      BY <1>1, <3>2 DEF Whole, Continues
    <3> QED
      BY <3>1, <3>2
  <2> QED
    BY <1>2, <2>3 DEF Finished
<1>3. ASSUME NEW failing, OpenStream(failing), UNCHANGED pipe
      PROVE  Whole' /\ Continues' /\ Finished'
  <2>1. /\ dec_pc = "open" /\ dec_pc' \in {"loop", "failed"}
        /\ UNCHANGED <<heard, played>>
    BY <1>3 DEF OpenStream
  <2> QED
    BY <1>2, <1>3, <2>1 DEF Finished, Open
<1>4. ASSUME ReadFrame(pipe, EncOver),
             pipe' = IF Enough(pipe) THEN SubSeq(pipe, ReadSize + 1, Len(pipe))
                     ELSE <<>>
      PROVE  Whole' /\ Continues' /\ Finished'
  <2>1. dec_pc = "loop" /\ UNCHANGED played
    BY <1>4 DEF ReadFrame
  <2>2. /\ Whole' /\ Continues'
        /\ Enough(pipe) => Len(heard') = Len(heard) + 1 /\ dec_pc' = "decode"
        /\ ~Enough(pipe) => /\ heard' = heard /\ dec_pc' = "closed" /\ EncOver
                            /\ shorts = 0 => Between' = 0
    BY <1>1, <1>4, ReadingContinues
  <2>3. played = Len(heard)
    BY <1>1, <2>1 DEF Finished, Open
  <2>4. CASE Enough(pipe)
    BY <1>1, <2>1, <2>2, <2>3, <2>4 DEF Finished, Open
  <2>5. CASE ~Enough(pipe)
    BY <1>1, <2>1, <2>2, <2>3, <2>5 DEF Finished, Open
  <2> QED
    BY <2>4, <2>5
<1>5. ASSUME NEW to \in Contexts, NEW ok \in BOOLEAN, NEW v \in Decoded,
             DecodeFrame(to, ok, v),
             UNCHANGED pipe
      PROVE  Whole' /\ Continues' /\ Finished'
  <2>1. /\ dec_pc = "decode" /\ dec_pc' = "write"
        /\ UNCHANGED <<heard, played>>
    BY <1>5 DEF DecodeFrame
  <2> QED
    BY <1>2, <1>5, <2>1 DEF Finished, Open
<1>6. ASSUME NEW opens \in BOOLEAN, WriteSamples(opens), UNCHANGED pipe
      PROVE  Whole' /\ Continues' /\ Finished'
  <2>1. /\ dec_pc = "write" /\ UNCHANGED heard
        /\ \/ dec_pc' = "failed"
           \/ dec_pc' = "loop" /\ played' = played + 1
    BY <1>6 DEF WriteSamples
  <2>2. played = Len(heard) - 1
    BY <2>1 DEF Finished, Open
  <2> QED
    BY <1>1, <1>2, <1>6, <2>1, <2>2 DEF Open
<1>7. ASSUME DecodeNothing, UNCHANGED pipe
      PROVE  Whole' /\ Continues' /\ Finished'
  <2>1. /\ dec_pc = "decode" /\ dec_pc' = "crashed"
        /\ UNCHANGED <<heard, played>>
    BY <1>7 DEF DecodeNothing
  <2> QED
    BY <1>2, <1>7, <2>1 DEF Finished, Open
<1> QED
  BY <1>3, <1>4, <1>5, <1>6, <1>7 DEF DecNext

(* The inductive invariant holds of every behaviour.                       *)
LEMMA FramesInvariant == Spec => [](Kinds /\ Counts /\ Whole /\ Continues /\ Finished)
<1>1. Init => Whole /\ Continues /\ Finished
  <2> SUFFICES ASSUME Init PROVE Whole /\ Continues /\ Finished
    OBVIOUS
  <2>1. /\ pipe = <<>> /\ heard = <<>> /\ taken = 0 /\ played = 0
        /\ enc_pc = "open" /\ dec_pc = "open" /\ hd \in BOOLEAN
    BY DEF Init, LibraryInit, EncInit, DecInit
  <2>2. Between = 0 /\ FrameBytes \in {4, 6} /\ Open = 0
    <3>1. Pending = 0 /\ Open = 0
      BY <2>1 DEF Pending, Open
    <3>2. FrameBytes \in {4, 6}
      BY <2>1 DEF FrameBytes
    <3>3. Len(heard) = 0
      BY <2>1
    <3>4. taken = 0
      BY <2>1
    <3>5. Between = 0
      BY <3>1, <3>3, <3>4 DEF Between
    <3> QED
      BY <3>1, <3>2, <3>5
  <2> QED
    BY <2>1, <2>2 DEF Whole, Continues, Finished
<1>2. Kinds /\ Counts /\ Whole /\ Continues /\ Finished /\ [Next]_vars
        => Whole' /\ Continues' /\ Finished'
  <2> SUFFICES ASSUME Kinds, Counts, Whole, Continues, Finished, [Next]_vars
               PROVE  Whole' /\ Continues' /\ Finished'
    OBVIOUS
  <2>1. CASE UNCHANGED vars
    <3>1. /\ UNCHANGED <<pipe, heard, shorts, hd, backend>>
          /\ UNCHANGED <<enc_pc, dec_pc, taken, frame, played>>
      BY <2>1 DEF vars, library, encoder, input, decoder
    <3>2. Between' = Between /\ FrameBytes' = FrameBytes
      BY <3>1 DEF Between, Pending, FrameBytes
    <3>3. Whole' /\ Finished'
      BY <3>1, <3>2 DEF Whole, Finished, EncOver, Open
    <3>4. \A n : InPlace(n)' = InPlace(n)
      BY <3>1, <3>2 DEF InPlace
    <3> QED
      BY <3>1, <3>2, <3>3, <3>4 DEF Continues
  <2> QED
    BY <2>1, EncodingContinues, DecodingContinues DEF Next
<1> QED
  BY <1>1, <1>2, KindsInvariant, CountsInvariant, PTL DEF Spec

(* For any files, capacity of the pipe and interleaving, and however many  *)
(* calls of the library fail, the k-th frame that is heard is the k-th     *)
(* that was read, or noise in its place, as long as no write is short.     *)
THEOREM FramesStayInPlace == Spec => []FramesKeepTheirPlace
<1>1. Continues => FramesKeepTheirPlace
  BY DEF Continues, FramesKeepTheirPlace
<1> QED
  BY <1>1, FramesInvariant, PTL

(* The inductive invariant of the context: only libavcodec ever leaves     *)
(* none, in a call that failed, of a frame that was read and is played     *)
(* before the next one is.                                                 *)
ContextLost ==
    /\ context \in Contexts
    /\ dec_pc = "crashed" => context = "null"
    /\ (context = "null" /\ dec_pc \notin {"open", "failed"}) =>
         /\ backend = "ffmpeg" /\ ~decoded
         /\ Len(heard) >= 1
         /\ dec_pc \in {"decode", "crashed"} => Len(heard) >= 2

LEMMA ContextInvariant == Spec => []ContextLost
<1>1. Init => ContextLost
  BY DEF Init, DecInit, Contexts, ContextLost
<1>2. Counts /\ Finished /\ ContextLost /\ [Next]_vars => ContextLost'
  <2> SUFFICES ASSUME Counts, Finished, ContextLost, [Next]_vars PROVE ContextLost'
    OBVIOUS
  <2>0. backend' = backend /\ Len(heard) \in Nat
    BY LibraryStays DEF Counts
  <2>1. CASE EncNext
    BY <2>1 DEF EncNext, library, decoder, sound, ContextLost
  <2>2. ASSUME NEW failing, OpenStream(failing) PROVE ContextLost'
    <3>1. \/ dec_pc' = "loop" /\ context' = "open"
          \/ dec_pc' = "failed" /\ context' = context
      BY <2>2 DEF OpenStream
    <3> QED
      BY <3>1 DEF Contexts, ContextLost
  <2>3. ASSUME ReadFrame(pipe, EncOver) PROVE ContextLost'
    <3>1. dec_pc = "loop" /\ UNCHANGED <<context, decoded>>
      BY <2>3 DEF ReadFrame, sound
    <3>2. \/ dec_pc' = "decode" /\ Len(heard') = Len(heard) + 1
          \/ dec_pc' = "closed" /\ heard' = heard
      <4>1. CASE Enough(pipe)
        <5>1. heard' = Append(heard, FrameOf(SubSeq(pipe, 1, ReadSize)))
          BY <2>3, <4>1 DEF ReadFrame
        <5>2. Len(heard') = Len(heard) + 1
          BY <5>1 DEF Counts
        <5> QED
          BY <2>3, <4>1, <5>2 DEF ReadFrame
      <4>2. CASE ~Enough(pipe)
        BY <2>3, <4>2 DEF ReadFrame
      <4> QED
        BY <4>1, <4>2
    <3> QED
      BY <2>0, <3>1, <3>2 DEF ContextLost
  <2>4. ASSUME NEW to \in Contexts, NEW ok \in BOOLEAN, NEW v \in Decoded,
               DecodeFrame(to, ok, v)
        PROVE  ContextLost'
    <3>1. /\ dec_pc = "decode" /\ dec_pc' = "write"
          /\ context # "null" /\ context' = to /\ decoded' = ok
          /\ to = context \/ backend = "ffmpeg"
          /\ ok => to = "open"
          /\ heard' = heard
      BY <2>4 DEF DecodeFrame
    <3>2. Len(heard) >= 1
      <4>1. played \in Nat /\ played = Len(heard) - 1
        BY <3>1 DEF Counts, Finished, Open
      <4> QED
        BY <2>0, <4>1
    <3> QED
      BY <2>0, <3>1, <3>2 DEF ContextLost
  <2>5. ASSUME DecodeNothing PROVE ContextLost'
    <3>1. /\ dec_pc = "decode" /\ context = "null" /\ dec_pc' = "crashed"
          /\ UNCHANGED <<context, heard, decoded>>
      BY <2>5 DEF DecodeNothing, sound
    <3> QED
      BY <2>0, <3>1 DEF ContextLost
  <2>6. ASSUME NEW opens \in BOOLEAN, WriteSamples(opens) PROVE ContextLost'
    <3>1. /\ dec_pc = "write" /\ dec_pc' \in {"failed", "loop"}
          /\ UNCHANGED <<context, heard, decoded>>
      BY <2>6 DEF WriteSamples, sound
    <3> QED
      BY <2>0, <3>1 DEF ContextLost
  <2>7. CASE UNCHANGED vars
    BY <2>7 DEF vars, library, decoder, sound, ContextLost
  <2> QED
    BY <2>1, <2>2, <2>3, <2>4, <2>5, <2>6, <2>7 DEF Next, DecNext
<1> QED
  BY <1>1, <1>2, CountsInvariant, FramesInvariant, PTL DEF Spec

(* Under the same condition everything that was read is heard and played;  *)
(* and if aptxdec crashes, which it does with libavcodec only and directly *)
(* after a decode call that failed, so is everything but the last frame it *)
(* read, at least one.                                                     *)
THEOREM NoFrameIsLost == Spec => []NothingLost
<1>1. ASSUME Counts, Finished, enc_pc = "ended", dec_pc = "closed", shorts = 0
      PROVE  Len(heard) = taken /\ played = taken
  <2>1. Len(heard) \in Nat /\ taken \in Nat
    BY <1>1 DEF Counts
  <2>2. Between = 0 /\ played = Len(heard) - Open
    BY <1>1 DEF Finished
  <2>3. Open = 0 /\ Pending = 0
    BY <1>1 DEF Open, Pending
  <2> QED
    BY <2>1, <2>2, <2>3 DEF Between
<1>2. ASSUME Counts, Finished, ContextLost, dec_pc = "crashed"
      PROVE  /\ backend = "ffmpeg" /\ ~decoded
             /\ played >= 1 /\ played = Len(heard) - 1
  <2>1. backend = "ffmpeg" /\ ~decoded /\ Len(heard) >= 2
    BY <1>2 DEF ContextLost
  <2>2. played = Len(heard) - 1 /\ Len(heard) \in Nat
    BY <1>2 DEF Finished, Open, Counts
  <2> QED
    BY <2>1, <2>2
<1>3. Counts /\ Finished /\ ContextLost => NothingLost
  BY <1>1, <1>2 DEF NothingLost
<1> QED
  BY <1>3, ContextInvariant, FramesInvariant, PTL

-----------------------------------------------------------------------------
(* The recording of the stub                                               *)

(* A frame that lies in the recording, at a boundary.                      *)
Recorded(f) == f \in Nat /\ f % FrameBytes = 0 /\ f + FrameBytes <= StreamLength

(* The inductive invariant: the counter, the frame that is being written,  *)
(* the bytes in the pipe and the frames that were heard.                   *)
FromRecording ==
    backend = "stub" =>
      /\ enc_count % FrameBytes = 0
      /\ enc_pc = "write" => Recorded(frame)
      /\ \A i \in DOMAIN pipe : Recorded(pipe[i][1])
      /\ \A k \in DOMAIN heard : heard[k] # Misaligned => Recorded(heard[k])

(* A frame starts in the recording, and so does the one after it.          *)
LEMMA StartsInRecording ==
    ASSUME Kinds, enc_count \in Nat, enc_count % FrameBytes = 0
    PROVE  /\ Recorded(Start(enc_count))
           /\ AfterEncode(enc_count) % FrameBytes = 0
<1> USE StreamLengthAssumption
<1>1. CASE FrameBytes = 4
  BY <1>1 DEF Recorded, Start, AfterEncode
<1>2. CASE FrameBytes = 6
  BY <1>2 DEF Recorded, Start, AfterEncode
<1> QED
  BY <1>1, <1>2, FrameSize

(* What happens between the stub and the other program stays there.        *)
LEMMA RecordingInvariant == Spec => []FromRecording
<1>1. Init => FromRecording
  <2> SUFFICES ASSUME Init PROVE FromRecording
    OBVIOUS
  <2>1. /\ enc_count = 0 /\ enc_pc = "open" /\ pipe = <<>> /\ heard = <<>>
        /\ hd \in BOOLEAN
    BY DEF Init, LibraryInit, EncInit, DecInit
  <2>2. 0 % FrameBytes = 0
    BY <2>1 DEF FrameBytes
  <2> QED
    BY <2>1, <2>2 DEF FromRecording
<1>2. Kinds /\ Counts /\ FromRecording /\ [Next]_vars => FromRecording'
  <2> SUFFICES ASSUME Kinds, Counts, FromRecording, [Next]_vars, backend' = "stub"
               PROVE  FromRecording'
    BY DEF FromRecording
  <2>1. backend = "stub" /\ FrameBytes' = FrameBytes /\ FrameBytes \in {4, 6}
    BY LibraryStays, FrameSize DEF FrameBytes
  <2>2. /\ enc_count % FrameBytes = 0
        /\ enc_pc = "write" => Recorded(frame)
        /\ \A i \in DOMAIN pipe : Recorded(pipe[i][1])
        /\ \A k \in DOMAIN heard : heard[k] # Misaligned => Recorded(heard[k])
    BY <2>1 DEF FromRecording
  <2>3. ASSUME enc_count' % FrameBytes = 0,
               enc_pc' = "write" => Recorded(frame'),
               \A i \in DOMAIN pipe' : Recorded(pipe'[i][1]),
               \A k \in DOMAIN heard' :
                 heard'[k] # Misaligned => Recorded(heard'[k])
        PROVE  FromRecording'
    BY <2>1, <2>3 DEF FromRecording, Recorded
  <2>4. CASE EncNext
    <3>1. UNCHANGED heard
      BY <2>4 DEF EncNext, decoder
    <3>2. ASSUME NEW failing \in Failures, OpenFile(failing) PROVE FromRecording'
      <4>1. /\ enc_count' \in {0, enc_count} /\ enc_pc' # "write"
            /\ UNCHANGED pipe
        BY <3>2 DEF OpenFile, NextFile
      <4>2. 0 % FrameBytes = 0
        BY <2>1
      <4> QED
        BY <2>2, <2>3, <3>1, <4>1, <4>2
    <3>3. ASSUME ReadPcm \/ Killed \/ LeaveLoop PROVE FromRecording'
      <4>1. enc_pc' # "write" /\ UNCHANGED <<pipe, enc_count>>
        BY <3>3 DEF ReadPcm, ShortRead, NextFile, Killed, LeaveLoop
      <4> QED
        BY <2>2, <2>3, <3>1, <4>1
    <3>4. ASSUME NEW ok \in BOOLEAN, EncodeFrame(ok) PROVE FromRecording'
      <4>1. /\ frame' = Start(enc_count) /\ enc_count' = AfterEncode(enc_count)
            /\ UNCHANGED pipe
        BY <2>1, <3>4 DEF EncodeFrame
      <4>2. enc_count \in Nat
        BY DEF Counts
      <4> QED
        BY <2>2, <2>3, <3>1, <4>1, <4>2, StartsInRecording
    <3>5. ASSUME NEW count \in 0..FrameBytes, WriteFrame(count)
          PROVE  FromRecording'
      <4> DEFINE f == [k \in 1..count |-> <<frame, k>>]
      <4>1. /\ enc_pc = "write" /\ enc_pc' # "write"
            /\ UNCHANGED enc_count /\ pipe' = pipe \o f
        BY <3>5 DEF WriteFrame
      <4>2. count \in Nat
        BY <2>1
      <4>3. /\ f \in Seq(Int \X Int) /\ Len(f) = count
            /\ \A k \in 1..count : f[k] = <<frame, k>>
            /\ pipe \in Seq(Int \X Int)
        BY <4>2, FrameIsASequence DEF Counts
      <4> HIDE DEF f
      <4>4. /\ Len(pipe') = Len(pipe) + Len(f)
            /\ pipe' \in Seq(Int \X Int)
            /\ \A i \in 1..Len(pipe) + Len(f) :
                 pipe'[i] = IF i <= Len(pipe) THEN pipe[i] ELSE f[i - Len(pipe)]
        BY <4>1, <4>3, ConcatProperties
      <4>5. ASSUME NEW i \in DOMAIN pipe' PROVE Recorded(pipe'[i][1])
        <5>1. i \in 1..Len(pipe) + Len(f)
          BY <4>4, <4>5
        <5>2. CASE i <= Len(pipe)
          <6>1. pipe'[i] = pipe[i]
            BY <4>4, <5>1, <5>2
          <6>2. Len(pipe) \in Nat /\ DOMAIN pipe = 1..Len(pipe)
            BY <4>3
          <6>3. i \in DOMAIN pipe
            BY <4>2, <4>3, <5>1, <5>2, <6>2
          <6> QED
            BY <2>2, <6>1, <6>3
        <5>3. CASE i > Len(pipe)
          <6>1. i - Len(pipe) \in 1..count /\ pipe'[i] = f[i - Len(pipe)]
            BY <4>2, <4>3, <4>4, <5>1, <5>3
          <6>2. pipe'[i][1] = frame
            BY <4>3, <6>1
          <6> QED
            BY <2>2, <4>1, <6>2
        <5> QED
          BY <4>3, <5>1, <5>2, <5>3
      <4> QED
        BY <2>2, <2>3, <3>1, <4>1, <4>5
    <3> QED
      BY <2>4, <3>2, <3>3, <3>4, <3>5 DEF EncNext
  <2>5. CASE DecNext
    <3>1. UNCHANGED <<enc_count, enc_pc, frame>>
      BY <2>5 DEF DecNext, encoder
    <3>2. ASSUME ReadFrame(pipe, EncOver),
                 pipe' = IF Enough(pipe) THEN SubSeq(pipe, ReadSize + 1, Len(pipe))
                         ELSE <<>>
          PROVE  FromRecording'
      <4>1. CASE ~Enough(pipe)
        <5>1. pipe' = <<>> /\ UNCHANGED heard
          BY <3>2, <4>1 DEF ReadFrame
        <5> QED
          BY <2>2, <2>3, <3>1, <5>1
      <4>2. CASE Enough(pipe)
        <5> DEFINE b == SubSeq(pipe, 1, ReadSize)
        <5>1. /\ ReadSize \in Nat /\ ReadSize > 0 /\ ReadSize <= Len(pipe)
              /\ pipe \in Seq(Int \X Int)
          BY <2>1, <4>2 DEF Enough, ReadSize, Counts
        <5>2. ASSUME NEW i \in DOMAIN pipe' PROVE Recorded(pipe'[i][1])
          <6>1. pipe' = SubSeq(pipe, ReadSize + 1, Len(pipe))
            BY <3>2, <4>2
          <6>2. /\ SubSeq(pipe, ReadSize + 1, Len(pipe)) \in Seq(Int \X Int)
                /\ Len(SubSeq(pipe, ReadSize + 1, Len(pipe))) = Len(pipe) - ReadSize
                /\ \A j \in 1..Len(pipe) - ReadSize :
                     SubSeq(pipe, ReadSize + 1, Len(pipe))[j] = pipe[ReadSize + j]
            BY <5>1, Remainder
          <6>3. /\ pipe' \in Seq(Int \X Int)
                /\ Len(pipe') = Len(pipe) - ReadSize
                /\ \A j \in 1..Len(pipe) - ReadSize : pipe'[j] = pipe[ReadSize + j]
            BY <6>1, <6>2, Zenon
          <6>4. i \in 1..Len(pipe) - ReadSize
            BY <5>2, <6>3
          <6>5. ReadSize + i \in DOMAIN pipe
            BY <5>1, <6>4
          <6> QED
            BY <2>2, <6>3, <6>4, <6>5
        <5>3. FrameOf(b) # Misaligned => Recorded(FrameOf(b))
          <6>1. b[1] = pipe[1] /\ 1 \in DOMAIN pipe
            BY <5>1, SubSeqProperties
          <6>2. FrameOf(b) = b[1][1] \/ FrameOf(b) = Misaligned
            BY Zenon DEF FrameOf
          <6> QED
            BY <2>2, <6>1, <6>2
        <5>4. heard' = Append(heard, FrameOf(b))
          BY <3>2, <4>2 DEF ReadFrame
        <5> HIDE DEF b
        <5>5. ASSUME NEW k \in DOMAIN heard', heard'[k] # Misaligned
              PROVE  Recorded(heard'[k])
          <6>1. heard \in Seq(Int)
            BY DEF Counts
          <6>2. CASE k \in DOMAIN heard
            <7>1. heard'[k] = heard[k]
              BY <5>4, <6>1, <6>2
            <7> QED
              BY <2>2, <5>5, <6>2, <7>1
          <6>3. CASE k = Len(heard) + 1
            <7>1. heard'[k] = FrameOf(b)
              BY <5>4, <6>1, <6>3
            <7> QED
              BY <5>3, <5>5, <7>1
          <6> QED
            BY <5>4, <5>5, <6>1, <6>2, <6>3
        <5> QED
          BY <2>2, <2>3, <3>1, <5>2, <5>5
      <4> QED
        BY <4>1, <4>2
    <3>3. ASSUME UNCHANGED <<pipe, heard>> PROVE FromRecording'
      BY <2>2, <2>3, <3>1, <3>3
    <3>4. ASSUME NEW failing, OpenStream(failing) PROVE UNCHANGED heard
      BY <3>4 DEF OpenStream
    <3>5. ASSUME NEW to \in Contexts, NEW ok \in BOOLEAN, NEW v \in Decoded,
                 DecodeFrame(to, ok, v)
          PROVE  UNCHANGED heard
      BY <3>5 DEF DecodeFrame
    <3>6. ASSUME NEW opens \in BOOLEAN, WriteSamples(opens) PROVE UNCHANGED heard
      BY <3>6 DEF WriteSamples
    <3>7. DecodeNothing => UNCHANGED heard
      BY DEF DecodeNothing
    <3> QED
      BY <2>5, <3>2, <3>3, <3>4, <3>5, <3>6, <3>7 DEF DecNext
  <2>6. CASE UNCHANGED vars
    <3>1. UNCHANGED <<pipe, heard, enc_count, enc_pc, frame>>
      BY <2>6 DEF vars, encoder, decoder
    <3> QED
      BY <2>2, <2>3, <3>1
  <2> QED
    BY <2>4, <2>5, <2>6 DEF Next
<1> QED
  BY <1>1, <1>2, KindsInvariant, CountsInvariant, PTL DEF Spec

(* Whatever the length of the recording, the stub cuts it at the           *)
(* boundaries of frames and never reads past its end.                      *)
THEOREM RecordingStaysInBounds == Spec => []RecordingInBounds
<1>1. Kinds /\ Counts /\ FromRecording => RecordingInBounds
  BY DEF FromRecording, RecordingInBounds, Recorded
<1> QED
  BY <1>1, KindsInvariant, CountsInvariant, RecordingInvariant, PTL

-----------------------------------------------------------------------------
(* Types                                                                   *)

(* What is left of the files, as seen by aptxenc.                          *)
FilesRight ==
    /\ files \in Seq([promised : Nat, present : Nat])
    /\ enc_pc \in {"open", "loop", "encode", "write"} => files # <<>>
    /\ left \in Nat

(* Its counter of samples fits an int because a frame that is being        *)
(* encoded or written is taken off a counter that has room for it.         *)
CounterRight ==
    /\ samples \in Int /\ -(IntMax + 1) <= samples /\ samples <= IntMax
    /\ enc_pc \in {"encode", "write"} => samples >= ReadSamples

(* The pipe, what was played and what was written.                         *)
OutputRight ==
    /\ shorts <= MaxShort
    /\ Len(pipe) <= Capacity
    /\ played <= Len(heard)
    /\ dec_count \in Nat
    /\ dec_build = "raw" => written \in Sample16

(* The inductive invariant.                                                *)
Limits == FilesRight /\ CounterRight /\ OutputRight

(* A number taken for one of 16 bits is one.                               *)
LEMMA SixteenBits ==
    ASSUME NEW n \in Int
    PROVE  Signed(n, 65536) \in Sample16
<1>1. n % 65536 \in Int /\ 0 <= n % 65536 /\ n % 65536 < 65536
  BY SMT
<1> QED
  BY <1>1, SMT DEF Signed, Sample16

(* What aptxdec writes to a raw stream, whatever it was given.             *)
LEMMA RawFits ==
    ASSUME Kinds, NEW v \in Sample24, NEW counter \in Nat, dec_build = "raw"
    PROVE  ToFile(Samples(v, counter)) \in Sample16
<1>1. v \in Int /\ v \div 256 \in Int
  BY Unsigned24
<1>2. v % 16777216 \in Int /\ (v % 16777216) \div 256 \in Int
  BY <1>1, SMT
<1>3. Samples(v, counter) \in Int
  <2>1. CASE backend = "ffmpeg"
    <3>1. Samples(v, counter) = FfmpegOut(hd, v)
      BY <2>1, Zenon DEF Samples
    <3> QED
      BY <1>1, <3>1, SMT DEF FfmpegOut
  <2>2. CASE backend = "freeaptx"
    <3>1. Samples(v, counter) = FreeaptxOut(hd, v)
      BY <2>2, SMT DEF Samples
    <3> QED
      BY <1>2, <3>1, SMT DEF FreeaptxOut
  <2>3. CASE backend = "stub"
    <3>1. Samples(v, counter) = counter + 1
      BY <2>3, SMT DEF Samples
    <3> QED
      BY <3>1
  <2> QED
    BY <2>1, <2>2, <2>3 DEF Kinds
<1>4. ASSUME NEW pcm \in Int PROVE ToFile(pcm) \in Sample16
  <2>1. CASE hd
    <3>1. pcm \div 256 \in Int
      BY SMT
    <3>2. ToFile(pcm) = Signed(pcm \div 256, 65536)
      BY <2>1, SMT DEF ToFile, DecodeRaw
    <3> QED
      BY <3>1, <3>2, SixteenBits, SMT
  <2>2. CASE ~hd
    <3>1. ToFile(pcm) = Signed(pcm, 65536)
      BY <2>2, SMT DEF ToFile, DecodeRaw
    <3> QED
      BY <3>1, SixteenBits, SMT
  <2> QED
    BY <2>1, <2>2
<1> QED
  BY <1>3, <1>4, Zenon

(* Whatever count the header of a file holds, it is cut down to an int.    *)
LEMMA AnIntFits ==
    ASSUME NEW n \in Nat
    PROVE  AsInt(n) \in Int /\ -(IntMax + 1) <= AsInt(n) /\ AsInt(n) <= IntMax
<1>1. ASSUME NEW w \in Nat, w > 0, NEW z \in Int
      PROVE  z % (2 * w) \in Int /\ 0 <= z % (2 * w) /\ z % (2 * w) < 2 * w
  <2>1. 2 * w \in Nat /\ 2 * w > 0
    BY <1>1
  <2> QED
    BY <2>1
<1>2. IntMax + 1 \in Nat /\ IntMax + 1 > 0 /\ IntMax \in Nat
  BY LimitsAssumption
<1>3. /\ (n + IntMax + 1) % (2 * (IntMax + 1)) \in Int
      /\ 0 <= (n + IntMax + 1) % (2 * (IntMax + 1))
      /\ (n + IntMax + 1) % (2 * (IntMax + 1)) < 2 * (IntMax + 1)
  BY <1>1, <1>2
<1> QED
  BY <1>2, <1>3 DEF AsInt

(* The call of encode is over and the next one finds a file, if there is.  *)
LEMMA NextFileIsThere ==
    ASSUME FilesRight, files # <<>>, NextFile
    PROVE  /\ files' \in Seq([promised : Nat, present : Nat])
           /\ enc_pc' \in {"ended", "open"}
           /\ enc_pc' = "open" => files' # <<>>
<1>1. /\ Tail(files) \in Seq([promised : Nat, present : Nat])
      /\ Len(Tail(files)) = Len(files) - 1
  BY HeadTailProperties DEF FilesRight
<1>2. Len(files) # 1 => Tail(files) # <<>>
  <2>1. Len(<<>>) = 0
    OBVIOUS
  <2>2. Len(files) \in Nat
    BY DEF FilesRight
  <2>3. Tail(files) = <<>> => Len(Tail(files)) = 0
    BY <2>1, Zenon
  <2> QED
    BY <1>1, <2>2, <2>3
<1> QED
  BY <1>1, <1>2 DEF NextFile

(* aptxenc's steps keep to the limits.                                     *)
LEMMA EncodingKeeps ==
    ASSUME Kinds, Counts, Limits, EncNext
    PROVE  Limits'
<1> USE DEF Limits
<1>1. UNCHANGED <<dec_build, dec_count, written, played, heard>>
  BY DEF EncNext, decoder, sound
<1>2. ASSUME UNCHANGED <<shorts, pipe>> PROVE OutputRight'
  BY <1>1, <1>2 DEF OutputRight
<1>3. ASSUME NEW failing \in Failures, OpenFile(failing) PROVE Limits'
  <2>1. enc_pc = "open" /\ UNCHANGED <<shorts, pipe>> /\ files # <<>>
    BY <1>3 DEF OpenFile, FilesRight
  <2>2. CASE failing = "none"
    <3>1. /\ enc_pc' = "loop" /\ UNCHANGED files /\ left' = Head(files).present
          /\ samples' = IF enc_build = "raw" THEN IntMax
                        ELSE AsInt(Head(files).promised)
      BY <1>3, <2>2 DEF OpenFile
    <3>2. Head(files) \in [promised : Nat, present : Nat]
      BY <2>1, HeadTailProperties DEF FilesRight
    <3>3. Head(files).promised \in Nat /\ Head(files).present \in Nat
      BY <3>2
    <3>4. FilesRight'
      BY <2>1, <3>1, <3>3 DEF FilesRight
    <3>5. CounterRight'
      BY <3>1, <3>3, AnIntFits, LimitsAssumption DEF CounterRight
    <3> QED
      BY <1>2, <2>1, <3>4, <3>5
  <2>3. CASE failing # "none"
    <3>1. NextFile /\ UNCHANGED <<samples, left>>
      BY <1>3, <2>3 DEF OpenFile
    <3> QED
      BY <1>2, <2>1, <3>1, NextFileIsThere DEF FilesRight, CounterRight
  <2> QED
    BY <2>2, <2>3
<1>4. ASSUME ReadPcm PROVE Limits'
  <2>1. /\ enc_pc = "loop" /\ samples >= ReadSamples /\ files # <<>>
        /\ UNCHANGED <<samples, shorts, pipe>>
    BY <1>4 DEF ReadPcm, FilesRight
  <2>2. CASE left >= ReadSamples
    BY <1>2, <1>4, <2>1, <2>2 DEF ReadPcm, FilesRight, CounterRight, ReadSamples
  <2>3. CASE ~(left >= ReadSamples)
    <3>1. left' = 0 /\ ShortRead
      BY <1>4, <2>3 DEF ReadPcm
    <3> QED
      BY <1>2, <2>1, <3>1, NextFileIsThere DEF ShortRead, FilesRight, CounterRight
  <2> QED
    BY <2>2, <2>3
<1>5. ASSUME NEW ok \in BOOLEAN, EncodeFrame(ok) PROVE Limits'
  BY <1>2, <1>5 DEF EncodeFrame, input, FilesRight, CounterRight
<1>6. ASSUME NEW count \in 0..FrameBytes, WriteFrame(count) PROVE Limits'
  <2>1. /\ enc_pc = "write" /\ enc_pc' = "loop" /\ UNCHANGED <<files, left>>
        /\ samples' = samples - ReadSamples
        /\ Len(pipe) + FrameBytes <= Capacity
        /\ pipe' = pipe \o [k \in 1..count |-> <<frame, k>>]
        /\ shorts' <= MaxShort
    BY <1>6 DEF WriteFrame, input
  <2>2. count \in Nat /\ count <= FrameBytes /\ FrameBytes \in Nat
    BY FrameSize
  <2>3. Len(pipe') = Len(pipe) + count
    <3> DEFINE f == [k \in 1..count |-> <<frame, k>>]
    <3>1. f \in Seq(Int \X Int) /\ Len(f) = count /\ pipe \in Seq(Int \X Int)
      BY <2>2, FrameIsASequence DEF Counts
    <3>2. pipe' = pipe \o f
      BY <2>1
    <3> HIDE DEF f
    <3> QED
      BY <3>1, <3>2, ConcatProperties
  <2>4. Len(pipe') <= Capacity
    BY <2>1, <2>2, <2>3, LimitsAssumption DEF Counts
  <2>5. OutputRight'
    BY <1>1, <2>1, <2>4 DEF OutputRight
  <2> QED
    BY <2>1, <2>5, LimitsAssumption DEF FilesRight, CounterRight, ReadSamples
<1>7. ASSUME Killed PROVE Limits'
  BY <1>2, <1>7 DEF Killed, FilesRight, CounterRight
<1>8. ASSUME LeaveLoop PROVE Limits'
  BY <1>2, <1>8, NextFileIsThere DEF LeaveLoop, FilesRight, CounterRight
<1> QED
  BY <1>3, <1>4, <1>5, <1>6, <1>7, <1>8 DEF EncNext

(* And so do aptxdec's.                                                    *)
LEMMA DecodingKeeps ==
    ASSUME Kinds, Counts, Finished, Limits, DecNext
    PROVE  Limits'
<1> USE DEF Limits
<1>1. UNCHANGED <<files, enc_pc, left, samples, shorts, hd, backend>>
  BY DEF DecNext, encoder, input, library
<1>2. FilesRight' /\ CounterRight'
  BY <1>1 DEF FilesRight, CounterRight
<1>3. ASSUME NEW failing, OpenStream(failing), UNCHANGED pipe PROVE Limits'
  BY <1>1, <1>2, <1>3 DEF OpenStream, sound, OutputRight
<1>4. ASSUME ReadFrame(pipe, EncOver),
             pipe' = IF Enough(pipe) THEN SubSeq(pipe, ReadSize + 1, Len(pipe))
                     ELSE <<>>
      PROVE  Limits'
  <2>1. UNCHANGED <<dec_build, dec_count, written, played>>
    BY <1>4 DEF ReadFrame, sound
  <2>2. CASE Enough(pipe)
    <3>1. heard' = Append(heard, FrameOf(SubSeq(pipe, 1, ReadSize)))
      BY <1>4, <2>2 DEF ReadFrame
    <3>2. Len(heard') = Len(heard) + 1
      BY <3>1 DEF Counts
    <3>3. ReadSize \in Nat /\ ReadSize > 0 /\ ReadSize <= Len(pipe)
      BY <2>2, FrameSize DEF Enough, ReadSize
    <3>4. Len(pipe') = Len(pipe) - ReadSize
      BY <1>4, <2>2, <3>3, Remainder DEF Counts
    <3> QED
      BY <1>1, <1>2, <2>1, <3>2, <3>3, <3>4, LimitsAssumption DEF OutputRight, Counts
  <2>3. CASE ~Enough(pipe)
    <3>1. pipe' = <<>> /\ UNCHANGED heard
      BY <1>4, <2>3 DEF ReadFrame
    <3> QED
      BY <1>1, <1>2, <2>1, <3>1, LimitsAssumption DEF OutputRight
  <2> QED
    BY <2>2, <2>3
<1>5. ASSUME NEW to \in Contexts, NEW ok \in BOOLEAN, NEW v \in Decoded,
             DecodeFrame(to, ok, v),
             UNCHANGED pipe
      PROVE  Limits'
  <2>1. /\ UNCHANGED <<dec_build, heard, played>>
        /\ dec_count' \in {dec_count, dec_count + 8}
        /\ written' = ToFile(Samples(v, dec_count))
    BY <1>5 DEF DecodeFrame, AfterDecode
  <2>2. dec_build = "raw" => written' \in Sample16
    BY <2>1, RawFits, DecodedAssumption DEF OutputRight
  <2> QED
    BY <1>1, <1>2, <1>5, <2>1, <2>2 DEF OutputRight
<1>6. ASSUME NEW opens \in BOOLEAN, WriteSamples(opens), UNCHANGED pipe
      PROVE  Limits'
  <2>1. /\ dec_pc = "write" /\ UNCHANGED <<dec_build, heard, dec_count, written>>
        /\ played' \in {played, played + 1}
    BY <1>6 DEF WriteSamples, sound
  <2>2. played = Len(heard) - 1
    BY <2>1 DEF Finished, Open
  <2> QED
    BY <1>1, <1>2, <1>6, <2>1, <2>2 DEF OutputRight, Counts
<1>7. ASSUME DecodeNothing, UNCHANGED pipe PROVE Limits'
  BY <1>1, <1>2, <1>7 DEF DecodeNothing, sound, OutputRight
<1> QED
  BY <1>3, <1>4, <1>5, <1>6, <1>7 DEF DecNext

(* The limits are kept.                                                    *)
LEMMA LimitsInvariant == Spec => []Limits
<1>1. Init => Limits
  <2> SUFFICES ASSUME Init PROVE Limits
    OBVIOUS
  <2>1. /\ files \in Inputs /\ left = 0 /\ samples = 0 /\ shorts = 0
        /\ pipe = <<>> /\ heard = <<>> /\ played = 0 /\ dec_count = 0
        /\ written = 0 /\ enc_pc = "open"
    BY DEF Init, EncInit, DecInit
  <2>2. FilesRight
    BY <2>1, InputsAssumption DEF FilesRight
  <2>3. CounterRight /\ OutputRight
    BY <2>1, LimitsAssumption DEF CounterRight, OutputRight, Sample16
  <2> QED
    BY <2>2, <2>3 DEF Limits
<1>2. Kinds /\ Counts /\ Finished /\ Limits /\ [Next]_vars => Limits'
  <2>1. ASSUME Limits, UNCHANGED vars PROVE Limits'
    BY <2>1 DEF vars, encoder, input, decoder, sound,
                Limits, FilesRight, CounterRight, OutputRight
  <2> QED
    BY <2>1, EncodingKeeps, DecodingKeeps DEF Next
<1> QED
  BY <1>1, <1>2, FramesInvariant, PTL DEF Spec

(* Whatever the files hold and promise, the count aptxenc keeps stays an   *)
(* int and never goes below zero by a frame, the pipe never holds more     *)
(* than it can, nothing is played that was not heard, and what is written  *)
(* to a raw stream fits its 16 bits.                                       *)
THEOREM TypesRight == Spec => []TypeOK
<1>1. Counts /\ ContextLost /\ Limits => TypeOK
  BY LimitsAssumption
     DEF Counts, ContextLost, Limits, FilesRight, CounterRight, OutputRight, TypeOK
<1> QED
  BY <1>1, ContextInvariant, LimitsInvariant, FramesInvariant, PTL

-----------------------------------------------------------------------------
(* Coming to an end                                                        *)

(* How far a program is on its way round its loop.                         *)
EncRank == CASE enc_pc = "encode" -> 2
             [] enc_pc = "write"  -> 1
             [] OTHER             -> 0

DecRank == CASE dec_pc = "open"   -> 4
             [] dec_pc = "decode" -> 3
             [] dec_pc = "write"  -> 2
             [] dec_pc = "loop"   -> 1
             [] OTHER             -> 0

(* What is left to do: files, whether the next has been opened, samples in *)
(* it and the rest of the way to the pipe; then the bytes in the pipe and  *)
(* the rest of the way out of it.                                          *)
Remaining ==
    <<Len(files), IF enc_pc = "open" THEN 1 ELSE 0, left, EncRank,
      Len(pipe), DecRank>>

(* The order of words: there is less left to do at the first place where   *)
(* there is a difference.                                                  *)
Less(p, q) ==
    \E k \in 1..6 : p[k] < q[k] /\ \A j \in 1..k - 1 : p[j] = q[j]

(* The same, written out.                                                  *)
LEMMA LessAt ==
    ASSUME NEW p1, NEW p2, NEW p3, NEW p4, NEW p5, NEW p6,
           NEW q1, NEW q2, NEW q3, NEW q4, NEW q5, NEW q6,
           \/ p1 < q1
           \/ p1 = q1 /\ p2 < q2
           \/ p1 = q1 /\ p2 = q2 /\ p3 < q3
           \/ p1 = q1 /\ p2 = q2 /\ p3 = q3 /\ p4 < q4
           \/ p1 = q1 /\ p2 = q2 /\ p3 = q3 /\ p4 = q4 /\ p5 < q5
           \/ p1 = q1 /\ p2 = q2 /\ p3 = q3 /\ p4 = q4 /\ p5 = q5 /\ p6 < q6
    PROVE  Less(<<p1, p2, p3, p4, p5, p6>>, <<q1, q2, q3, q4, q5, q6>>)
<1> DEFINE p == <<p1, p2, p3, p4, p5, p6>>
           q == <<q1, q2, q3, q4, q5, q6>>
<1>1. /\ p[1] = p1 /\ p[2] = p2 /\ p[3] = p3 /\ p[4] = p4 /\ p[5] = p5 /\ p[6] = p6
      /\ q[1] = q1 /\ q[2] = q2 /\ q[3] = q3 /\ q[4] = q4 /\ q[5] = q5 /\ q[6] = q6
  OBVIOUS
<1> HIDE DEF p, q
<1>2. \/ p[1] < q[1]
      \/ p[1] = q[1] /\ p[2] < q[2]
      \/ p[1] = q[1] /\ p[2] = q[2] /\ p[3] < q[3]
      \/ p[1] = q[1] /\ p[2] = q[2] /\ p[3] = q[3] /\ p[4] < q[4]
      \/ p[1] = q[1] /\ p[2] = q[2] /\ p[3] = q[3] /\ p[4] = q[4] /\ p[5] < q[5]
      \/ /\ p[1] = q[1] /\ p[2] = q[2] /\ p[3] = q[3] /\ p[4] = q[4]
         /\ p[5] = q[5] /\ p[6] < q[6]
  BY <1>1, Zenon
<1>3. /\ \A j \in 1..1 - 1 : FALSE
      /\ \A j \in 1..2 - 1 : j = 1
      /\ \A j \in 1..3 - 1 : j = 1 \/ j = 2
      /\ \A j \in 1..4 - 1 : j = 1 \/ j = 2 \/ j = 3
      /\ \A j \in 1..5 - 1 : j = 1 \/ j = 2 \/ j = 3 \/ j = 4
      /\ \A j \in 1..6 - 1 : j = 1 \/ j = 2 \/ j = 3 \/ j = 4 \/ j = 5
  OBVIOUS
<1>4. 1 \in 1..6 /\ 2 \in 1..6 /\ 3 \in 1..6 /\ 4 \in 1..6 /\ 5 \in 1..6 /\ 6 \in 1..6
  OBVIOUS
<1>5. Less(p, q)
  BY <1>2, <1>3, <1>4, Zenon DEF Less
<1> QED
  BY <1>5 DEF p, q

(* The next file is one less.                                              *)
LEMMA NextFileIsOneLess ==
    ASSUME FilesRight, files # <<>>, NextFile
    PROVE  Len(files') < Len(files)
<1>1. Len(Tail(files)) = Len(files) - 1 /\ Len(files) \in Nat
  BY HeadTailProperties DEF FilesRight
<1> QED
  BY <1>1 DEF NextFile

(* Which of the two programs aptxenc is does not change either.            *)
EncKind == enc_build \in {"sndfile", "raw"}

LEMMA EncKindInvariant == Spec => []EncKind
<1>1. Init => EncKind
  BY DEF Init, EncInit, EncKind
<1>2. EncKind /\ [Next]_vars => EncKind'
  BY DEF Next, EncNext, DecNext, vars, encoder, input, OpenFile, ReadPcm,
         EncodeFrame, WriteFrame, Killed, LeaveLoop, EncKind
<1> QED
  BY <1>1, <1>2, PTL DEF Spec

(* Every step of aptxenc leaves less to do, or it spins.                   *)
LEMMA EncodingProgresses ==
    ASSUME Kinds, EncKind, Counts, Limits, EncNext
    PROVE  Less(Remaining', Remaining) \/ Spinning
<1> USE DEF Limits
<1>1. ASSUME Len(files') < Len(files) PROVE Less(Remaining', Remaining)
  BY <1>1, LessAt DEF Remaining
<1>2. ASSUME NEW failing \in Failures, OpenFile(failing)
      PROVE  Less(Remaining', Remaining)
  <2>1. enc_pc = "open" /\ files # <<>>
    BY <1>2 DEF OpenFile, FilesRight
  <2>2. CASE failing = "none"
    <3>1. enc_pc' = "loop" /\ Len(files') = Len(files)
      BY <1>2, <2>2 DEF OpenFile
    <3>2. (IF enc_pc' = "open" THEN 1 ELSE 0) < (IF enc_pc = "open" THEN 1 ELSE 0)
      BY <2>1, <3>1
    <3> QED
      BY <3>1, <3>2, LessAt DEF Remaining
  <2>3. CASE failing # "none"
    BY <1>1, <1>2, <2>1, <2>3, NextFileIsOneLess DEF OpenFile
  <2> QED
    BY <2>2, <2>3
<1>3. ASSUME ReadPcm PROVE Less(Remaining', Remaining) \/ Spinning
  <2>1. enc_pc = "loop" /\ samples >= ReadSamples /\ files # <<>>
    BY <1>3 DEF ReadPcm, FilesRight
  <2>2. CASE left >= ReadSamples
    <3>1. enc_pc' = "encode" /\ Len(files') = Len(files) /\ left' < left
      BY <1>3, <2>2 DEF ReadPcm, FilesRight, ReadSamples
    <3>2. (IF enc_pc' = "open" THEN 1 ELSE 0) = (IF enc_pc = "open" THEN 1 ELSE 0)
      BY <2>1, <3>1
    <3> QED
      BY <3>1, <3>2, LessAt DEF Remaining
  <2>3. CASE ~(left >= ReadSamples) /\ enc_build = "raw"
    BY <1>1, <1>3, <2>1, <2>3, NextFileIsOneLess DEF ReadPcm, ShortRead
  <2>4. CASE ~(left >= ReadSamples) /\ enc_build # "raw"
    BY <2>1, <2>4 DEF Spinning, FilesRight, ReadSamples, EncKind
  <2> QED
    BY <2>2, <2>3, <2>4
<1>4. ASSUME NEW ok \in BOOLEAN, EncodeFrame(ok)
      PROVE  Less(Remaining', Remaining)
  <2>1. /\ enc_pc = "encode" /\ enc_pc' = "write"
        /\ Len(files') = Len(files) /\ left' = left
    BY <1>4 DEF EncodeFrame, input
  <2>2. (IF enc_pc' = "open" THEN 1 ELSE 0) = (IF enc_pc = "open" THEN 1 ELSE 0)
    BY <2>1
  <2>3. EncRank' < EncRank
    BY <2>1 DEF EncRank
  <2> QED
    BY <2>1, <2>2, <2>3, LessAt DEF Remaining
<1>5. ASSUME NEW count \in 0..FrameBytes, WriteFrame(count)
      PROVE  Less(Remaining', Remaining)
  <2>1. /\ enc_pc = "write" /\ enc_pc' = "loop"
        /\ Len(files') = Len(files) /\ left' = left
    BY <1>5 DEF WriteFrame, input
  <2>2. (IF enc_pc' = "open" THEN 1 ELSE 0) = (IF enc_pc = "open" THEN 1 ELSE 0)
    BY <2>1
  <2>3. EncRank' < EncRank
    BY <2>1 DEF EncRank
  <2> QED
    BY <2>1, <2>2, <2>3, LessAt DEF Remaining
<1>6. ASSUME Killed PROVE Less(Remaining', Remaining)
  <2>1. files # <<>> /\ files' = <<>> /\ files \in Seq([promised : Nat, present : Nat])
    BY <1>6 DEF Killed, FilesRight
  <2>2. Len(files') < Len(files)
    BY <2>1
  <2> QED
    BY <1>1, <2>2
<1>7. ASSUME LeaveLoop PROVE Less(Remaining', Remaining)
  <2>1. files # <<>> /\ NextFile
    BY <1>7 DEF LeaveLoop, FilesRight
  <2> QED
    BY <1>1, <2>1, NextFileIsOneLess
<1> QED
  BY <1>2, <1>3, <1>4, <1>5, <1>6, <1>7 DEF EncNext

(* And every step of aptxdec.                                              *)
LEMMA DecodingProgresses ==
    ASSUME Kinds, Counts, DecNext
    PROVE  Less(Remaining', Remaining)
<1>1. /\ Len(files') = Len(files) /\ left' = left /\ EncRank' = EncRank
      /\ (IF enc_pc' = "open" THEN 1 ELSE 0) = (IF enc_pc = "open" THEN 1 ELSE 0)
  BY DEF DecNext, encoder, input, EncRank
<1>2. ASSUME Len(pipe') = Len(pipe), DecRank' < DecRank
      PROVE  Less(Remaining', Remaining)
  BY <1>1, <1>2, LessAt DEF Remaining
<1>3. ASSUME NEW failing, OpenStream(failing), UNCHANGED pipe
      PROVE  Less(Remaining', Remaining)
  <2>1. DecRank' < DecRank
    BY <1>3 DEF OpenStream, DecRank
  <2> QED
    BY <1>2, <1>3, <2>1
<1>4. ASSUME ReadFrame(pipe, EncOver),
             pipe' = IF Enough(pipe) THEN SubSeq(pipe, ReadSize + 1, Len(pipe))
                     ELSE <<>>
      PROVE  Less(Remaining', Remaining)
  <2>1. pipe \in Seq(Int \X Int) /\ ReadSize \in Nat /\ ReadSize > 0
    BY FrameSize DEF Counts, ReadSize
  <2>2. CASE Enough(pipe)
    <3>1. Len(pipe') = Len(pipe) - ReadSize /\ Len(pipe) \in Nat
      BY <1>4, <2>1, <2>2, Remainder DEF Enough
    <3>2. Len(pipe') < Len(pipe)
      BY <2>1, <3>1
    <3> QED
      BY <1>1, <3>2, LessAt DEF Remaining
  <2>3. CASE ~Enough(pipe)
    <3>1. pipe' = <<>> /\ DecRank' < DecRank
      BY <1>4, <2>3 DEF ReadFrame, DecRank
    <3>2. Len(pipe') = 0 /\ Len(pipe) \in Nat
      BY <2>1, <3>1
    <3>3. Len(pipe') < Len(pipe) \/ Len(pipe') = Len(pipe)
      BY <3>2
    <3> QED
      BY <1>1, <3>1, <3>3, LessAt DEF Remaining
  <2> QED
    BY <2>2, <2>3
<1>5. ASSUME NEW to \in Contexts, NEW ok \in BOOLEAN, NEW v \in Decoded,
             DecodeFrame(to, ok, v),
             UNCHANGED pipe
      PROVE  Less(Remaining', Remaining)
  <2>1. DecRank' < DecRank
    BY <1>5 DEF DecodeFrame, DecRank
  <2> QED
    BY <1>2, <1>5, <2>1
<1>6. ASSUME NEW opens \in BOOLEAN, WriteSamples(opens), UNCHANGED pipe
      PROVE  Less(Remaining', Remaining)
  <2>1. DecRank' < DecRank
    BY <1>6 DEF WriteSamples, DecRank
  <2> QED
    BY <1>2, <1>6, <2>1
<1>7. ASSUME DecodeNothing, UNCHANGED pipe
      PROVE  Less(Remaining', Remaining)
  <2>1. DecRank' < DecRank
    BY <1>7 DEF DecodeNothing, DecRank
  <2> QED
    BY <1>2, <1>7, <2>1
<1> QED
  BY <1>3, <1>4, <1>5, <1>6, <1>7 DEF DecNext

(* Nothing ends the spinning.                                              *)
LEMMA SpinsForEver ==
    ASSUME Limits, Spinning, [Next]_vars
    PROVE  Spinning'
<1>1. /\ enc_build = "sndfile" /\ enc_pc = "loop" /\ samples >= 8 /\ left < 8
      /\ samples \in Int /\ left \in Nat
  BY DEF Spinning, ReadSamples, Limits, FilesRight, CounterRight
<1>2. CASE EncNext
  <2>1. ~LeaveLoop
    BY <1>1 DEF LeaveLoop, ReadSamples
  <2>2. ReadPcm
    BY <1>1, <1>2, <2>1 DEF EncNext, OpenFile, EncodeFrame, WriteFrame, Killed
  <2>3. /\ enc_build' = enc_build /\ samples' = samples /\ left' = 0
        /\ enc_pc' = "loop"
    BY <1>1, <2>2 DEF ReadPcm, ShortRead, ReadSamples
  <2> QED
    BY <1>1, <2>3 DEF Spinning, ReadSamples
<1>3. CASE DecNext
  BY <1>1, <1>3 DEF DecNext, encoder, input, Spinning, ReadSamples
<1>4. CASE UNCHANGED vars
  BY <1>1, <1>4 DEF vars, encoder, input, Spinning, ReadSamples
<1> QED
  BY <1>2, <1>3, <1>4 DEF Next

(* Every step of either program leaves less to do, in an order in which    *)
(* that cannot go on for ever, or aptxenc reads on in a sound file that is *)
(* shorter than it promised, which it then never stops doing.  With the    *)
(* fairness of the specification EndOrSpin rests on this.                  *)
THEOREM EveryStepProgresses ==
    Spec => /\ []\A k \in 1..6 : Remaining[k] \in Nat
            /\ [][Less(Remaining', Remaining) \/ (Spinning /\ Spinning')]_vars
<1>1. Kinds /\ EncKind /\ Counts /\ Limits /\ [Next]_vars
        => [Less(Remaining', Remaining) \/ (Spinning /\ Spinning')]_vars
  BY EncodingProgresses, DecodingProgresses, SpinsForEver DEF Next
<1>2. Counts /\ Limits => \A k \in 1..6 : Remaining[k] \in Nat
  <2> SUFFICES ASSUME Counts, Limits PROVE \A k \in 1..6 : Remaining[k] \in Nat
    OBVIOUS
  <2>1. Len(files) \in Nat /\ left \in Nat /\ Len(pipe) \in Nat
    BY DEF Counts, Limits, FilesRight
  <2>2. EncRank \in Nat /\ DecRank \in Nat
    BY DEF EncRank, DecRank
  <2> QED
    BY <2>1, <2>2 DEF Remaining
<1> QED
  BY <1>1, <1>2, EncKindInvariant, LimitsInvariant, FramesInvariant, PTL DEF Spec

(* And there is such a step: a full pipe and an empty one never hold both  *)
(* programs up at the same time, if two frames fit into the pipe.          *)
THEOREM NeverBothWait ==
    ASSUME Capacity >= 12
    PROVE  Spec => []~(/\ enc_pc = "write" /\ Len(pipe) + FrameBytes > Capacity
                       /\ dec_pc = "loop" /\ ~Enough(pipe))
<1>1. Kinds /\ Counts => ~(/\ enc_pc = "write" /\ Len(pipe) + FrameBytes > Capacity
                          /\ dec_pc = "loop" /\ ~Enough(pipe))
  <2> SUFFICES ASSUME Kinds, Counts, Len(pipe) + FrameBytes > Capacity,
                      ~Enough(pipe)
               PROVE  FALSE
    OBVIOUS
  <2>1. FrameBytes \in {4, 6} /\ Len(pipe) \in Nat
    BY FrameSize DEF Counts
  <2> QED
    BY <2>1, LimitsAssumption DEF Enough, ReadSize
<1> QED
  BY <1>1, FramesInvariant, PTL
=============================================================================
