# openaptx in TLA+

TLA+ models of the apt-X and apt-X HD encoders, of the APIs over other codec
libraries and of the two command-line programs of this repository, TLC
configurations that check them on small instances, and proofs
that TLAPS checks for every value of the constants. All paths below are
relative to the root of the repository; `PROJECT.json` maps every definition
to the lines it stands for.

## The system

openaptx re-creates the arithmetic of two closed apt-X encoder libraries in C
(`src/aptx422`, `src/aptxhd100`), and offers the same API over libavcodec
(`src/aptx-ffmpeg.c`) and libfreeaptx (`src/aptx-freeaptx.c`), with a stub for
programs that have neither. There is no thread, lock or callback in it; the two
programs run side by side only through a pipe. What makes it hard is the long
memory of fixed-point state, encoder and decoder keeping the same state from
nothing but the codewords, and a decoder that has to find out about a new stream
by itself.

### Components

| component | state | operations | correct when |
|---|---|---|---|
| **stereo encoder** `encode.c`, `main.c`, `quantizer.c` | per channel: codeword history, dither, four quantisers (`unk1` index, `unk2` runner-up, `unk3` distance); `sync` counter; byte-order `shift` | `aptxbtenc_init`, `aptxbtenc_encodestereo` = `aptX_encode` per channel, `aptX_insert_sync`, `aptX_post_encode`, `aptX_pack_codeword` | every eighth frame and no other carries odd parity; a mark costs the least certain decision; the codeword says what the local decoder was fed |
| **quantiser search** `search.c` | stride and cell of a loop | `aptX_search_quant_coeff` | it returns the cell the magnitude falls in, with both borders in the table |
| **inverse quantiser** `processor.c:15` | `unk10` logarithm of the step, `unk9` step, `unk11` difference | `aptX_invert_quantization` | defined shifts, a live step, agreement of both ends |
| **prediction** `processor.c:32`, `:78` | weights `sign1`, `sign2`, `unk2`, `unk3`; taps `arr1`, ring `arr2`, index `i`; output `unk6`..`unk8` | `aptX_process_subband`, `aptX_prediction_filtering` | a stable recursion, no overflow; the ring is a sliding window and taps learn from the difference they were used on; the prediction neither builds up nor survives silence |
| **QMF analysis** `qmf.c` | two outer, four inner rings, two indices | `aptX_QMF_analysis` | the output is that of filter banks over the whole history |
| **fixed-point helpers** `mathex.h` | - | rounding shifts, clipping | they round ties as intended |
| **decoder over libavcodec** `aptx-ffmpeg.c:295` | context, packet, frame pointers, announcing codeword | init, decode, destroy | success means a usable structure; nothing lost; destroy frees |
| **encoder over libavcodec** `aptx-ffmpeg.c:100` | as above, one static structure for all users of `NewAptxEnc` | new or init, encode, destroy | a success can be used; no packet kept; codewords are those of the codec and byte order asked for |
| **libfreeaptx backend** `aptx-freeaptx.c` | one pointer | init, encode, decode, destroy | it gives and takes the same codewords and samples |
| **stub backend** `aptx-stub.c` | a cursor into recorded codewords, a counter | init, encode, decode | it stays in the recording, at frame boundaries, and gives the same codewords |
| **aptxenc, aptxdec** `utils` | samples left, bytes in the pipe | loops over files | frames keep their boundaries and order, none is lost but by a failure, both programs end |

### How they interact

    samples --> QMF --> difference --> search, quantiser --> insert_sync --> pack --> wire
                 ^                          ^   ^                 |
                 |  prediction              |   | dither          v
                 +-- predictor <-- inverse quantiser <-------- post_encode

    files --> aptxenc --> encode API --> pipe --> decode API --> aptxdec --> sound
                            |                         |
                libavcodec, libfreeaptx, stub     libavcodec, libfreeaptx, stub

* `aptX_encode` reads the predictions and steps that `aptX_post_encode` of the
  frame before left behind; the codeword history takes in the indices of the
  frame before, after a possible flip.
* `aptX_insert_sync` looks at both channels at once, after both are quantised
  and before either inverse quantiser runs.
* The first frame after `aptxbtenc_init` is always the same codeword, 0x4BBF
  (0x73BEFF for HD), on both channels; `aptxbtdec_decodestereo` takes that pair
  for the start of a stream and builds a new codec context.
* `NewAptxEnc` and `NewAptxhdEnc` hand every caller the same structure, cleared
  and built anew: a call of one user changes what the pointer of another means.
* aptxenc writes codewords without any framing; aptxdec cuts the pipe into runs
  of four bytes (six for HD). Both ignore the result of the codec calls, aptxdec even
  that of a rebuilding that left the decoder no context to go on with.

### What is hard to test

`PROJECT.json` lists the hazards at their lines. In short: the order of flip,
local decoding and packing; the parity of a channel that replaces a bit of HH;
indices -1 and Cells - 1 into tables; shift counts; rounding of exact halves of
negative numbers; rings read backwards from an index that wraps; two weights
whose bounds depend on each other; long runs that drive weights and taps into
their bounds; a context that is rebuilt in the middle of a call that may fail;
frames lost between encoder and decoder; streams announced only in-band; users
of one structure that do not know of each other; short reads and writes, and
samples whose sign one library drops.

## The modules

`aptx422` and `aptxhd100` are the same text but for names, table sizes and
three widths (HD: `unk11` clamped to 24 bits, other bit widths of the fields, a
23-bit shift and 32-bit rings in the outer filter). A module therefore serves
both, with constants for what differs, and the map cites either source.

Some modules hold *slips* besides the definitions of the code: deliberately
wrong variants (`WantedEarly`, `FilterOnce`, ...) that no specification uses.
Putting one in the place of the definition next to it must make a run fail; they
show what each property is able to notice.

| module | models | correspondence |
|---|---|---|
| `Encode` | `encode.c`, `main.c`, decision part of `quantizer.c` | one call of `aptxbtenc_encodestereo` is five actions, `pc` says where it stands: `EncodeChannel(0)`, `EncodeChannel(1)`, `InsertSync`, `PostEncode`, `Pack`; `ReInit` is `aptxbtenc_init`. The signal path is a choice of (cell, signed distance, sign) per subband; history, dither and parity are computed bit by bit |
| `SyncPattern` | what the encoder promises about framing | abstract specification of `Encode`: a position in a cycle of eight and the parity on the wire |
| `Search` | `search.c` | one action per turn of the loop, tables and steps as constants |
| `Inverter` | `aptX_invert_quantization` | one action per frame, the index is the choice; `unk10` and `unk9` are the state, `unk11` is the operator `Difference` of them, with the 64-bit product split in parts |
| `Params422`, `ParamsHD100` | `params.c` | the tables, literally |
| `Predictor` | `aptX_process_subband`, weights | one action per frame, given the sign of the sum |
| `PredictionFilter` | `aptX_prediction_filtering`, taps and ring | one action per frame, given the difference; `factor` remembers what each tap was multiplied with |
| `Processor` | both, and the sums `unk6`..`unk8` that close the loop | one action per call of `aptX_process_subband`: the actions of the two modules above, in one step, the sign taken from `unk7` of the frame before |
| `SlidingWindow` | what the ring stands for | abstract specification of `PredictionFilter` |
| `Qmf` | `qmf.c` | one action per call of `aptX_QMF_analysis`; the reference is two banks over `heard`, the whole history |
| `Mathex` | `mathex.h`, and the shifts written out by hand | one operator each, one shared form |
| `FfmpegDecoder` | decoder half of `aptx-ffmpeg.c` | one action per API call, which libavcodec call fails is a choice |
| `Codeword` | codewords and bytes of packets, in all three backends | one operator per direction, codec and way of doing it |
| `FfmpegEncoder` | encoder half of `aptx-ffmpeg.c` | one action per API call of a user, which libavcodec call fails is a choice; `handle` is what a user takes its pointer for, `asked` the byte order it wanted |
| `Pcm` | samples between files and codecs | one operator per conversion of a backend or a program |
| `Backend` | the library the programs are linked with | which of the three, its failures, the cursor of the stub |
| `AptxEnc`, `AptxDec` | `utils/aptxenc.c`, `utils/aptxdec.c` | one action per blocking or failing step of the loops (`open`, `loop`, `encode` or `decode`, `write`). A decode call of `AptxDec` does to `context` what `Decode` of `FfmpegDecoder` does to `av_ctx`, whichever codeword it was; `DecodeNothing` is the crash of the call after |
| `Utilities` | `aptxenc FILE... \| aptxdec -` | the two next-state relations interleaved over the pipe, each with its fairness |
| `Stream` | `Encode`, a link, `FfmpegDecoder` together | the link carries one frame at a time and may lose it; the encoder may restart; nobody tells the decoder |

`MC...` modules give constants their values for TLC, `...Proofs` modules hold
the theorems about the module they extend and the modules that one builds on:
`StreamProofs` those about `Encode`, `QmfProofs` those about `Mathex`.

## What the runs check

| run | bounds | what it shows |
|---|---|---|
| `search` | real thresholds of both codecs, magnitudes on and beside each border, steps 0, 2^22, 2^23 | `TypeOK`, `FindsCell` |
| `inverter` | real tables of both codecs, up to six indices per subband, both ends of the range of dithers | `ShiftDefined`, `StepAlive`, `StepGrows`, `NeverDriftsApart`, `SumFits`, `SilenceResets` |
| `processor` | width 3; every sequence of 7 of three differences, six patterns changed every 200 of 600 frames, and differences held for 3000 of 9000 frames | `ProcessorTypeOK`, `Stable`, `NoOverflow`, `Paired`, `TapsBounded`, `GainBounded`, `Settles`, `SlidesLikeAWindow` |
| `qmf` | real 422 coefficients; five sample values with both extremes for the first call, four quiet tunes for 20 calls | `IsFilterBank`, `QuietStart` |
| `ffmpeg_decoder` | three codewords, re-initialised while at most six objects are lost | `TypeOK`, `SuccessMeansUsable`, `DecodingLosesNothing` |
| `ffmpeg_encoder` | two users, two packets per codec, initialised while at most six objects are lost | `PacketReleased`, `UsableUntilNewFails`, `NeverTheOtherCodec`, `DecodersGetThePacket`, `StubAgrees` |
| `utilities` | five lists of one or two files, INT_MAX of 31, a pipe of 13 bytes, one short write, a recording of 10 bytes, samples at the ends of their range; both builds of each program, three libraries, two codecs | `TypeOK`, `FramesKeepTheirPlace`, `NothingLost`, `RecordingInBounds`, `SignSurvives`, `EndOrSpin` |
| `stream_422` | silence, a mixed frame and an onset per channel, history of 8 values, both byte orders | `TypeOK`, `InStep`, `SyncOnTheWire`, `CheapestFlip`, `Decodable`, `NewStreamDetected` |
| `stream_hd100` | silence and a loud frame of both signs per channel, history of 256 values | `NewStreamDetected`, `Decodable` |
| `mathex_shift15`, `ffmpeg_destroy`, `stream_false_start` | | three findings, see below |

Why the bounds are enough:

* *Encode.* The three frames hold both ends of every table, both signs and
  runners-up above and below the decision. A flip falls on LH, LL (of the second
  channel) or HH: the least certain decision is that of LL in mixed frames, of HH in
  onsets, and all are equal in silence, so ties within and across the channels occur.
  HL is never flipped here, nor LL of the first channel; `FlipIsCheapest` is proved for
  any decisions. A history of 8 values keeps
  three of the four bits of the last frame, those of LL and LH, enough for the dither
  signs of the channels to vary and to differ; the proofs hold for the 2^24 values of
  the code and for any frames.
* *Search.* A comparison changes only at a border; all other steps are
  covered by the proof.
* *Inverter.* No bound on the state: `unk10` takes every value the sampled
  indices lead to, with the real leak and ceiling. `NeverDriftsApart` quantifies
  over all cells in each state, for an inverter one unit above it and one 222 units
  above it (from these follow all distances, one by one); `SumFits` over both signs of each and the least
  and the largest dither, between which the difference is monotone; `beat` only
  makes every frame a step.
* *Processor.* Its whole state space is too large. Seven frames wrap a ring of
  three twice. The weights need some eighty and some two hundred frames to reach
  their bounds; the patterns hold every product of signs steady and have exact
  zeros. A tap covers all but the last bit of its range in some 2500 frames and is
  turned round after 3000. The proofs cover every sequence of signs and
  differences; `GainBounded` is of these sequences only. `Settles` is checked after
  350 frames of silence, which is enough for signals this small; the proof takes
  1519 and the width, for any signal of 24 bits. The
  differences are small because the sums of large ones leave the integers of TLC;
  the loop is linear in them but for the rounding.
* *Qmf.* The outer rings wrap at every eighth call, the inner ones at the
  sixteenth; the coefficients are asymmetric, so that a reversed or a shifted
  window shows. The tunes are quiet because the inner sums of loud ones leave the
  integers of TLC. In the first call only the outermost coefficients count, and
  every output is monotone in each sample. The HD outer bank has the
  same coefficients, samples 256 times as large and a shift longer by eight
  bits, so its first output is the same fraction.
* *FfmpegDecoder.* Every combination of field values is reached before the
  count of lost objects ends.
* *FfmpegEncoder.* Two users are all it takes for one to change what the other
  holds; the packets have bytes that differ in every place, so that two swapped
  ones show. The proofs hold for any users and packets.
* *Utilities.* The files are empty, whole, with a remainder, truncated, and longer
  than an int can say in both ways (a count that becomes negative and one that
  becomes small). The pipe is no multiple of a frame, nor is the recording. More
  files or frames repeat the same steps; the proofs hold for all of them.
* *Stream.* The codewords in question come from silence and from positive full
  scale; any other frame gives other codewords, which only the count sees. An onset
  after silence gives the announcing pair in the middle of a stream, so `InStep` is
  checked across false starts as well as losses. The
  HD instance needs the history of two frames for the dither signs to vary.

**Fairness.** `Inverter` assumes `WF_vars(Next)`: the encoder is called for every
four samples as long as there is audio (`utils/aptxenc.c`). It is what
`SilenceResets` needs. `Utilities` assumes `WF_vars(EncNext)` and
`WF_vars(DecNext)`: the operating system runs both processes whenever they are
not blocked on the pipe; `EndOrSpin` needs both. Nothing is assumed of failures
or of the length of a write. All other properties are safety properties.

**Deadlock** is checked for `Inverter` and `Stream`, which never stop: encoder, link
and decoder never wait for each other. The search ends, both programs may, a
crashed or forgotten structure takes no more calls, and the runs with a
`Horizon` end there; those configurations switch the check off.

### Findings

* `aptx_ffmpeg_destroy` has its guard the wrong way round
  (`aptx-ffmpeg.c:91`): it returns for every real handler (`ffmpeg_destroy`) and
  goes on for NULL, which it then dereferences. `openaptx.h:116-118` promises both
  to work. `aptx-freeaptx.c:55` has the same guard.
* `aptxbtdec_decodestereo` rebuilds its context "if new stream was detection"
  (`aptx-ffmpeg.c:398`), but the announcing pair can come in the middle of a
  stream, when both channels go from silence to the same positive onset
  (`stream_false_start`). The compiled 422 encoder does emit it: of 200,000
  sudden onsets of noise after silence, equal on both channels, 843 gave the
  pair 4BBF 4BBF. From then on decoder and encoder disagree about the cycle
  of marks.
* `rshift15` (and `rshift23`) round an exact half to the even neighbour, not
  down as the comments in `mathex.h:26` and `:30` say (`mathex_shift15`). The
  arithmetic is right for the codec; the comment is not.

Three things the models show are not contradicted by any promise of the repository,
and so are part of a property instead. With libsndfile aptxenc reads a truncated
file for ever (`aptxenc.c:107` goes on without counting, `Spinning` in
`EndOrSpin`); a file of more than INT_MAX samples is encoded in part or not at
all, without a message (`AsInt`); and when libavcodec cannot allocate a context for a
stream that announces itself, aptxdec, which does not look at the result
(`aptxdec.c:91`, `:109`), crashes at its next decode call (`DecodeNothing`, second half of
`NothingLost`).

## What is proved

Eight modules hold theorems, checked by TLAPS to the last leaf; `PROJECT.json`
lists the main ones. They assume only what the ASSUMEs of the modules say of
the constants, which TLC evaluates for the real tables in the runs (those of both
codecs, but for `Qmf`, where the coefficients of HD are the same numbers and only
the samples and `OuterHalf` are 256 times as large).

* **`StreamProofs`**, for any table sizes, history width, audio, losses and
  restarts. `TypeOK`, `CheapestFlip`, `Decodable` and `SyncOnTheWire` of the
  encoder are not inductive: a flip keeps an index in its table only because the
  runner-up is adjacent to the decision and on the same side of the sign
  (`RunnerUpAdjacent`); the mark is on the wire only because after `InsertSync`
  the parity is the planted one (`ParityPlanted`); the codeword reads back only
  because what was consumed is what the quantisers still hold when they are packed
  (`ConsumedIsSent`). `IInv` is the conjunction of these with the types,
  `Invariance` its preservation by each of the six actions. `ReadsBack` rests on
  lemmas about mixed-radix fields and two's complement. `DitherProductExact` shows
  that the two halves of the product the dither is made of, which the model keeps
  apart for TLC, are those of the 64-bit product; `DithersOf32Bits` that every dither
  meets `DithersAssumption` of `Inverter`. `MarksEveryEighthFrame` is
  a refinement: each step of `Encode` is `Frame`, `Restart` or a stutter of
  `SyncPattern`. `StreamImplementsEncoder` carries all of it over to the
  composition. Of that, `LinkInv` is the invariant: `FirstFrame` follows a frame that
  starts a stream through every stage (history and dither cleared, the innermost
  cells, then the fields of the announcing codeword), and `Counted` says which
  count of the decoder goes with which place of the encoder in its cycle, before
  and after the frame is on its way. `StartsAreNoticed` and `StaysInStep` follow.
* **`SearchProofs`**, for any ascending tables whose size is one of those a
  halved power of two fits, any step and magnitude. `FindsCell` speaks of the end of
  the loop only; `Bracketed` is its invariant: the cell found so far is not
  above the magnitude, and the border one `Gap` further (twice the next
  stride, one in the end) is, or is the end of the table. `FindsCell` follows since scaling
  by a step keeps the order of the table.
* **`InverterProofs`**, for any tables that meet the assumptions. `LogInRange`
  is the invariant: the logarithm is between zero and the ceiling of the
  subband. The shift is defined because of what is assumed of base and ceiling;
  `DrawsTogether` is about any two logarithms: fed the same index they keep their
  order, because the rounding is monotone, and because of the leak get closer until they
  are less than an octave apart, so a decoder that joins late comes near the steps of
  the encoder, though it need not reach them. `NeverDriftsApart` follows. `StepStaysAlive` needs that the first step of the octave survives
  the longest shift (`FloorAssumption`), `StepAlwaysGrows` that the octave ascends
  and ends below twice its first step (`OctaveAssumption`): the joint between two
  octaves is where it could fail. `UnclampedFits` (that is, `SumFits`) compares the
  entry with the border below it, which is what the quantiser guarantees of the
  difference: a largest step times a largest entry would not fit
  (`EntriesAssumption`). It holds for both signs of an index and any 32-bit dither.
  The product in parts is shown to be the exact one, and so is the dithered entry
  (`DitheredIsExact`). `EveryDifferenceFits` adds the clamped differences of HD, and
  `QuantisedFits` takes the premise away: with `FindsCell` of `Search` in the place of
  "an encoder can choose", for every magnitude of 24 bits the cell found and the
  runner-up below it both come back as a difference with room. `InnermostDecays`
  says that a frame in the innermost cell lowers the logarithm or leaves it at
  zero.
* **`ProcessorProofs`**, for every sequence of signs and differences and any
  width. `Triangle` is the invariant of the weights: `unk3` within its bound and
  `unk2` within the bound that depends on it. It lies inside Jury's triangle
  (`PredictorStable`) and leaves room for the next sums (`WeightsLeaveRoom`,
  `SumsAlwaysFit`); independent bounds would not. `RingInv` adds to the types of
  the ring that both its halves are equal (`Mirrored`): without it a read beyond
  the width says nothing about the window. `AlwaysPaired` and the refinement
  `RingIsAWindow` follow; `TapsStayInRange` is separate. Each step of `Processor`
  is one of either half (`ProcessorImplementsHalves`), so all of that holds with
  the loop closed (`ProcessorSafe`). `ScaledSumExact`: the sum of products in parts
  that TLC can hold is, over any set of taps, the sum of the products shifted by 22.
  `PredictionCutsNothing` then puts ring, taps, weights and outputs together: with
  differences within `Room`, the bound `SumFits` promises, no 64-bit sum overflows
  and no assignment to an `int32_t` before a clamping cuts anything off. So the
  model may clamp the sum itself, and what is proved of the inverter
  (`QuantisedFits`) is what the prediction needs. `ComesToRest` proves `Settles` for
  any signal. Its invariant, `SilenceInv`, follows a run of silent frames: it empties
  the window from its end (`Forgotten`), then the taps predict zero (`TapsSilent`),
  no sign moves the weights and they lose a 256th each frame (`WeightsFaded`: at
  most `Faded(n)` after n frames, a quarter after 1473), and from there on every two
  frames halve the last two values (`ValuesHalved`). It needs `Triangle`, for the
  weights to start from, and 24 bits of output (`OutputsOf24Bits`).
* **`FfmpegDecoderProofs`**, for any codewords. That a success can be used rests
  on which of the three pointers can be null together.
* **`FfmpegEncoderProofs`**, for any users and packets. `Structure` is the
  invariant: which shapes of the structure a failing initialisation leaves, and that
  the codewords at hand are those of a user whose codec is the current one and
  were made of the packet remembered. `PacketsReleased`, `StaysUsable` and
  `OwnCodecOnly` are read off it; `DecodersGetPackets` and `StubsAgree` are
  arithmetic on bytes from there.
* **`UtilitiesProofs`**, for any files, pipe, recording and samples. `Counts` and
  `Whole` say that without a short write the pipe holds whole frames,
  `Continues` that they are the ones between the last that was heard and the last
  that was read, in order, and `Finished` that nothing is between when both
  programs have ended. `FramesStayInPlace` follows, and with `ContextLost`, which says how aptxdec can be left
  without a context, `NoFrameIsLost`;
  `RecordingStaysInBounds` has an invariant of its own about where frames of the
  stub begin (`FromRecording`). `SignsSurvive`, `LibrariesTakeTheSame`,
  `SoundFits` and `RawComesBack` are about the conversions of samples. `TypesRight`
  needs more than types (`Limits`): the truncated count may be negative, and its
  counter stays an int only because a frame that is being encoded or written is
  taken off a counter that has room for it. Of `EndOrSpin` the safety half is
  proved: every step lowers `Remaining`, six naturals in lexicographic order (files,
  whether one is being opened, its samples, the way to the pipe, the bytes in it,
  the way out), or aptxenc spins and never stops (`EveryStepProgresses`); and a full
  and an empty pipe never hold both programs up (`NeverBothWait`, for a pipe of two
  frames or more).
* **`QmfProofs`**, for any number and values of coefficients, any samples and a
  stream of any length. `FilterBank`: `FilterInv` says of each of the six rings
  that both halves are the last values of the sequence it stands for, in the
  order the index prescribes; a window read forwards or backwards is then a
  window of the history, and equal windows give equal sums. `StartIsQuiet` takes
  sums of products apart: a window with two values in it gives two products,
  which the assumption on the outermost coefficients (`QuietAssumption`) makes
  small enough to be rounded to zero. `HalfDown` and `HalfEven` say which tie test
  rounds down and which to the even neighbour, for every integer, `HalvesGoDown`
  and `HalvesGoEven` what that makes of each shift of the code.

The sums are folds over sets and sequences; what is proved of them goes by
induction, as a set of natural numbers that holds zero and all successors
(`SetInduction`), and rests on the definition of the folds.

Only model-checked:

* `SilenceResets` and `EndOrSpin`: liveness under fairness, and ENABLED, are out of
  reach of the prover. What each frame and each step does for them is proved
  (`InnermostDecays`; `EveryStepProgresses` and `NeverBothWait`); that enough of them
  follow is for the runs to show.
* `GainBounded`: the recursion changes its weights with each frame. Every pair in
  the triangle is stable by itself (`PredictorStable`), but a sequence of pairs
  chosen freely from it need not be, so a bound would have to use how slowly the
  weights move; we know of no inductive invariant that does so tightly enough.

## What is not modelled

* *Values of the signal path through the quantiser*: the distances `v1`..`v3` of
  `aptX_quantize_difference` and the difference it is given reach `Encode` as
  choices; `unk11` and `unk6`..`unk8` are modelled, but not fed with real audio.
  The products need 64 bits, beyond the integers of TLC: they are split in parts.
* *Byte swapping in the HD encoder*: the source says it is broken
  (`aptxhd100/main.c`), so `Shifts` is {0} there.
* *libavcodec*: only what `aptx-ffmpeg.c` relies on - it opens or fails, counts
  packets modulo eight, accepts or turns down. `Field` and `UnpackWord` of
  `Encode` say how a decoder reads a codeword and are marked external.
* *The structure of `aptx-freeaptx.c`*: one pointer, with the life of the one in
  `FfmpegDecoder` but no rebuilding. Its conversions are in `Codeword` and `Pcm`.
* *Options and messages of aptxenc and aptxdec, version strings of the libraries,
  the banner of the stub.*
* *Tests and inspection tools, sample data, build files, archived binaries*: no
  behaviour of their own.

## Plan

The order is that of importance: what both ends of the link must agree on comes
first, then the state the sound depends on, then the API around it.

1. Done: `Encode` and `SyncPattern`, `Search`, `Inverter`, `Predictor`,
   `PredictionFilter`, `Qmf`, `Mathex`, `FfmpegDecoder`, `Stream`.
2. Done: `Processor`, which closes the loop of the prediction; `unk11` and
   the room it leaves (`SumFits`); the encoder half of `aptx-ffmpeg.c`; codewords and
   samples in all backends; aptxenc and aptxdec over a pipe; and the proofs about
   them named above.
3. Done: proofs about the rings of `Qmf` and its first call, about the
   composition in `Stream`, the real tables of `Inverter`, the sums of `Processor`,
   the encoder structure, and the types of `Utilities`.
4. Done: silence in the closed loop (`ComesToRest`), signs and dithers of the
   inverter, the search that limits what it is given, the dithers the encoder makes,
   and the step arguments of both liveness properties.
5. Left: a bound on the gain of the closed loop; the distances `v1`..`v3` of the
   quantiser; a module that composes `Search`, `Inverter` and `Processor` with real
   audio. Its parts meet already: `DithersOf32Bits` gives `QuantisedFits` what it
   needs of the dither, and that gives `PredictionCutsNothing` the differences.

## Running

    tlc -workers 2 -config MCStream422.cfg MCStream
    tlapm StreamProofs.tla

Each run of `PROJECT.json` names its module and configuration; the longest,
`inverter`, takes about two minutes, and so do `stream_422` and `utilities`.
