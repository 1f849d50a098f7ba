------------------------ MODULE FfmpegDecoderProofs -------------------------
(***************************************************************************)
(* The life of a decoder structure, for every set of codewords and any     *)
(* number of initialisations.                                              *)
(***************************************************************************)
EXTENDS FfmpegDecoder, TLAPS

(* An object is counted once.                                              *)
LEMMA HeldType == \A field : Held(field) \in {0, 1}
BY DEF Held

(* The objects a structure refers to are a natural number.                 *)
LEMMA ReferencedType == Referenced \in Nat
BY HeldType DEF Referenced

(* The types are right.                                                    *)
THEOREM TypeCorrect == Spec => []TypeOK
<1>1. Init => TypeOK
  <2>1. 0 \in 0..MaxLost /\ 0 \in 0..7
    BY MaxLostAssumption
  <2> QED
    BY <2>1 DEF Init, TypeOK
<1>2. TypeOK /\ [Next]_vars => TypeOK'
  <2> SUFFICES ASSUME TypeOK, [Next]_vars PROVE TypeOK'
    OBVIOUS
  <2> USE DEF TypeOK
  <2>1. ASSUME NEW endian \in BOOLEAN, NEW failing \in Failures,
               DecInit(endian, failing)
        PROVE  TypeOK'
    <3>1. lost' \in 0..MaxLost
      BY <2>1, ReferencedType, MaxLostAssumption DEF DecInit
    <3>2. magic' \in {0, Magic(TRUE), Magic(FALSE)}
      BY <2>1 DEF DecInit
    <3>3. /\ av_ctx' \in {"null", "closed", "open"}
          /\ av_packet' \in {"null", "allocated"}
          /\ av_frame' \in {"null", "allocated"}
          /\ ready' \in BOOLEAN
          /\ rv' \in {0, -1}
          /\ fed' = 0
          /\ crashed' \in BOOLEAN
      BY <2>1 DEF DecInit
    <3>4. fed' \in 0..7
      BY <3>3, SMT
    <3> QED
      BY <3>1, <3>2, <3>3, <3>4, Zenon
  <2>2. ASSUME NEW code \in [0..1 -> Codewords], NEW failing \in Reinits,
               NEW accepted \in BOOLEAN, Decode(code, failing, accepted)
        PROVE  TypeOK'
    <3>1. CASE av_ctx = "null"
      BY <2>2, <3>1 DEF Decode, Crash, fields
    <3>2. CASE av_ctx # "null" /\ ~IsNewStream(code)
      <4>1. rv' \in {0, -1} /\ fed' \in 0..7
        BY <2>2, <3>2 DEF Decode, Feed
      <4> QED
        BY <2>2, <3>2, <4>1 DEF Decode
    <3>3. CASE av_ctx # "null" /\ IsNewStream(code)
      <4>1. lost' = lost
        BY <2>2, <3>3 DEF Decode, Held, AfterFree
      <4>2. av_ctx' \in {"null", "closed", "open"}
        BY <2>2, <3>3 DEF Decode, Rebuilt, Reinits
      <4>3. rv' \in {0, -1} /\ fed' \in 0..7
        BY <2>2, <3>3 DEF Decode, Feed
      <4> QED
        BY <2>2, <3>3, <4>1, <4>2, <4>3 DEF Decode
    <3> QED
      BY <3>1, <3>2, <3>3
  <2>3. ASSUME NEW dec \in {"dec", "NULL"}, Destroy(dec) PROVE TypeOK'
    BY <2>3 DEF Destroy, Crash, fields
  <2>4. CASE UNCHANGED vars
    BY <2>4 DEF vars, fields
  <2> QED
    BY <2>1, <2>2, <2>3, <2>4 DEF Next, DecodeStereo
<1> QED
  BY <1>1, <1>2, PTL DEF Spec

(* As long as the calls on a structure return 0 everything the next one    *)
(* goes through is there, for every stream of codewords and whichever call *)
(* of libavcodec fails.  The property is inductive by itself: a decode     *)
(* call that meets a context that is not open cannot return 0, unless it   *)
(* has opened a new one first.                                             *)
THEOREM SuccessIsUsable == Spec => []SuccessMeansUsable
<1>1. Init => SuccessMeansUsable
  BY DEF Init, SuccessMeansUsable
<1>2. SuccessMeansUsable /\ [Next]_vars => SuccessMeansUsable'
  <2> SUFFICES ASSUME SuccessMeansUsable, [Next]_vars PROVE SuccessMeansUsable'
    OBVIOUS
  <2> USE DEF SuccessMeansUsable
  <2>1. ASSUME NEW endian \in BOOLEAN, NEW failing \in Failures,
               DecInit(endian, failing)
        PROVE  SuccessMeansUsable'
    BY <2>1, Zenon DEF DecInit
  <2>2. ASSUME NEW code \in [0..1 -> Codewords], NEW failing \in Reinits,
               NEW accepted \in BOOLEAN, Decode(code, failing, accepted)
        PROVE  SuccessMeansUsable'
    <3>1. CASE av_ctx = "null"
      BY <2>2, <3>1 DEF Decode, Crash, fields
    <3>2. CASE av_ctx # "null" /\ ~IsNewStream(code)
      BY <2>2, <3>2 DEF Decode, Feed
    <3>3. CASE av_ctx # "null" /\ IsNewStream(code)
      BY <2>2, <3>3 DEF Decode, Feed, Rebuilt
    <3> QED
      BY <3>1, <3>2, <3>3
  <2>3. ASSUME NEW dec \in {"dec", "NULL"}, Destroy(dec)
        PROVE  SuccessMeansUsable'
    BY <2>3 DEF Destroy, Crash, fields
  <2>4. CASE UNCHANGED vars
    BY <2>4 DEF vars, fields
  <2> QED
    BY <2>1, <2>2, <2>3, <2>4 DEF Next, DecodeStereo
<1> QED
  BY <1>1, <1>2, PTL DEF Spec

(* Decoding loses no memory, however often the context is rebuilt in the   *)
(* middle of a stream and whichever of these rebuildings fail.             *)
THEOREM DecodingKeepsMemory == Spec => DecodingLosesNothing
<1>1. TypeOK /\ [Next]_vars => [DecodeStereo => lost' = lost]_vars
  <2> SUFFICES ASSUME TypeOK, NEW code \in [0..1 -> Codewords],
                      NEW failing \in Reinits, NEW accepted \in BOOLEAN,
                      Decode(code, failing, accepted)
               PROVE  lost' = lost
    BY DEF DecodeStereo
  <2>1. lost + 0 = lost
    BY DEF TypeOK
  <2> QED
    BY <2>1 DEF Decode, Crash, Held, AfterFree
<1> QED
  BY <1>1, TypeCorrect, PTL DEF Spec, DecodingLosesNothing
=============================================================================
