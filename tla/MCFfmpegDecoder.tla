-------------------------- MODULE MCFfmpegDecoder ---------------------------
(***************************************************************************)
(* FfmpegDecoder with the announcing codeword of either byte order and one *)
(* other codeword.                                                         *)
(***************************************************************************)
EXTENDS FfmpegDecoder

MCCodewords == {Magic(TRUE), Magic(FALSE), 0}
=============================================================================
