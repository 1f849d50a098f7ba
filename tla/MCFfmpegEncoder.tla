-------------------------- MODULE MCFfmpegEncoder ---------------------------
(***************************************************************************)
(* FfmpegEncoder with the packet of a new stream and one of all different  *)
(* bytes, in each codec.                                                   *)
(***************************************************************************)
EXTENDS FfmpegEncoder, TLC

CONSTANTS alice, bob

MCUsers == {alice, bob}

Symmetry == Permutations(MCUsers)

MCPackets ==
    [APTX |-> {<<75, 191, 75, 191>>, <<1, 128, 255, 0>>},
     APTX_HD |-> {<<115, 190, 255, 115, 190, 255>>, <<1, 128, 255, 0, 254, 7>>}]
=============================================================================
