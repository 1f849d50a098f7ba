---------------------------- MODULE MCUtilities -----------------------------
(***************************************************************************)
(* Utilities with one or two files: empty, of one and of two frames with a *)
(* remainder, truncated, and with counts of samples that an int cannot     *)
(* hold.  INT_MAX is 31.                                                   *)
(***************************************************************************)
EXTENDS Utilities

File(promised, present) == [promised |-> promised, present |-> present]

MCInputs ==
    {<<File(0, 0)>>, <<File(8, 8), File(22, 22)>>, <<File(16, 9), File(8, 8)>>,
     <<File(40, 40)>>, <<File(72, 72)>>}

MCDecoded == {-8388608, -1, 255, 8388607}
=============================================================================
