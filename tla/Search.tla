------------------------------- MODULE Search -------------------------------
(***************************************************************************)
(* aptX_search_quant_coeff: the binary search for the cell of a quantiser  *)
(* table that a magnitude falls in.  A cell begins where its entry of the  *)
(* table, scaled by the step, is not above the magnitude; the loop halves  *)
(* the stride and never looks at entry 0 nor at the last one.              *)
(***************************************************************************)
EXTENDS Integers

CONSTANTS
    Subbands,    \* those of the codecs the search is used for
    Tables,      \* subband_param_bit16_sl1 per subband, from entry 0 on
    Size,        \* entries per subband, the last argument of the search
    Steps,       \* steps that occur (unk9 of the inverter)
    Magnitudes,  \* magnitudes that occur, per subband
    Unit         \* a step of Unit leaves the table as it is, 2 ^ 24

(* The sizes are one more than a power of two, so that halving the stride  *)
(* ends at one without having dropped a cell.                              *)
ASSUME SizeAssumption == Size \in [Subbands -> {3, 5, 9, 17, 33, 65, 257}]
ASSUME TablesAssumption ==
    \A sb \in Subbands :
      /\ Tables[sb] \in [0..Size[sb] - 1 -> Int]
      /\ \A j, k \in 1..Size[sb] - 1 : j <= k => Tables[sb][j] <= Tables[sb][k]
ASSUME StepsAssumption == Steps \subseteq Nat
ASSUME MagnitudesAssumption == \A sb \in Subbands : Magnitudes[sb] \subseteq Nat
ASSUME UnitAssumption == Unit \in Nat \ {0}

VARIABLES
    subband,
    a,   \* the magnitude
    x,   \* the step
    i,   \* the cell found so far
    n    \* the stride

vars == <<subband, a, x, i, n>>

(* xx * data[j] <= aa, without the common factor.                          *)
NotAbove(j) == x * Tables[subband][j] <= a * Unit

(* A slip: the stride begins with the size itself.                         *)
FirstStrideLong(size) == size - 1

FirstStride(size) == size \div 2

Init ==
    /\ subband \in Subbands
    /\ a \in Magnitudes[subband]
    /\ x \in Steps
    /\ i = 0
    /\ n = FirstStride(Size[subband])

(* A slip: a magnitude on the border stays in the cell below.              *)
LookStrict ==
    i' = IF x * Tables[subband][i + n] < a * Unit THEN i + n ELSE i

Look == i' = IF NotAbove(i + n) THEN i + n ELSE i

Loop ==
    /\ n > 0
    /\ Look
    /\ n' = n \div 2
    /\ UNCHANGED <<subband, a, x>>

Next == Loop

Spec == Init /\ [][Next]_vars

-----------------------------------------------------------------------------
(* Properties                                                              *)

Last == Size[subband] - 2

(* The cell stays one of those that have a border on either side, so that  *)
(* aptX_quantize_difference finds both of them in the table.               *)
TypeOK ==
    /\ subband \in Subbands
    /\ a \in Nat
    /\ x \in Nat
    /\ i \in 0..Last
    /\ n \in Nat

(* The search ends in the cell the magnitude falls in: every border up to  *)
(* it is not above the magnitude, every one beyond is.  For a step of zero *)
(* that is the last cell.                                                  *)
FindsCell ==
    n = 0 => \A j \in 1..Last : j <= i <=> x * Tables[subband][j] <= a * Unit
=============================================================================
