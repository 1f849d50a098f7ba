---------------------------- MODULE SearchProofs ----------------------------
(***************************************************************************)
(* The search for a quantiser cell is correct for any tables in ascending  *)
(* order, any steps and any magnitudes.                                    *)
(***************************************************************************)
EXTENDS Search, TLAPS

(* The distance from the cell found so far to the border that bounds the   *)
(* search from above: twice the next stride, and one in the end.           *)
Gap == IF n = 0 THEN 1 ELSE 2 * n

(* What the variables that the loop leaves alone are, and the strides a    *)
(* halved power of two goes through.                                       *)
Typed ==
    /\ subband \in Subbands
    /\ a \in Nat
    /\ x \in Nat
    /\ i \in Nat
    /\ n \in {0, 1, 2, 4, 8, 16, 32, 64, 128}

(* The cell lies between a border that is not above the magnitude, or the  *)
(* beginning, and one that is above it, or the end of the table.           *)
Bracketed ==
    /\ i + Gap <= Size[subband] - 1
    /\ i > 0 => NotAbove(i)
    /\ i + Gap < Size[subband] - 1 => ~NotAbove(i + Gap)

IInv == Typed /\ Bracketed

-----------------------------------------------------------------------------

(* Scaling by a step that is not negative keeps an order.                  *)
LEMMA Scaling ==
    ASSUME NEW s \in Nat, NEW t \in Int, NEW u \in Int, t <= u
    PROVE  s * t <= s * u
BY SMT

(* A border below one that is not above the magnitude is not above it: the *)
(* tables ascend and the steps are not negative.                           *)
LEMMA Ascending ==
    ASSUME Typed,
           NEW j \in 1..Size[subband] - 1, NEW k \in 1..Size[subband] - 1,
           j <= k, NotAbove(k)
    PROVE  NotAbove(j)
<1> DEFINE t == Tables[subband]
<1>1. /\ t \in [0..Size[subband] - 1 -> Int]
      /\ t[j] <= t[k]
  BY TablesAssumption DEF Typed
<1>2. Size[subband] \in Nat
  BY SizeAssumption DEF Typed
<1>3. t[j] \in Int /\ t[k] \in Int
  <2>1. j \in 0..Size[subband] - 1 /\ k \in 0..Size[subband] - 1
    BY <1>2, SMT
  <2> QED
    BY <1>1, <2>1
<1>4. x \in Nat /\ a \in Nat /\ Unit \in Nat
  BY UnitAssumption DEF Typed
<1>5. x * t[j] <= x * t[k]
  BY <1>1, <1>3, <1>4, Scaling
<1>6. x * t[k] <= a * Unit
  BY DEF NotAbove
<1>7. x * t[j] \in Int /\ x * t[k] \in Int /\ a * Unit \in Int
  BY <1>3, <1>4, SMT
<1>8. x * t[j] <= a * Unit
  <2> HIDE DEF t
  <2> DEFINE p == x * t[j]
             q == x * t[k]
             r == a * Unit
  <2>1. p \in Int /\ q \in Int /\ r \in Int /\ p <= q /\ q <= r
    BY <1>5, <1>6, <1>7 DEF t
  <2> HIDE DEF p, q, r
  <2>2. p <= r
    BY <2>1, SMT
  <2> QED
    BY <2>2 DEF p, r
<1> QED
  BY <1>8 DEF NotAbove

-----------------------------------------------------------------------------

(* The first stride is half a power of two, and twice it spans the table.  *)
LEMMA Beginning == Init => IInv
<1> SUFFICES ASSUME Init PROVE IInv
  OBVIOUS
<1>1. /\ subband \in Subbands
      /\ Size[subband] \in {3, 5, 9, 17, 33, 65, 257}
  BY SizeAssumption DEF Init
<1>2. /\ n = Size[subband] \div 2
      /\ i = 0
      /\ a \in Nat
      /\ x \in Nat
  BY <1>1, StepsAssumption, MagnitudesAssumption DEF Init, FirstStride
<1>3. /\ n \in {1, 2, 4, 8, 16, 32, 128}
      /\ 2 * n = Size[subband] - 1
  BY <1>1, <1>2, SMT
<1>4. Typed
  BY <1>1, <1>2, <1>3 DEF Typed
<1>5. Gap = Size[subband] - 1
  BY <1>3 DEF Gap
<1>6. Bracketed
  BY <1>1, <1>2, <1>5, SMT DEF Bracketed
<1> QED
  BY <1>4, <1>6 DEF IInv

(* A look halves the bracket, whichever way it turns out.                  *)
LEMMA Halving == IInv /\ Loop => IInv'
<1> SUFFICES ASSUME IInv, Loop PROVE IInv'
  OBVIOUS
<1> USE DEF IInv
<1>1. /\ n \in {1, 2, 4, 8, 16, 32, 64, 128}
      /\ n' = n \div 2
      /\ UNCHANGED <<subband, a, x>>
      /\ i' = IF NotAbove(i + n) THEN i + n ELSE i
  BY SMT DEF Typed, Loop, Look
<1>2. Size[subband] \in Nat /\ i \in Nat
  BY SizeAssumption DEF Typed
<1>3. Gap = 2 * n
  BY <1>1, SMT DEF Gap
<1>4. Gap' = n /\ n' \in {0, 1, 2, 4, 8, 16, 32, 64, 128}
  BY <1>1, SMT DEF Gap
<1>5. Typed'
  BY <1>1, <1>2, <1>4, SMT DEF Typed
<1>6. \A j : NotAbove(j)' <=> NotAbove(j)
  BY <1>1 DEF NotAbove
<1>7. i + 2 * n <= Size[subband] - 1
  BY <1>3 DEF Bracketed
<1>8. CASE NotAbove(i + n)
  <2>1. i' = i + n
    BY <1>1, <1>8
  <2>2. i' + Gap' = i + Gap
    BY <1>1, <1>2, <1>3, <1>4, <2>1, SMT
  <2>3. Bracketed'
    <3>1. i' + Gap' <= Size[subband]' - 1
      BY <1>1, <2>2 DEF Bracketed
    <3>2. NotAbove(i')
      BY <1>8, <2>1
    <3>3. i' + Gap' < Size[subband] - 1 => ~NotAbove(i' + Gap')
      BY <2>2 DEF Bracketed
    <3>4. Bracketed' <=> /\ i' + Gap' <= Size[subband]' - 1
                         /\ i' > 0 => NotAbove(i')
                         /\ i' + Gap' < Size[subband] - 1 => ~NotAbove(i' + Gap')
      BY <1>1 DEF Bracketed, NotAbove
    <3> QED
      BY <3>1, <3>2, <3>3, <3>4
  <2> QED
    BY <1>5, <2>3
<1>9. CASE ~NotAbove(i + n)
  <2>1. i' = i
    BY <1>1, <1>9
  <2>2. i' + Gap' = i + n
    BY <1>4, <2>1
  <2>3. i + n <= Size[subband] - 1
    BY <1>1, <1>2, <1>7, SMT
  <2>4. Bracketed' <=> /\ i' + Gap' <= Size[subband]' - 1
                       /\ i' > 0 => NotAbove(i')
                       /\ i' + Gap' < Size[subband] - 1 => ~NotAbove(i' + Gap')
    BY <1>1 DEF Bracketed, NotAbove
  <2>5. Bracketed'
    BY <1>1, <1>9, <2>1, <2>2, <2>3, <2>4 DEF Bracketed
  <2> QED
    BY <1>5, <2>5
<1> QED
  BY <1>8, <1>9

(* The bracket is an invariant of the search.                              *)
THEOREM Bracket == Spec => []IInv
<1>1. Init => IInv
  BY Beginning
<1>2. IInv /\ [Next]_vars => IInv'
  <2> SUFFICES ASSUME IInv, [Next]_vars PROVE IInv'
    OBVIOUS
  <2>1. CASE Next
    BY <2>1, Halving DEF Next
  <2>2. CASE UNCHANGED vars
    BY <2>2 DEF vars, IInv, Typed, Bracketed, Gap, NotAbove
  <2> QED
    BY <2>1, <2>2
<1> QED
  BY <1>1, <1>2, PTL DEF Spec

-----------------------------------------------------------------------------

(* The cell the search returns has a border on either side in the table:   *)
(* aptX_quantize_difference reads both of them.                            *)
THEOREM CellInTable == Spec => []TypeOK
<1>1. IInv => TypeOK
  <2> SUFFICES ASSUME IInv PROVE TypeOK
    OBVIOUS
  <2>1. Size[subband] \in Nat
    BY SizeAssumption DEF IInv, Typed
  <2>2. Gap >= 1 /\ Gap \in Nat
    BY SMT DEF IInv, Typed, Gap
  <2>3. i \in 0..Last
    BY <2>1, <2>2, SMT DEF IInv, Typed, Bracketed, Last
  <2> QED
    BY <2>3, SMT DEF IInv, Typed, TypeOK
<1> QED
  BY <1>1, Bracket, PTL

(* The search of aptX_search_quant_coeff ends in the cell the magnitude    *)
(* falls in, whatever the table, the step and the magnitude.               *)
THEOREM SearchCorrect == Spec => []FindsCell
<1>1. IInv => FindsCell
  <2> SUFFICES ASSUME IInv, n = 0, NEW j \in 1..Last
               PROVE  j <= i <=> NotAbove(j)
    BY DEF FindsCell, NotAbove
  <2> USE DEF IInv
  <2>1. Size[subband] \in Nat /\ i \in Nat
    BY SizeAssumption DEF Typed
  <2>2. Gap = 1
    BY DEF Gap
  <2>3. j \in 1..Size[subband] - 1
    BY <2>1, SMT DEF Last
  <2>4. ASSUME j <= i PROVE NotAbove(j)
    <3>1. i \in 1..Size[subband] - 1 /\ NotAbove(i)
      BY <2>1, <2>2, <2>3, <2>4, SMT DEF Bracketed
    <3> QED
      BY <2>3, <2>4, <3>1, Ascending
  <2>5. ASSUME ~(j <= i) PROVE ~NotAbove(j)
    <3>1. /\ i + 1 \in 1..Size[subband] - 1
          /\ i + 1 <= j
          /\ i + 1 < Size[subband] - 1
      BY <2>1, <2>3, <2>5, SMT DEF Last
    <3>2. ~NotAbove(i + 1)
      BY <2>2, <3>1 DEF Bracketed
    <3> QED
      BY <2>3, <3>1, <3>2, Ascending
  <2> QED
    BY <2>4, <2>5
<1> QED
  BY <1>1, Bracket, PTL
=============================================================================
