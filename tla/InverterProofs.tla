--------------------------- MODULE InverterProofs ---------------------------
(***************************************************************************)
(* The step adaptation, the room the differences leave, and what the       *)
(* search has to do with that, for any tables that meet the assumptions.   *)
(***************************************************************************)
EXTENDS Inverter, TLAPS

(* The shift by 15 rounds to the nearest unit, an exact half to the even   *)
(* one.                                                                    *)
LEMMA RShift15HalfEven ==
    ASSUME NEW x \in Int
    PROVE  RShift15(x) \in Int /\ IsHalfEven(x, 32768, RShift15(x))
BY SMT DEF RShift15, RoundingShift, IsHalfEven, Nearest

(* Rounding two arguments less than one unit apart gives results that are  *)
(* equal or adjacent, in the same order.                                   *)
LEMMA RShift15Follows ==
    ASSUME NEW x \in Int, NEW y \in Int, x < y, y < x + 32768
    PROVE  RShift15(y) - RShift15(x) \in {0, 1}
<1> DEFINE r == RShift15(x)
           s == RShift15(y)
<1>1. /\ r \in Int /\ IsHalfEven(x, 32768, r)
      /\ s \in Int /\ IsHalfEven(y, 32768, s)
  BY RShift15HalfEven, SMT
<1> HIDE DEF r, s
<1>2. s - r \in -1..2
  BY <1>1, SMT DEF IsHalfEven, Nearest
<1>3. s - r # 2 /\ s - r # -1
  BY <1>1, SMT DEF IsHalfEven, Nearest
<1> QED
  BY <1>2, <1>3 DEF r, s

(* Clipping keeps equal or adjacent values equal or adjacent.              *)
LEMMA ClipFollows ==
    ASSUME NEW a \in Int, NEW b \in Int, b - a \in {0, 1}, NEW up \in Nat
    PROVE  /\ ClipRange(a, 0, up) \in 0..up
           /\ ClipRange(b, 0, up) - ClipRange(a, 0, up) \in {0, 1}
BY DEF ClipRange

(* One index takes two adjacent logarithms to equal or adjacent ones.      *)
LEMMA AdaptedFollows ==
    ASSUME NEW u \in Nat, subband \in Subbands, NEW c \in Entries(subband)
    PROVE  /\ Adapted(u, c) \in 0..Ceiling[subband]
           /\ Adapted(u + 1, c) - Adapted(u, c) \in {0, 1}
<1> DEFINE x == 32620 * u + 32768 * Incr[subband][c]
           y == 32620 * (u + 1) + 32768 * Incr[subband][c]
<1>1. Incr[subband][c] \in Int
  BY IncrAssumption DEF Entries
<1>2. x \in Int /\ y \in Int /\ y = x + 32620
  BY <1>1, SMT
<1>3. Ceiling[subband] \in Nat
  BY CeilingAssumption
<1>4. Adapted(u, c) = ClipRange(RShift15(x), 0, Ceiling[subband])
  BY DEF Adapted
<1>5. Adapted(u + 1, c) = ClipRange(RShift15(y), 0, Ceiling[subband])
  BY DEF Adapted
<1> HIDE DEF x, y
<1>6. /\ RShift15(x) \in Int /\ RShift15(y) \in Int
      /\ RShift15(y) - RShift15(x) \in {0, 1}
  BY <1>2, RShift15Follows, RShift15HalfEven, SMT
<1> QED
  BY <1>3, <1>4, <1>5, <1>6, ClipFollows

LogInRange == subband \in Subbands /\ unk10 \in 0..Ceiling[subband]

(* The logarithm stays between its floor and its ceiling.                  *)
LEMMA LogStaysInRange == Spec => []LogInRange
<1>1. Init => LogInRange
  BY CeilingAssumption DEF Init, LogInRange
<1>2. LogInRange /\ [Next]_vars => LogInRange'
  <2> SUFFICES ASSUME LogInRange, [Next]_vars PROVE LogInRange'
    OBVIOUS
  <2>1. ASSUME NEW a \in Indices[subband], Invert(a) PROVE LogInRange'
    <3>1. Entry(a) \in Entries(subband)
      BY IndicesAssumption, <2>1 DEF LogInRange
    <3>2. unk10 \in Nat
      BY CeilingAssumption DEF LogInRange
    <3>3. Adapted(unk10, Entry(a)) \in 0..Ceiling[subband]
      BY <3>1, <3>2, AdaptedFollows DEF LogInRange
    <3> QED
      BY <2>1, <3>3 DEF Invert, LogInRange
  <2>2. CASE UNCHANGED vars
    BY <2>2 DEF vars, LogInRange
  <2> QED
    BY <2>1, <2>2 DEF Next
<1> QED
  BY <1>1, <1>2, PTL DEF Spec

(* The shift count of the table look-up is defined for every index         *)
(* sequence and every table that satisfies the assumptions.                *)
THEOREM ShiftIsDefined == Spec => []ShiftDefined
<1>1. LogInRange => ShiftDefined
  <2> SUFFICES ASSUME LogInRange PROVE ShiftDefined
    OBVIOUS
  <2>1. /\ Base[subband] \in Int
        /\ Ceiling[subband] \div 256 <= -3 - Base[subband]
        /\ -3 - Base[subband] <= 31
        /\ Ceiling[subband] \in Nat
    BY BaseAssumption, CeilingAssumption DEF LogInRange
  <2>2. unk10 \in Nat /\ unk10 <= Ceiling[subband]
    BY <2>1 DEF LogInRange
  <2>3. unk10 \div 256 \in Nat /\ unk10 \div 256 <= Ceiling[subband] \div 256
    BY <2>1, <2>2
  <2>4. Ceiling[subband] \div 256 \in Int
    BY <2>1
  <2> QED
    BY <2>1, <2>3, <2>4 DEF ShiftDefined, Shift
<1> QED
  BY <1>1, LogStaysInRange, PTL

-----------------------------------------------------------------------------
(* The step                                                                *)

Power == [c \in 0..30 |-> 2 ^ c]

(* The powers of two that a shift divides by.                              *)
LEMMA Powers ==
    /\ \A c \in 0..30 : Power[c] \in Nat /\ Power[c] > 0
    /\ \A c \in 0..29 : Power[c + 1] = 2 * Power[c]
    /\ \A c, d \in 0..30 : c <= d => Power[c] <= Power[d]
<1>1. /\ Power[0] = 1 /\ Power[1] = 2 /\ Power[2] = 4 /\ Power[3] = 8
      /\ Power[4] = 16 /\ Power[5] = 32 /\ Power[6] = 64 /\ Power[7] = 128
      /\ Power[8] = 256 /\ Power[9] = 512 /\ Power[10] = 1024
      /\ Power[11] = 2048 /\ Power[12] = 4096 /\ Power[13] = 8192
      /\ Power[14] = 16384 /\ Power[15] = 32768 /\ Power[16] = 65536
      /\ Power[17] = 131072 /\ Power[18] = 262144 /\ Power[19] = 524288
      /\ Power[20] = 1048576 /\ Power[21] = 2097152 /\ Power[22] = 4194304
      /\ Power[23] = 8388608 /\ Power[24] = 16777216
      /\ Power[25] = 33554432 /\ Power[26] = 67108864
      /\ Power[27] = 134217728 /\ Power[28] = 268435456
      /\ Power[29] = 536870912 /\ Power[30] = 1073741824
  BY SMT DEF Power
<1>2. ASSUME NEW c \in 0..30 PROVE Power[c] \in Nat /\ Power[c] > 0
  BY <1>1, SMT
<1>3. ASSUME NEW c \in 0..29 PROVE Power[c + 1] = 2 * Power[c]
  BY <1>1, SMT
<1>4. ASSUME NEW c \in 0..30, NEW d \in 0..30, c <= d PROVE Power[c] <= Power[d]
  <2> DEFINE Ascends(n) ==
               \A a \in 0..30, k \in 0..n : a + k <= 30 => Power[a] <= Power[a + k]
  <2>1. Ascends(1)
    BY <1>2, <1>3, SMT
  <2>2. ASSUME NEW n \in Nat, Ascends(n) PROVE Ascends(2 * n)
    <3> SUFFICES ASSUME NEW a \in 0..30, NEW k \in 0..2 * n, a + k <= 30
                 PROVE  Power[a] <= Power[a + k]
      OBVIOUS
    <3> DEFINE h == k \div 2
               l == k - h
               b == a + h
    <3>1. /\ h \in 0..n /\ l \in 0..n /\ b \in 0..30
          /\ b + l = a + k /\ a + h = b /\ b <= 30
      OBVIOUS
    <3> HIDE DEF h, l, b
    <3>2. Power[a] <= Power[a + h] /\ Power[b] <= Power[b + l]
      BY <2>2, <3>1
    <3>3. a + k \in 0..30
      OBVIOUS
    <3>4. Power[a] \in Int /\ Power[b] \in Int /\ Power[a + k] \in Int
      BY <1>2, <3>1, <3>3
    <3> QED
      BY <3>1, <3>2, <3>4
  <2> HIDE DEF Ascends
  <2>3. Ascends(2 * (2 * (2 * (2 * (2 * 1)))))
    <3>1. Ascends(2 * 1) /\ 2 * 1 \in Nat
      BY <2>1, <2>2
    <3>2. Ascends(2 * (2 * 1)) /\ 2 * (2 * 1) \in Nat
      BY <2>2, <3>1
    <3>3. Ascends(2 * (2 * (2 * 1))) /\ 2 * (2 * (2 * 1)) \in Nat
      BY <2>2, <3>2
    <3>4. Ascends(2 * (2 * (2 * (2 * 1)))) /\ 2 * (2 * (2 * (2 * 1))) \in Nat
      BY <2>2, <3>3
    <3> QED
      BY <2>2, <3>4
  <2>4. d - c \in 0..2 * (2 * (2 * (2 * (2 * 1)))) /\ c + (d - c) = d
    BY <1>4
  <2> QED
    BY <2>3, <2>4 DEF Ascends
<1> QED
  BY <1>2, <1>3, <1>4

(* What a quotient is not below.                                           *)
LEMMA QuotientAtLeast ==
    ASSUME NEW v \in Int, NEW m \in Nat, m > 0, NEW k \in Int, m * k <= v
    PROVE  v \div m \in Int /\ k <= v \div m
<1> DEFINE x == v \div m
<1>1. x \in Int /\ v < m * x + m
  OBVIOUS
<1> HIDE DEF x
<1>2. CASE x < k
  <2>1. m * (x + 1) <= m * k
    BY <1>1, <1>2
  <2> QED
    BY <1>1, <2>1
<1> QED
  BY <1>1, <1>2 DEF x

(* A quotient and its divisor.                                             *)
LEMMA QuotientFacts ==
    ASSUME NEW v \in Nat, NEW m \in Nat, m > 0
    PROVE  v \div m \in Nat /\ m * (v \div m) <= v
OBVIOUS

(* Shifting further down never gives more, shifting a larger number never  *)
(* less, and a number up to twice another and one, shifted one more, is    *)
(* not larger.                                                             *)
LEMMA Shifts ==
    ASSUME NEW v \in Nat, NEW w \in Nat, NEW c \in 0..31
    PROVE  /\ ShiftRight(v, c) \in Nat
           /\ v <= w => ShiftRight(v, c) <= ShiftRight(w, c)
           /\ \A d \in c..31 : ShiftRight(v, d) <= ShiftRight(v, c)
           /\ v <= 2 * w + 1 /\ c < 31 => ShiftRight(v, c + 1) <= ShiftRight(w, c)
<1>1. ASSUME NEW x \in Nat, NEW d \in 0..31
      PROVE  ShiftRight(x, d) = IF d > 30 THEN 0 ELSE x \div Power[d]
  BY DEF ShiftRight, Power
<1>2. ASSUME NEW x \in Nat, NEW d \in 0..31 PROVE ShiftRight(x, d) \in Nat
  <2>1. CASE d <= 30
    <3>1. d \in 0..30
      BY <2>1
    <3>2. Power[d] \in Nat /\ Power[d] > 0
      BY <3>1, Powers
    <3>3. x \div Power[d] \in Nat
      BY <3>2, QuotientFacts
    <3>4. ShiftRight(x, d) = x \div Power[d]
      BY <1>1, <2>1
    <3> QED
      BY <3>3, <3>4
  <2>2. CASE d > 30
    BY <1>1, <2>2
  <2> QED
    BY <2>1, <2>2
<1>3. ASSUME v <= w PROVE ShiftRight(v, c) <= ShiftRight(w, c)
  <2>1. CASE c <= 30
    <3> DEFINE m == Power[c]
               x == v \div m
    <3>1. m \in Nat /\ m > 0
      <4>1. c \in 0..30
        BY <2>1
      <4> QED
        BY <4>1, Powers
    <3> HIDE DEF m
    <3>2. x \in Nat /\ m * x <= v
      BY <3>1, QuotientFacts
    <3> HIDE DEF x
    <3>3. m * x <= w
      BY <1>3, <3>1, <3>2
    <3>4. x <= w \div m
      BY <3>1, <3>2, <3>3, QuotientAtLeast
    <3> QED
      BY <1>1, <2>1, <3>4 DEF x, m
  <2>2. CASE c > 30
    BY <1>1, <2>2
  <2> QED
    BY <2>1, <2>2
<1>4. ASSUME NEW d \in c..31 PROVE ShiftRight(v, d) <= ShiftRight(v, c)
  <2>1. CASE d <= 30
    <3> DEFINE m == Power[c]
               k == Power[d]
               x == v \div k
    <3>1. m \in Nat /\ m > 0 /\ k \in Nat /\ k > 0 /\ m <= k
      <4>1. c \in 0..30 /\ d \in 0..30 /\ c <= d
        BY <2>1
      <4> QED
        BY <4>1, Powers
    <3> HIDE DEF m, k
    <3>2. x \in Nat /\ k * x <= v
      BY <3>1, QuotientFacts
    <3> HIDE DEF x
    <3>3. m * x <= k * x
      BY <3>1, <3>2
    <3>4. m * x <= v
      BY <3>1, <3>2, <3>3
    <3>5. x <= v \div m
      BY <3>1, <3>2, <3>4, QuotientAtLeast
    <3> QED
      BY <1>1, <2>1, <3>5 DEF x, m, k
  <2>2. CASE d > 30
    <3>1. d \in 0..31
      OBVIOUS
    <3>2. ShiftRight(v, d) = 0
      BY <1>1, <2>2, <3>1
    <3>3. ShiftRight(v, c) \in Nat
      BY <1>2
    <3> QED
      BY <3>2, <3>3
  <2> QED
    BY <2>1, <2>2
<1>5. ASSUME v <= 2 * w + 1, c < 31
      PROVE  ShiftRight(v, c + 1) <= ShiftRight(w, c)
  <2>1. CASE c < 30
    <3> DEFINE m == Power[c]
               k == Power[c + 1]
               x == v \div k
    <3>1. m \in Nat /\ m > 0 /\ k \in Nat /\ k > 0 /\ k = 2 * m
      <4>1. c \in 0..29 /\ c \in 0..30 /\ c + 1 \in 0..30
        BY <2>1
      <4> QED
        BY <4>1, Powers
    <3> HIDE DEF m, k
    <3>2. x \in Nat /\ k * x <= v
      BY <3>1, QuotientFacts
    <3> HIDE DEF x
    <3>3. k * x = 2 * (m * x) /\ m * x \in Int
      BY <3>1, <3>2
    <3>4. m * x <= w
      BY <1>5, <3>2, <3>3
    <3>5. x <= w \div m
      BY <3>1, <3>2, <3>4, QuotientAtLeast
    <3> QED
      BY <1>1, <2>1, <3>5 DEF x, m, k
  <2>2. CASE c = 30
    <3>1. c + 1 \in 0..31 /\ c + 1 > 30
      BY <2>2
    <3> QED
      BY <1>1, <1>2, <3>1
  <2> QED
    BY <1>5, <2>1, <2>2
<1> QED
  BY <1>2, <1>3, <1>4, <1>5

(* The count of a shift for a logarithm in range, and the entry it is for. *)
LEMMA CountAndEntry ==
    ASSUME subband \in Subbands, NEW u \in 0..Ceiling[subband]
    PROVE  /\ Shift(u) \in 0..31
           /\ Shift(0) \in Shift(u)..31
           /\ (u \div 8) % 32 \in 0..31
           /\ (u + 1) % 256 # 0 => /\ Shift(u + 1) = Shift(u)
                                   /\ ((u + 1) \div 8) % 32 \in 0..31
                                   /\ (u \div 8) % 32 <= ((u + 1) \div 8) % 32
           /\ (u + 1) % 256 = 0 => /\ Shift(u + 1) + 1 = Shift(u)
                                   /\ ((u + 1) \div 8) % 32 = 0
                                   /\ (u \div 8) % 32 = 31
<1> DEFINE top == -3 - Base[subband]
<1>1. /\ top \in Int /\ Ceiling[subband] \in Nat /\ u \in Nat
      /\ Ceiling[subband] \div 256 <= top /\ top <= 31 /\ u <= Ceiling[subband]
  BY BaseAssumption, CeilingAssumption
<1>2. /\ Shift(u) = top - (u \div 256) /\ Shift(0) = top - (0 \div 256)
      /\ Shift(u + 1) = top - ((u + 1) \div 256)
  BY DEF Shift
<1> HIDE DEF top
<1>3. u \div 256 \in Nat /\ u \div 256 <= Ceiling[subband] \div 256 /\ 0 \div 256 = 0
  BY <1>1
<1>4. /\ Shift(u) \in 0..31 /\ Shift(0) \in Shift(u)..31
      /\ (u \div 8) % 32 \in 0..31 /\ ((u + 1) \div 8) % 32 \in 0..31
  BY <1>1, <1>2, <1>3
<1>5. ASSUME (u + 1) % 256 # 0
      PROVE  /\ (u + 1) \div 256 = u \div 256
             /\ (u \div 8) % 32 <= ((u + 1) \div 8) % 32
  BY <1>1, <1>5
<1>6. ASSUME (u + 1) % 256 = 0
      PROVE  /\ (u + 1) \div 256 = (u \div 256) + 1
             /\ ((u + 1) \div 8) % 32 = 0
             /\ (u \div 8) % 32 = 31
  BY <1>1, <1>6
<1> QED
  BY <1>1, <1>2, <1>3, <1>4, <1>5, <1>6

(* No step of the octave is lost by the shift.                             *)
LEMMA StepPositive ==
    ASSUME subband \in Subbands, NEW u \in 0..Ceiling[subband]
    PROVE  StepOf(u) > 0
<1> DEFINE k == (u \div 8) % 32
<1>1. Shift(u) \in 0..31 /\ Shift(0) \in Shift(u)..31 /\ k \in 0..31 /\ 0 \in 0..31
  BY CountAndEntry
<1>2. Log[0] \in Nat /\ Log[k] \in Nat /\ Log[0] <= Log[k]
  BY <1>1, LogAssumption, OctaveAssumption
<1>3. ShiftRight(Log[0], Shift(0)) > 0
  <2>1. Base[subband] \in Int /\ 0 \div 256 = 0
    BY BaseAssumption
  <2>2. Shift(0) = -3 - Base[subband]
    BY <2>1 DEF Shift
  <2> QED
    BY <2>2, FloorAssumption
<1> HIDE DEF k
<1>4. Shift(0) \in 0..31
  BY <1>1
<1>5. /\ ShiftRight(Log[0], Shift(0)) \in Nat
      /\ ShiftRight(Log[0], Shift(0)) <= ShiftRight(Log[0], Shift(u))
      /\ ShiftRight(Log[0], Shift(u)) <= ShiftRight(Log[k], Shift(u))
      /\ ShiftRight(Log[0], Shift(u)) \in Nat /\ ShiftRight(Log[k], Shift(u)) \in Nat
  BY <1>1, <1>2, <1>4, Shifts
<1>6. StepOf(u) = ShiftRight(Log[k], Shift(u))
  BY DEF StepOf, k
<1> QED
  BY <1>3, <1>5, <1>6

(* One unit more never means a smaller step.                               *)
LEMMA StepFollows ==
    ASSUME subband \in Subbands, NEW u \in 0..Ceiling[subband],
           u + 1 <= Ceiling[subband]
    PROVE  StepOf(u) <= StepOf(u + 1)
<1> DEFINE k == (u \div 8) % 32
           l == ((u + 1) \div 8) % 32
<1>1. /\ Shift(u) \in 0..31 /\ Shift(u + 1) \in 0..31
      /\ k \in 0..31 /\ l \in 0..31 /\ 0 \in 0..31 /\ 31 \in 0..31
      /\ (u + 1) % 256 # 0 => Shift(u + 1) = Shift(u) /\ k <= l
      /\ (u + 1) % 256 = 0 => Shift(u + 1) + 1 = Shift(u) /\ l = 0 /\ k = 31
  <2>1. u + 1 \in 0..Ceiling[subband]
    BY CeilingAssumption
  <2> QED
    BY <2>1, CountAndEntry
<1>2. /\ StepOf(u) = ShiftRight(Log[k], Shift(u))
      /\ StepOf(u + 1) = ShiftRight(Log[l], Shift(u + 1))
  BY DEF StepOf
<1> HIDE DEF k, l
<1>3. Log[k] \in Nat /\ Log[l] \in Nat
  BY <1>1, LogAssumption
<1>4. CASE (u + 1) % 256 # 0
  <2>1. Log[k] <= Log[l]
    BY <1>1, <1>4, OctaveAssumption
  <2> QED
    BY <1>1, <1>2, <1>3, <1>4, <2>1, Shifts
<1>5. CASE (u + 1) % 256 = 0
  <2>1. Log[k] <= 2 * Log[l] + 1
    BY <1>1, <1>5, OctaveAssumption
  <2>2. Shift(u + 1) < 31
    BY <1>1, <1>5
  <2>3. ShiftRight(Log[k], Shift(u + 1) + 1) <= ShiftRight(Log[l], Shift(u + 1))
    BY <1>1, <1>3, <2>1, <2>2, Shifts
  <2> QED
    BY <1>1, <1>2, <1>5, <2>3
<1> QED
  BY <1>4, <1>5

(* The step is that of the logarithm, once a frame was processed.          *)
StepInv == LogInRange /\ unk9 = IF last = "none" THEN 0 ELSE StepOf(unk10)

(* It always is.                                                           *)
LEMMA StepInvariant == Spec => []StepInv
<1>1. Init => StepInv
  BY CeilingAssumption DEF Init, StepInv, LogInRange
<1>2. StepInv /\ LogInRange' /\ [Next]_vars => StepInv'
  <2> SUFFICES ASSUME StepInv, LogInRange', [Next]_vars PROVE StepInv'
    OBVIOUS
  <2>1. ASSUME NEW a \in Indices[subband], Invert(a) PROVE StepInv'
    <3>1. unk9' = StepOf(unk10)' /\ last' # "none"
      BY <2>1 DEF Invert, StepOf, Shift
    <3> QED
      BY <3>1 DEF StepInv
  <2>2. CASE UNCHANGED vars
    BY <2>2 DEF vars, StepInv, StepOf, Shift
  <2> QED
    BY <2>1, <2>2 DEF Next
<1> QED
  BY <1>1, <1>2, LogStaysInRange, PTL DEF Spec

(* After the first frame the step is never zero, for any increments and    *)
(* any sequence of indices.                                                *)
THEOREM StepStaysAlive == Spec => []StepAlive
<1>1. StepInv => StepAlive
  BY CeilingAssumption, StepPositive DEF StepInv, LogInRange, StepAlive
<1> QED
  BY <1>1, StepInvariant, PTL

(* The step grows with the logarithm over the whole range, for any octave  *)
(* that meets the assumptions.                                             *)
THEOREM StepAlwaysGrows == Spec => []StepGrows
<1>1. LogInRange => StepGrows
  BY CeilingAssumption, StepFollows DEF LogInRange, StepGrows
<1> QED
  BY <1>1, LogStaysInRange, PTL

(* Two logarithms at any distance, and the same index: the leak keeps      *)
(* their order and brings them closer, rounded or not.                     *)
LEMMA LeakContracts ==
    ASSUME NEW x \in Int, NEW y \in Int, NEW d \in Nat, y = x + 32620 * d
    PROVE  /\ RShift15(x) <= RShift15(y)
           /\ RShift15(y) - RShift15(x) <= d
           /\ d >= 222 => RShift15(y) - RShift15(x) < d
<1> DEFINE r == RShift15(x)
           s == RShift15(y)
<1>1. /\ r \in Int /\ IsHalfEven(x, 32768, r)
      /\ s \in Int /\ IsHalfEven(y, 32768, s)
  BY RShift15HalfEven, SMT
<1>2. CASE d = 0
  BY <1>1, <1>2, SMT
<1>3. CASE d > 0
  <2> HIDE DEF r, s
  <2>1. /\ 32768 * r - 16384 <= x /\ x <= 32768 * r + 16384
        /\ 32768 * s - 16384 <= y /\ y <= 32768 * s + 16384
    BY <1>1, SMT DEF IsHalfEven, Nearest
  <2>2. r <= s /\ s - r <= d /\ (d >= 222 => s - r < d)
    BY <1>1, <1>3, <2>1, SMT
  <2> QED
    BY <2>2 DEF r, s
<1> QED
  BY <1>2, <1>3

(* A decoder whose inverter starts from any other step than that of the    *)
(* encoder, because it joined late or missed a reset, and is fed the same  *)
(* indices: with every frame its logarithm stays on the same side and gets *)
(* no further away, and it gets closer until the two are at most 221 units *)
(* apart, less than the 256 of an octave.                                  *)
THEOREM DrawsTogether ==
    ASSUME subband \in Subbands, NEW c \in Entries(subband),
           NEW u \in Nat, NEW v \in Nat, u <= v
    PROVE  /\ Adapted(u, c) <= Adapted(v, c)
           /\ Adapted(v, c) - Adapted(u, c) <= v - u
           /\ v - u >= 222 => Adapted(v, c) - Adapted(u, c) < v - u
<1> DEFINE x == 32620 * u + 32768 * Incr[subband][c]
           y == 32620 * v + 32768 * Incr[subband][c]
           d == v - u
<1>1. Incr[subband][c] \in Int
  BY IncrAssumption DEF Entries
<1>2. x \in Int /\ y \in Int /\ d \in Nat /\ y = x + 32620 * d
  BY <1>1, SMT
<1>3. Ceiling[subband] \in Nat
  BY CeilingAssumption
<1>4. Adapted(u, c) = ClipRange(RShift15(x), 0, Ceiling[subband])
  BY DEF Adapted
<1>5. Adapted(v, c) = ClipRange(RShift15(y), 0, Ceiling[subband])
  BY DEF Adapted
<1> HIDE DEF x, y, d
<1>6. /\ RShift15(x) \in Int /\ RShift15(y) \in Int
      /\ RShift15(x) <= RShift15(y)
      /\ RShift15(y) - RShift15(x) <= d
      /\ d >= 222 => RShift15(y) - RShift15(x) < d
  BY <1>2, LeakContracts, RShift15HalfEven, SMT
<1>7. /\ Adapted(u, c) <= Adapted(v, c)
      /\ Adapted(v, c) - Adapted(u, c) <= d
      /\ d >= 222 => Adapted(v, c) - Adapted(u, c) < d
  BY <1>2, <1>3, <1>4, <1>5, <1>6, SMT DEF ClipRange
<1> QED
  BY <1>7 DEF d

(* In every state the inverter reaches, whatever the increments: another   *)
(* one that is a unit away stays within a unit, and one that is 222 units  *)
(* away comes closer, on the same side.                                    *)
THEOREM StaysTogether == Spec => []NeverDriftsApart
<1>1. ASSUME LogInRange, NEW gap \in Nat, NEW c \in Entries(subband)
      PROVE  /\ Adapted(unk10, c) \in Int /\ Adapted(unk10 + gap, c) \in Int
             /\ Adapted(unk10, c) <= Adapted(unk10 + gap, c)
             /\ Adapted(unk10 + gap, c) - Adapted(unk10, c) <= gap
             /\ gap >= 222 => Adapted(unk10 + gap, c) - Adapted(unk10, c) < gap
  <2>1. subband \in Subbands /\ unk10 \in Nat
    BY <1>1, CeilingAssumption DEF LogInRange
  <2> DEFINE other == unk10 + gap
  <2>2. other \in Nat /\ unk10 <= other /\ other - unk10 = gap
    BY <1>1, <2>1, SMT
  <2> HIDE DEF other
  <2>3. /\ Adapted(unk10, c) <= Adapted(other, c)
        /\ Adapted(other, c) - Adapted(unk10, c) <= other - unk10
        /\ other - unk10 >= 222 =>
             Adapted(other, c) - Adapted(unk10, c) < other - unk10
    BY <1>1, <2>1, <2>2, DrawsTogether, Zenon
  <2>4. Adapted(unk10, c) \in Int /\ Adapted(other, c) \in Int
    BY <1>1, <2>1, <2>2, CeilingAssumption, AdaptedFollows
  <2> QED
    BY <2>2, <2>3, <2>4, Zenon DEF other
<1>2. ASSUME LogInRange, NEW c \in Entries(subband)
      PROVE  /\ Adapted(unk10 + 1, c) - Adapted(unk10, c) \in {0, 1}
             /\ Adapted(unk10 + 222, c) - Adapted(unk10, c) \in 0..221
  <2>1. 1 \in Nat /\ 222 \in Nat /\ 222 >= 222
    BY SMT
  <2>2. /\ Adapted(unk10, c) \in Int /\ Adapted(unk10 + 1, c) \in Int
        /\ Adapted(unk10, c) <= Adapted(unk10 + 1, c)
        /\ Adapted(unk10 + 1, c) - Adapted(unk10, c) <= 1
    BY <1>1, <1>2, <2>1, Zenon
  <2>3. /\ Adapted(unk10 + 222, c) \in Int
        /\ Adapted(unk10, c) <= Adapted(unk10 + 222, c)
        /\ Adapted(unk10 + 222, c) - Adapted(unk10, c) < 222
    BY <1>1, <1>2, <2>1, Zenon
  <2> QED
    BY <2>2, <2>3, SMT
<1>3. LogInRange => NeverDriftsApart
  BY <1>2, Zenon DEF NeverDriftsApart
<1> QED
  BY <1>3, LogStaysInRange, PTL

-----------------------------------------------------------------------------
(* The step decays                                                         *)

(* The logarithm before it is clipped.                                     *)
Leaked(u, incr) == RShift15(32620 * u + 32768 * incr)

(* A negative increment and the leak together lower the logarithm by one   *)
(* at least, whatever the rounding does.                                   *)
LEMMA LeakLowers ==
    ASSUME NEW u \in Nat, NEW incr \in Int, incr < 0
    PROVE  Leaked(u, incr) \in Int /\ Leaked(u, incr) <= u - 1
<1> DEFINE v == 32620 * u + 32768 * incr
<1>1. v \in Int /\ v + 16384 < 32768 * u
  BY SMT
<1> HIDE DEF v
<1>2. RShift15(v) \in Int /\ RShift15(v) <= (v + 16384) \div 32768
  BY <1>1, SMT DEF RShift15, RoundingShift
<1>3. (v + 16384) \div 32768 <= u - 1 /\ (v + 16384) \div 32768 \in Int
  BY <1>1, SMT
<1>4. RShift15(v) <= u - 1
  BY <1>2, <1>3, SMT
<1> QED
  BY <1>2, <1>4, SMT DEF Leaked, v

(* Every frame in the innermost cell brings the logarithm closer to zero   *)
(* or finds it there: no rounding holds it up on the way.  With the        *)
(* fairness of the specification, which has audio go on, that is what      *)
(* SilenceResets rests on.                                                 *)
THEOREM InnermostDecays ==
    Spec => [][last' = "inner" => unk10' < unk10 \/ unk10' = 0]_vars
<1>1. ASSUME LogInRange, NEW a \in Indices[subband], Invert(a), last' = "inner"
      PROVE  unk10' < unk10 \/ unk10' = 0
  <2>1. subband \in Subbands /\ unk10 \in 0..Ceiling[subband]
        /\ Ceiling[subband] \in Nat
    BY <1>1, CeilingAssumption DEF LogInRange
  <2>2. Entry(a) = 1
    BY <1>1 DEF Invert
  <2> DEFINE incr == Incr[subband][1]
             r == Leaked(unk10, incr)
  <2>3. incr \in Int /\ incr < 0
    <3>1. Incr[subband] \in Seq(Int) /\ Incr[subband] # <<>> /\ incr < 0
      BY <2>1, IncrAssumption, InnermostAssumption
    <3>2. 1 \in DOMAIN Incr[subband]
      BY <3>1
    <3> QED
      BY <3>1, <3>2
  <2>4. unk10' = ClipRange(r, 0, Ceiling[subband])
    BY <1>1, <2>2 DEF Invert, Adapted, Leaked
  <2> HIDE DEF incr
  <2>5. unk10 \in Nat
    BY <2>1
  <2>6. r \in Int /\ r <= unk10 - 1
    BY <2>3, <2>5, LeakLowers
  <2> HIDE DEF r
  <2> QED
    BY <2>1, <2>4, <2>5, <2>6 DEF ClipRange
<1>2. LogInRange /\ [Next]_vars
        => [last' = "inner" => unk10' < unk10 \/ unk10' = 0]_vars
  BY <1>1 DEF Next
<1> QED
  BY <1>2, LogStaysInRange, PTL DEF Spec

-----------------------------------------------------------------------------
(* The difference                                                          *)

(* The product in two parts is that of integers, shifted.                  *)
LEMMA ProductIsExact ==
    ASSUME NEW t \in Int, NEW x \in Int
    PROVE  /\ t * x \in Int
           /\ Product19(t, x) = (t * x) \div 524288
<1> DEFINE a == t \div 4096
           b == t % 4096
           e == x \div 4096
           f == x % 4096
           P == a * e
           Q == a * f + b * e
           R == b * f
<1>1. a \in Int /\ b \in Int /\ e \in Int /\ f \in Int /\ t = 4096 * a + b /\ x = 4096 * e + f
  BY SMT
<1>2. Product19(t, x) = 32 * a * e + (Q + R \div 4096) \div 128
  BY SMT DEF Product19
<1> HIDE DEF a, b, e, f
<1>3. P \in Int /\ Q \in Int /\ R \in Int /\ 32 * a * e = 32 * P
  BY <1>1, SMT
<1>4. t * x = 16777216 * P + 4096 * Q + R
  BY <1>1, SMT
<1> HIDE DEF P, Q, R
<1>5. (16777216 * P + 4096 * Q + R) \div 524288 = 32 * P + (Q + R \div 4096) \div 128
  BY <1>3, SMT
<1> QED
  BY <1>2, <1>3, <1>4, <1>5, SMT

(* It is an integer.                                                       *)
LEMMA ProductInteger == \A t, x \in Int : Product19(t, x) \in Int
<1> SUFFICES ASSUME NEW t \in Int, NEW x \in Int PROVE Product19(t, x) \in Int
  OBVIOUS
<1> DEFINE p == t * x
<1>1. p \in Int /\ Product19(t, x) = p \div 524288
  BY ProductIsExact, SMT
<1> HIDE DEF p
<1> QED
  BY <1>1, SMT

(* A number in three digits,                                               *)
Digits(v, top, m, l) ==
    /\ v \in Int /\ top \in Int /\ m \in 0..4095 /\ l \in 0..4095
    /\ v = 16777216 * top + 4096 * m + l

(* rounded and shifted, and its tie.                                       *)
LEMMA DigitsRounded ==
    ASSUME NEW v, NEW top, NEW m, NEW l, Digits(v, top, m, l)
    PROVE  /\ (v + 2147483648) \div 4294967296 = (top + 128) \div 256
           /\ v % 4294967296 = 2147483648 <=> top % 256 = 128 /\ m = 0 /\ l = 0
<1> USE DEF Digits
<1> DEFINE q == (top + 128) \div 256
           r == (top + 128) % 256
           k == top \div 256
           e == top % 256
<1>1. q \in Int /\ r \in 0..255 /\ top + 128 = 256 * q + r
  BY SMT
<1>2. k \in Int /\ e \in 0..255 /\ top = 256 * k + e
  BY SMT
<1> HIDE DEF q, r, k, e
<1>3. (v + 2147483648) \div 4294967296 = q
  <2>1. v + 2147483648 = 4294967296 * q + (16777216 * r + 4096 * m + l)
    BY <1>1, SMT
  <2>2. 0 <= 16777216 * r + 4096 * m + l
      /\ 16777216 * r + 4096 * m + l <= 4294967295
    BY <1>1, SMT
  <2> QED
    BY <1>1, <2>1, <2>2, SMT
<1>4. v % 4294967296 = 16777216 * e + 4096 * m + l
  <2>1. v = 4294967296 * k + (16777216 * e + 4096 * m + l)
    BY <1>2, SMT
  <2>2. 0 <= 16777216 * e + 4096 * m + l
      /\ 16777216 * e + 4096 * m + l <= 4294967295
    BY <1>2, SMT
  <2> QED
    BY <1>2, <2>1, <2>2, SMT
<1>5. 16777216 * e + 4096 * m + l = 2147483648 <=> e = 128 /\ m = 0 /\ l = 0
  BY <1>2, SMT
<1> QED
  BY <1>3, <1>4, <1>5, SMT DEF q, e

(* The dithered value in parts is that of integers, rounded and shifted.   *)
LEMMA DitheredIsExact ==
    ASSUME NEW s \in Int, NEW f \in Int, NEW d \in Int
    PROVE  /\ 2147483648 * s + d * f \in Int
           /\ Dithered(s, f, d)
                = RoundingShift(2147483648 * s + d * f, 2147483648, 4294967296)
<1> DEFINE d2 == d \div 16777216
           d1 == (d \div 4096) % 4096
           d0 == d % 4096
           f1 == f \div 4096
           f0 == f % 4096
           low == d0 * f0
           mid == d1 * f0 + d0 * f1 + low \div 4096
           top == 128 * s + d2 * f + d1 * f1 + mid \div 4096
           v == 2147483648 * s + d * f
<1>1. /\ d2 \in Int /\ d1 \in Int /\ d0 \in Int /\ f1 \in Int /\ f0 \in Int
      /\ d = 16777216 * d2 + 4096 * d1 + d0 /\ f = 4096 * f1 + f0
  BY SMT
<1>2. Dithered(s, f, d)
        = (top + 128) \div 256
            - (IF top % 256 = 128 /\ mid % 4096 = 0 /\ low % 4096 = 0
               THEN 1 ELSE 0)
  BY SMT DEF Dithered
<1> HIDE DEF d2, d1, d0, f1, f0
<1> DEFINE A == d2 * f
           B == d1 * f1
           C == d1 * f0
           D == d0 * f1
<1>3. A \in Int /\ B \in Int /\ C \in Int /\ D \in Int /\ low \in Int
  BY <1>1, SMT
<1>4. d * f = 16777216 * A + 16777216 * B + 4096 * C + 4096 * D + low
  <2>1. d * f = 16777216 * (d2 * f) + 4096 * (d1 * f) + d0 * f
    BY <1>1, SMT
  <2>2. d1 * f = 4096 * (d1 * f1) + d1 * f0
    BY <1>1, SMT
  <2>3. d0 * f = 4096 * (d0 * f1) + d0 * f0
    BY <1>1, SMT
  <2>4. d1 * f \in Int /\ d0 * f \in Int
    BY <1>1, SMT
  <2> QED
    BY <1>3, <2>1, <2>2, <2>3, <2>4, SMT
<1>5. mid = C + D + low \div 4096 /\ top = 128 * s + A + B + mid \div 4096
  BY SMT
<1>6. v = 2147483648 * s + d * f
  BY SMT
<1> HIDE DEF A, B, C, D, low, v, mid, top
<1>7. /\ low \div 4096 \in Int /\ low % 4096 \in 0..4095
      /\ low = 4096 * (low \div 4096) + (low % 4096)
  BY <1>3, SMT
<1>8. mid \in Int
  BY <1>3, <1>5, <1>7, SMT
<1>9. /\ mid \div 4096 \in Int /\ mid % 4096 \in 0..4095
      /\ mid = 4096 * (mid \div 4096) + (mid % 4096)
  BY <1>8, SMT
<1>10. top \in Int
  BY <1>3, <1>5, <1>9, SMT
<1>11. v \in Int /\ v = 16777216 * top + 4096 * (mid % 4096) + (low % 4096)
  BY <1>3, <1>4, <1>5, <1>6, <1>7, <1>9, SMT
<1>12. /\ (v + 2147483648) \div 4294967296 = (top + 128) \div 256
       /\ v % 4294967296 = 2147483648
            <=> top % 256 = 128 /\ mid % 4096 = 0 /\ low % 4096 = 0
  <2> DEFINE M == mid % 4096
             L == low % 4096
  <2>1. Digits(v, top, M, L)
    BY <1>7, <1>9, <1>10, <1>11, SMT DEF Digits
  <2> HIDE DEF M, L
  <2>2. /\ (v + 2147483648) \div 4294967296 = (top + 128) \div 256
        /\ v % 4294967296 = 2147483648 <=> top % 256 = 128 /\ M = 0 /\ L = 0
    BY <2>1, DigitsRounded, SMT
  <2> QED
    BY <2>2, SMT DEF M, L
<1>13. RoundingShift(v, 2147483648, 4294967296)
         = (v + 2147483648) \div 4294967296
             - (IF v % 4294967296 = 2147483648 THEN 1 ELSE 0)
  BY SMT DEF RoundingShift
<1> QED
  BY <1>2, <1>6, <1>11, <1>12, <1>13, SMT

(* What is within the larger of a clamping's ends is so afterwards.        *)
LEMMA ClampNearer ==
    \A r \in Int : \A m \in Nat : -m <= r /\ r <= m =>
      ClampInt24(r) \in Int /\ -m <= ClampInt24(r) /\ ClampInt24(r) <= m
BY SMT DEF ClampInt24, ClipRange, INT24_MIN, INT24_MAX

(* A dithered value is at most half the sum of its parts, rounded up.      *)
LEMMA DitheredBounds ==
    ASSUME NEW s \in Int, NEW size \in Nat, s = size \/ s = -size,
           NEW f \in Nat, NEW d \in Int, -INT32_MAX - 1 <= d, d <= INT32_MAX
    PROVE  /\ Dithered(s, f, d) \in Int
           /\ 2 * Dithered(s, f, d) <= size + f + 1
           /\ -(size + f + 1) <= 2 * Dithered(s, f, d)
<1> DEFINE df == d * f
           v == 2147483648 * s + df
           r == RoundingShift(v, 2147483648, 4294967296)
<1>1. d \in Int /\ -2147483648 <= d /\ d <= 2147483648
  BY SMT DEF INT32_MAX
<1>2. df \in Int /\ -(2147483648 * f) <= df /\ df <= 2147483648 * f
  <2>1. (-2147483648) * f <= d * f /\ d * f <= 2147483648 * f
    BY <1>1, SMT
  <2> QED
    BY <1>1, <2>1, SMT
<1>3. Dithered(s, f, d) = r
  BY <1>1, DitheredIsExact, SMT
<1> HIDE DEF df
<1>4. v \in Int /\ v <= 2147483648 * (size + f) /\ -(2147483648 * (size + f)) <= v
  BY <1>2, SMT
<1> HIDE DEF v
<1>5. r \in Int /\ 4294967296 * r <= v + 2147483648 /\ v - 2147483648 <= 4294967296 * r
  BY <1>4, SMT DEF RoundingShift
<1> HIDE DEF r
<1> QED
  BY <1>3, <1>4, <1>5, SMT

(* An index selects its entry, and stands for an integer.                  *)
LEMMA LevelInteger ==
    ASSUME subband \in Subbands, NEW c \in Entries(subband),
           NEW a \in {c - 1, -c}, NEW dither \in Dithers
    PROVE  Entry(a) = c /\ Level(a, dither) \in Int
<1> DEFINE size == Sl1[subband][c + 1]
           f == Sf1[subband][c + 1]
           s == IF a < 0 THEN -size ELSE size
           v == 2147483648 * s + dither * f
           r == Dithered(s, f, dither)
<1>1. c \in Nat /\ c > 0 /\ size \in Int /\ f \in Int
  <2>1. c \in 1..Len(Incr[subband])
    BY IncrAssumption, SMT DEF Entries
  <2>2. c + 1 \in 1..Len(Sl1[subband]) /\ c + 1 \in 1..Len(Sf1[subband])
    BY <2>1, TablesAssumption, IncrAssumption, SMT
  <2> QED
    BY <2>1, <2>2, TablesAssumption, SMT
<1>2. Entry(a) = c
  BY <1>1, SMT DEF Entry
<1>3. Level(a, dither) = ClampInt24(r)
  BY <1>2, SMT DEF Level
<1>4. dither \in Int
  BY DithersAssumption
<1> HIDE DEF size, f
<1>5. s \in Int
  BY <1>1, SMT
<1> HIDE DEF s
<1>6. v \in Int /\ r = RoundingShift(v, 2147483648, 4294967296)
  BY <1>1, <1>4, <1>5, DitheredIsExact, SMT
<1> HIDE DEF v
<1>7. r \in Int
  BY <1>6, SMT DEF RoundingShift
<1> HIDE DEF r
<1>8. ClampInt24(r) \in Int
  BY <1>7, SMT DEF ClampInt24, ClipRange, INT24_MIN, INT24_MAX
<1> QED
  BY <1>2, <1>3, <1>8, SMT

(* The value an index stands for.                                          *)
LEMMA LevelBounds ==
    ASSUME subband \in Subbands \ Clamped, NEW c \in Entries(subband),
           NEW a \in {c - 1, -c}, NEW dither \in Dithers
    PROVE  /\ Level(a, dither) \in Int
           /\ 2 * Level(a, dither) <= Sl1[subband][c + 1] + Sf1[subband][c + 1] + 1
           /\ -(Sl1[subband][c + 1] + Sf1[subband][c + 1] + 1) <= 2 * Level(a, dither)
<1> DEFINE size == Sl1[subband][c + 1]
           f == Sf1[subband][c + 1]
           s == IF a < 0 THEN -size ELSE size
           r == Dithered(s, f, dither)
<1>1. c \in Nat /\ c > 0 /\ size \in Nat /\ f \in Nat
  <2>1. c \in 1..Len(Incr[subband])
    BY IncrAssumption, SMT DEF Entries
  <2>2. c + 1 \in 1..Len(Sl1[subband]) /\ c + 1 \in 1..Len(Sf1[subband])
    BY <2>1, TablesAssumption, IncrAssumption, SMT
  <2>3. size \in Int /\ f \in Int /\ 0 <= size /\ 0 <= f
    BY <2>2, TablesAssumption, EntriesAssumption, SMT
  <2> QED
    BY <2>1, <2>3, SMT
<1>2. Entry(a) = c
  BY LevelInteger, SMT
<1>3. Level(a, dither) = ClampInt24(r)
  BY <1>2, SMT DEF Level
<1>4. dither \in Int /\ -INT32_MAX - 1 <= dither /\ dither <= INT32_MAX
  BY DithersAssumption, SMT
<1> HIDE DEF size, f
<1>5. s \in Int /\ (s = size \/ s = -size)
  BY <1>1, SMT
<1> HIDE DEF s
<1>6. r \in Int /\ 2 * r <= size + f + 1 /\ -(size + f + 1) <= 2 * r
  BY <1>1, <1>4, <1>5, DitheredBounds, SMT
<1> HIDE DEF r
<1> DEFINE m == IF r < 0 THEN -r ELSE r
<1>7. m \in Nat /\ -m <= r /\ r <= m /\ 2 * m <= size + f + 1
  BY <1>1, <1>6, SMT
<1> HIDE DEF m
<1>8. ClampInt24(r) \in Int /\ -m <= ClampInt24(r) /\ ClampInt24(r) <= m
  BY <1>6, <1>7, ClampNearer, SMT
<1> QED
  BY <1>1, <1>3, <1>7, <1>8, SMT DEF size, f

(* No step is above the last of the octave.                                *)
LEMMA StepBounded ==
    ASSUME subband \in Subbands, NEW u \in 0..Ceiling[subband]
    PROVE  StepOf(u) \in Nat /\ StepOf(u) <= Log[31]
<1> DEFINE k == (u \div 8) % 32
<1>1. Shift(u) \in 0..31 /\ k \in 0..31 /\ 31 \in 0..31
  BY CountAndEntry
<1>2. Log[k] \in Nat /\ Log[31] \in Nat /\ Log[k] <= Log[31]
  BY <1>1, LogAssumption, OctaveAssumption
<1>3. StepOf(u) = ShiftRight(Log[k], Shift(u))
  BY DEF StepOf
<1> HIDE DEF k
<1>4. 0 \in 0..31 /\ Shift(u) \in 0..31 /\ Shift(u) \in 0..31
  BY <1>1
<1>5. /\ ShiftRight(Log[k], Shift(u)) \in Nat
      /\ ShiftRight(Log[k], Shift(u)) <= ShiftRight(Log[k], 0)
  BY <1>1, <1>2, <1>4, Shifts
<1>6. ShiftRight(Log[k], 0) = Log[k]
  BY <1>2 DEF ShiftRight
<1> QED
  BY <1>2, <1>3, <1>5, <1>6

(* What bounds twice a product bounds the product.                         *)
LEMMA HalfOf ==
    ASSUME NEW w \in Nat, w > 0, NEW x \in Int, 2 * w * x <= INT32_MAX
    PROVE  x <= INT32_MAX \div (2 * w)
<1>1. 2 * w \in Nat /\ 2 * w > 0 /\ (2 * w) * x <= INT32_MAX /\ INT32_MAX \in Int
  BY SMT DEF INT32_MAX
<1> QED
  BY <1>1, QuotientAtLeast

(* A step that lets an entry be chosen is not large for it.                *)
LEMMA ChosenFits ==
    ASSUME NEW w \in 1..127, NEW m \in Nat, NEW x \in Int, -m <= x, x <= m,
           NEW s \in Nat, NEW t \in Int,
           2 * (w * m) <= 127 * t, -Product19(-t, s) <= 2 * (INT24_MAX + 1)
    PROVE  /\ 2 * w * Product19(x, s) <= INT32_MAX
           /\ 2 * w * (-Product19(x, s)) <= INT32_MAX
<1> DEFINE q == Product19(x, s)
           p == (-t * s) \div 524288
           ts == t * s
           xs == x * s
           ms == m * s
           us == w * ms
           wq == w * q
<1>1. p >= -16777216
  BY ProductIsExact, SMT DEF INT24_MAX
<1>2. ts \in Int /\ -t * s = -ts
  BY SMT
<1>3. ts <= 8796093022208
  <2>1. p = (-ts) \div 524288
    BY <1>2, SMT
  <2> HIDE DEF p, ts
  <2> QED
    BY <1>1, <1>2, <2>1, SMT
<1>4. xs \in Int /\ q = xs \div 524288
  BY ProductIsExact, SMT
<1>5. ms \in Nat /\ -ms <= xs /\ xs <= ms
  <2>1. (-m) * s <= x * s /\ x * s <= m * s /\ m * s \in Nat
    BY SMT
  <2> QED
    BY <2>1, SMT
<1>6. us \in Nat /\ 2 * us <= 127 * ts
  <2>1. (2 * (w * m)) * s <= (127 * t) * s /\ w * m \in Nat
    BY SMT
  <2>2. (2 * (w * m)) * s = 2 * (w * (m * s)) /\ (127 * t) * s = 127 * (t * s)
    BY SMT
  <2>3. w * (m * s) \in Nat
    BY SMT
  <2> QED
    BY <2>1, <2>2, <2>3, SMT
<1> HIDE DEF ts, p
<1>7. q \in Int /\ 524288 * q <= ms /\ -ms - 524287 <= 524288 * q
  <2> HIDE DEF xs, ms, q
  <2> QED
    BY <1>4, <1>5, SMT
<1>8. wq \in Int /\ 524288 * wq <= us /\ -us - 524287 * w <= 524288 * wq
  <2> HIDE DEF q, ms
  <2>1. w * (524288 * q) <= w * ms /\ w * (-ms - 524287) <= w * (524288 * q)
    BY <1>5, <1>7, SMT
  <2>2. /\ w * (524288 * q) = 524288 * (w * q) /\ w * q \in Int
        /\ w * (-ms - 524287) = -(w * ms) - 524287 * w
    BY <1>5, <1>7, SMT
  <2> QED
    BY <2>1, <2>2, SMT
<1>9. 2 * w * q = 2 * wq /\ 2 * w * (-q) = -(2 * wq)
  <2> HIDE DEF q
  <2> QED
    BY <1>7, SMT
<1> HIDE DEF us, wq
<1>10. 2 * wq <= 2147483647 /\ -(2 * wq) <= 2147483647
  BY <1>2, <1>3, <1>6, <1>8, SMT
<1> QED
  BY <1>9, <1>10, SMT DEF INT32_MAX, q

(* The innermost entry is small enough for any step.                       *)
LEMMA InnermostFits ==
    ASSUME NEW w \in 1..127, NEW m \in Nat, NEW x \in Int, -m <= x, x <= m,
           NEW s \in Nat, s <= INT24_MAX + 1, 16 * w * (2 * m) <= INT32_MAX
    PROVE  /\ 2 * w * Product19(x, s) <= INT32_MAX
           /\ 2 * w * (-Product19(x, s)) <= INT32_MAX
<1> DEFINE q == Product19(x, s)
           xs == x * s
           ms == m * s
<1>1. xs \in Int /\ q = xs \div 524288
  BY ProductIsExact, SMT
<1>2. ms \in Nat /\ ms <= 8388608 * m
  <2>1. m * s <= m * 8388608 /\ m * s \in Nat
    BY SMT DEF INT24_MAX
  <2> QED
    BY <2>1, SMT
<1>3. -ms <= xs /\ xs <= ms
  <2>1. (-m) * s <= x * s /\ x * s <= m * s /\ m * s \in Nat
    BY SMT
  <2> QED
    BY <2>1, SMT
<1> HIDE DEF xs, ms, q
<1>4. q \in Int /\ q <= 16 * m /\ -(16 * m) <= q
  BY <1>1, <1>2, <1>3, SMT
<1>5. w * q <= w * (16 * m) /\ w * (-(16 * m)) <= w * q /\ w * q \in Int
  BY <1>4, SMT
<1>6. /\ 2 * w * q = 2 * (w * q) /\ 2 * w * (-q) = -(2 * (w * q))
      /\ 16 * w * (2 * m) = 2 * (w * (16 * m)) /\ w * (16 * m) \in Nat
      /\ w * (-(16 * m)) = -(w * (16 * m))
  BY <1>4, SMT
<1>7. 2 * w * q <= INT32_MAX /\ 2 * w * (-q) <= INT32_MAX
  BY <1>5, <1>6, SMT DEF INT32_MAX
<1> QED
  BY <1>7, SMT DEF q

(* Twice the width times a number and times its negative: both bounds.     *)
LEMMA BothSides ==
    ASSUME NEW w \in 1..127, NEW q \in Int,
           2 * w * q <= INT32_MAX, 2 * w * (-q) <= INT32_MAX
    PROVE  -(INT32_MAX \div (2 * w)) <= q /\ q <= INT32_MAX \div (2 * w)
<1>1. q <= INT32_MAX \div (2 * w) /\ -q <= INT32_MAX \div (2 * w)
  BY HalfOf, SMT
<1>2. INT32_MAX \div (2 * w) \in Int
  BY SMT DEF INT32_MAX
<1> QED
  BY <1>1, <1>2, SMT

(* Where the difference is not clamped what the encoder can choose fits,   *)
(* at any step.                                                            *)
LEMMA UnclampedDifferenceFits ==
    ASSUME StepInv, subband \notin Clamped, NEW c \in Entries(subband),
           CanChoose(c)
    PROVE  Fits(c)
<1> SUFFICES ASSUME NEW a \in {c - 1, -c}, NEW dither \in Dithers
             PROVE  LET most == INT32_MAX \div (2 * Width[subband])
                    IN  /\ -most <= Difference(a, dither)
                        /\ Difference(a, dither) <= most
  BY SMT DEF Fits
<1> DEFINE w == Width[subband]
           x == Level(a, dither)
           m == IF x < 0 THEN -x ELSE x
           big == Sl1[subband][c + 1] + Sf1[subband][c + 1] + 1
           q == Product19(x, unk9)
<1>1. subband \in Subbands \ Clamped /\ w \in 1..127
  BY WidthAssumption, SMT DEF StepInv, LogInRange
<1>2. x \in Int /\ 2 * x <= big /\ -big <= 2 * x
  BY <1>1, LevelBounds, SMT
<1>3. /\ c \in 1..Len(Incr[subband])
      /\ c \in 1..Len(Sl1[subband])
      /\ c + 1 \in 1..Len(Sl1[subband]) /\ c + 1 \in 1..Len(Sf1[subband])
      /\ Sl1[subband] \in Seq(Int) /\ Sf1[subband] \in Seq(Int)
  <2>1. /\ Incr[subband] \in Seq(Int)
        /\ Sl1[subband] \in Seq(Int) /\ Sf1[subband] \in Seq(Int)
        /\ Len(Sl1[subband]) = Len(Incr[subband]) + 1
        /\ Len(Sf1[subband]) = Len(Incr[subband]) + 1
    BY <1>1, IncrAssumption, TablesAssumption, SMT
  <2>2. c \in 1..Len(Incr[subband])
    BY <2>1, SMT DEF Entries
  <2> QED
    BY <2>1, <2>2, SMT
<1>4. Sl1[subband][c] \in Int /\ big \in Int
  <2>1. /\ Sl1[subband][c] \in Int
        /\ Sl1[subband][c + 1] \in Int /\ Sf1[subband][c + 1] \in Int
    BY <1>3, SMT
  <2> QED
    BY <2>1, SMT
<1>5. unk9 \in Nat /\ unk9 <= INT24_MAX + 1
  <2>1. Log[31] \in Nat /\ Log[31] <= INT24_MAX + 1
    BY <1>1, LogAssumption, EntriesAssumption, SMT
  <2>2. StepOf(unk10) \in Nat /\ StepOf(unk10) <= Log[31]
    BY StepBounded, SMT DEF StepInv, LogInRange
  <2>3. unk9 = 0 \/ unk9 = StepOf(unk10)
    BY SMT DEF StepInv
  <2> QED
    BY <2>1, <2>2, <2>3, SMT DEF INT24_MAX
<1>6. Difference(a, dither) = q
  BY SMT DEF Difference
<1> HIDE DEF x
<1>7. m \in Nat /\ -m <= x /\ x <= m /\ 2 * m <= big
  BY <1>2, <1>4, SMT
<1> HIDE DEF w, m, big
<1>8. 2 * w * q <= INT32_MAX /\ 2 * w * (-q) <= INT32_MAX
  <2>1. CASE c = 1
    <3>1. 16 * w * big <= INT32_MAX
      BY <1>1, <2>1, EntriesAssumption, SMT DEF w, big
    <3>2. 16 * w * (2 * m) <= 16 * w * big
      BY <1>1, <1>4, <1>7, SMT
    <3>3. 16 * w * (2 * m) <= INT32_MAX
      BY <1>1, <1>4, <1>7, <3>1, <3>2, SMT DEF INT32_MAX
    <3> QED
      BY <1>1, <1>2, <1>5, <1>7, <3>3, InnermostFits, Zenon
  <2>2. CASE c # 1
    <3>1. w * big <= 127 * Sl1[subband][c]
      BY <1>1, <2>2, EntriesAssumption, SMT DEF w, big
    <3>2. w * (2 * m) <= w * big /\ w * (2 * m) = 2 * (w * m) /\ w * big \in Int
      BY <1>1, <1>4, <1>7, SMT
    <3>3. 2 * (w * m) <= 127 * Sl1[subband][c]
      BY <1>1, <1>4, <1>7, <3>1, <3>2, SMT
    <3>4. -Product19(-Sl1[subband][c], unk9) <= 2 * (INT24_MAX + 1)
      BY <2>2, SMT DEF CanChoose
    <3> QED
      BY <1>1, <1>2, <1>4, <1>5, <1>7, <3>3, <3>4, ChosenFits, Zenon
  <2> QED
    BY <2>1, <2>2, SMT
<1>9. q \in Int
  BY <1>2, <1>5, ProductInteger
<1> HIDE DEF q
<1>10. -(INT32_MAX \div (2 * w)) <= q /\ q <= INT32_MAX \div (2 * w)
  BY <1>1, <1>8, <1>9, BothSides, Zenon
<1> QED
  BY <1>6, <1>10, SMT DEF w

(* Where it is clamped 24 bits are few enough.                             *)
LEMMA ClampedDifferenceFits ==
    ASSUME StepInv, subband \in Clamped, NEW c \in Entries(subband)
    PROVE  Fits(c)
<1> SUFFICES ASSUME NEW a \in {c - 1, -c}, NEW dither \in Dithers
             PROVE  LET most == INT32_MAX \div (2 * Width[subband])
                    IN  /\ -most <= Difference(a, dither)
                        /\ Difference(a, dither) <= most
  BY SMT DEF Fits
<1> DEFINE w == Width[subband]
           x == Level(a, dither)
           q == ClampInt24(Product19(x, unk9))
<1>1. w \in 1..127
  BY WidthAssumption, SMT DEF StepInv, LogInRange
<1>2. Difference(a, dither) = q
  BY SMT DEF Difference
<1>3. x \in Int
  BY LevelInteger, SMT DEF StepInv, LogInRange
<1>4. unk9 \in Int
  <2>1. StepOf(unk10) \in Nat
    BY StepBounded, SMT DEF StepInv, LogInRange
  <2> QED
    BY <2>1, SMT DEF StepInv
<1>5. Product19(x, unk9) \in Int
  BY <1>3, <1>4, ProductInteger
<1> HIDE DEF w, x
<1>6. q \in Int /\ -8388608 <= q /\ q <= 8388608
  BY <1>5, SMT DEF ClampInt24, ClipRange, INT24_MIN, INT24_MAX
<1> HIDE DEF q
<1>7. 2 * w * q <= INT32_MAX /\ 2 * w * (-q) <= INT32_MAX
  <2>1. w * q <= w * 8388608 /\ w * (-q) <= w * 8388608
        /\ w * q \in Int /\ w * (-q) \in Int
    BY <1>1, <1>6, SMT
  <2>2. 2 * w * q = 2 * (w * q) /\ 2 * w * (-q) = 2 * (w * (-q))
    BY <1>1, <1>6, SMT
  <2> QED
    BY <1>1, <2>1, <2>2, SMT DEF INT32_MAX
<1>8. q \in Int
  BY <1>6, SMT
<1>9. -(INT32_MAX \div (2 * w)) <= q /\ q <= INT32_MAX \div (2 * w)
  BY <1>1, <1>7, <1>8, BothSides, Zenon
<1> QED
  BY <1>2, <1>9, Zenon DEF w

(* Where the difference is not clamped nothing the encoder can choose      *)
(* leaves the room of the filter's sum, at any step the recursion reaches, *)
(* for any dither and any tables whose entries are not too large.          *)
THEOREM UnclampedFits == Spec => []SumFits
<1>1. StepInv => SumFits
  BY UnclampedDifferenceFits DEF SumFits
<1> QED
  BY <1>1, StepInvariant, PTL

(* Whatever the encoder can choose, of either codec, the difference that   *)
(* comes of it is one the prediction can do with (PredictionCutsNothing of *)
(* ProcessorProofs).                                                       *)
THEOREM EveryDifferenceFits ==
    Spec => [](\A c \in Entries(subband) : CanChoose(c) => Fits(c))
<1>1. StepInv => \A c \in Entries(subband) : CanChoose(c) => Fits(c)
  BY UnclampedDifferenceFits, ClampedDifferenceFits
<1> QED
  BY <1>1, StepInvariant, PTL

-----------------------------------------------------------------------------
(* The quantiser in front of it                                            *)

(* The largest magnitude: that of 24 bits, shifted right by four.          *)
LargestMagnitude == 524288

(* A step of one, as the search scales it.                                 *)
OneStep == 16777216

LEMMA LargestIsNatural == LargestMagnitude \in Nat
BY SMT DEF LargestMagnitude

(* The search for the cell of a magnitude, at its end, with the table the  *)
(* inverter has as well and the step of the same subband.                  *)
Quantiser(magnitude, cell) ==
    INSTANCE Search WITH
        Tables <- [sb \in Subbands |->
                      [j \in 0..Len(Sl1[sb]) - 1 |-> Sl1[sb][j + 1]]],
        Size <- [sb \in Subbands |-> Len(Sl1[sb])],
        Steps <- Nat,
        Magnitudes <- [sb \in Subbands |-> 0..LargestMagnitude],
        Unit <- OneStep,
        a <- magnitude, x <- unk9, i <- cell, n <- 0

(* A border that is not above a magnitude of 24 bits lets an entry be      *)
(* chosen.                                                                 *)
LEMMA BorderBelow ==
    ASSUME NEW t \in Int, NEW s \in Nat, NEW magnitude \in Nat,
           magnitude <= LargestMagnitude, s * t <= magnitude * OneStep
    PROVE  -Product19(-t, s) <= 2 * (INT24_MAX + 1)
<1> DEFINE ts == t * s
<1>1. ts \in Int /\ (-t) * s = -ts /\ s * t = ts
  BY SMT
<1>2. (-t) * s \in Int /\ Product19(-t, s) = ((-t) * s) \div 524288
  <2>1. -t \in Int
    OBVIOUS
  <2> QED
    BY <2>1, ProductIsExact, SMT
<1>3. Product19(-t, s) = (-ts) \div 524288
  BY <1>1, <1>2, SMT
<1>4. ts <= 8796093022208
  BY <1>1, SMT DEF LargestMagnitude, OneStep
<1> HIDE DEF ts
<1> QED
  BY <1>1, <1>3, <1>4, SMT DEF INT24_MAX

(* No border up to the cell is above the magnitude.                        *)
Reached(magnitude, cell) ==
    \A j \in 1..Len(Sl1[subband]) - 2 :
      j <= cell => unk9 * Sl1[subband][j + 1] <= magnitude * OneStep

(* That is what the search ends with.                                      *)
LEMMA FoundIsReached ==
    ASSUME subband \in Subbands, NEW magnitude, NEW cell,
           Quantiser(magnitude, cell)!FindsCell
    PROVE  Reached(magnitude, cell)
<1> DEFINE Sizes == [sb \in Subbands |-> Len(Sl1[sb])]
           Tables == [sb \in Subbands |->
                        [j \in 0..Len(Sl1[sb]) - 1 |-> Sl1[sb][j + 1]]]
<1>1. \A j \in 1..Sizes[subband] - 2 :
        j <= cell <=> unk9 * Tables[subband][j] <= magnitude * OneStep
  BY Zenon DEF Quantiser!FindsCell, Quantiser!Last
<1>2. Len(Sl1[subband]) \in Nat
  BY TablesAssumption
<1>3. /\ Sizes[subband] = Len(Sl1[subband])
      /\ Tables[subband] = [j \in 0..Len(Sl1[subband]) - 1 |-> Sl1[subband][j + 1]]
  OBVIOUS
<1> HIDE DEF Sizes, Tables
<1> SUFFICES ASSUME NEW j \in 1..Len(Sl1[subband]) - 2, j <= cell
             PROVE  unk9 * Sl1[subband][j + 1] <= magnitude * OneStep
  BY DEF Reached
<1>4. j \in 0..Len(Sl1[subband]) - 1
  BY <1>2
<1>5. Tables[subband][j] = Sl1[subband][j + 1]
  BY <1>3, <1>4, Zenon
<1>6. unk9 * Tables[subband][j] <= magnitude * OneStep
  BY <1>1, <1>3, Zenon
<1> QED
  BY <1>5, <1>6, Zenon

(* The cell that is found, and the one below it where there is one, can be *)
(* chosen.                                                                 *)
LEMMA ReachedCanBeChosen ==
    ASSUME StepInv, NEW magnitude \in Nat, magnitude <= LargestMagnitude,
           NEW cell \in 0..Len(Sl1[subband]) - 2, Reached(magnitude, cell),
           NEW c \in {cell, cell + 1}, c # 0
    PROVE  c \in Entries(subband) /\ CanChoose(c)
<1>1. /\ subband \in Subbands /\ Sl1[subband] \in Seq(Int)
      /\ Len(Sl1[subband]) = Len(Incr[subband]) + 1
      /\ Incr[subband] \in Seq(Int)
  BY TablesAssumption, IncrAssumption DEF StepInv, LogInRange
<1>2. c \in 1..Len(Incr[subband]) /\ c \in 1..Len(Sl1[subband])
  <2> DEFINE length == Len(Incr[subband])
             borders == Len(Sl1[subband])
  <2>1. length \in Nat /\ borders = length + 1 /\ cell \in 0..borders - 2
    BY <1>1
  <2> HIDE DEF length, borders
  <2>2. c \in 1..length /\ c \in 1..borders
    BY <2>1
  <2> QED
    BY <2>2 DEF length, borders
<1>3. unk9 \in Nat
  <2>1. StepOf(unk10) \in Nat
    BY StepBounded DEF StepInv, LogInRange
  <2> QED
    BY <2>1 DEF StepInv
<1>4. CASE c = 1
  BY <1>1, <1>2, <1>4 DEF Entries, CanChoose
<1>5. CASE c # 1
  <2>1. c - 1 \in 1..Len(Sl1[subband]) - 2 /\ c - 1 <= cell
    BY <1>1, <1>2, <1>5
  <2>2. Sl1[subband][c] \in Int /\ (c - 1) + 1 = c
    <3>1. Sl1[subband] \in Seq(Int) /\ c \in 1..Len(Sl1[subband])
      BY <1>1, <1>2
    <3>2. Sl1[subband][c] \in Int
      BY <3>1
    <3>3. (c - 1) + 1 = c
      BY <1>2
    <3> QED
      BY <3>2, <3>3
  <2>3. unk9 * Sl1[subband][c] <= magnitude * OneStep
    BY <2>1, <2>2 DEF Reached
  <2>4. -Product19(-Sl1[subband][c], unk9) <= 2 * (INT24_MAX + 1)
    BY <1>3, <2>2, <2>3, BorderBelow, Zenon
  <2> QED
    BY <1>1, <1>2, <2>4 DEF Entries, CanChoose
<1> QED
  BY <1>4, <1>5

(* Either fits.                                                            *)
LEMMA ReachedFits ==
    ASSUME StepInv, NEW magnitude \in 0..LargestMagnitude,
           NEW cell \in 0..Len(Sl1[subband]) - 2, Reached(magnitude, cell)
    PROVE  Fits(cell + 1) /\ (cell # 0 => Fits(cell))
<1>1. magnitude \in Nat /\ magnitude <= LargestMagnitude
  BY LargestIsNatural
<1>2. ASSUME NEW c \in {cell, cell + 1}, c # 0 PROVE Fits(c)
  <2>1. c \in Entries(subband) /\ CanChoose(c)
    BY <1>1, <1>2, ReachedCanBeChosen
  <2> QED
    BY <2>1, UnclampedDifferenceFits, ClampedDifferenceFits
<1>3. cell + 1 # 0
  OBVIOUS
<1> QED
  BY <1>2, <1>3

(* Whatever a difference of 24 bits is quantised to, the cell the search   *)
(* finds or the one below, with either sign, comes back as a difference    *)
(* that leaves the prediction's sums room, in every subband of both        *)
(* codecs, at any step and for any dither.                                 *)
THEOREM QuantisedFits ==
    Spec => [](\A magnitude \in 0..LargestMagnitude :
                 \A cell \in 0..Len(Sl1[subband]) - 2 :
                   Quantiser(magnitude, cell)!FindsCell =>
                     Fits(cell + 1) /\ (cell # 0 => Fits(cell)))
<1>1. StepInv =>
        \A magnitude \in 0..LargestMagnitude : \A cell \in 0..Len(Sl1[subband]) - 2 :
          Quantiser(magnitude, cell)!FindsCell =>
            Fits(cell + 1) /\ (cell # 0 => Fits(cell))
  <2> SUFFICES ASSUME StepInv, NEW magnitude \in 0..LargestMagnitude,
                      NEW cell \in 0..Len(Sl1[subband]) - 2,
                      Quantiser(magnitude, cell)!FindsCell
               PROVE  Fits(cell + 1) /\ (cell # 0 => Fits(cell))
    OBVIOUS
  <2>1. Reached(magnitude, cell)
    BY FoundIsReached DEF StepInv, LogInRange
  <2> QED
    BY <2>1, ReachedFits
<1> QED
  BY <1>1, StepInvariant, PTL
=============================================================================
