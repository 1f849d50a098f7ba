------------------------------ MODULE QmfProofs ------------------------------
(***************************************************************************)
(* The filter banks, for any number and any values of the coefficients and *)
(* any samples, and the rounding of mathex.h they rest on, for every       *)
(* argument.                                                               *)
(***************************************************************************)
EXTENDS Qmf, FiniteSetTheorems, TLAPS

-----------------------------------------------------------------------------
(* Rounding                                                                *)

(* Quotient and remainder.                                                 *)
LEMMA DivFacts ==
    ASSUME NEW x \in Int, NEW m \in Nat, m > 0
    PROVE  /\ x \div m \in Int
           /\ x % m \in 0..m - 1
           /\ x = m * (x \div m) + (x % m)
OBVIOUS

(* Quotient and remainder are the only ones.                               *)
LEMMA DivMod ==
    ASSUME NEW m \in Nat, m > 0, NEW k \in Int, NEW a \in 0..m - 1
    PROVE  /\ (a + m * k) % m = a
           /\ (a + m * k) \div m = k
<1>1. (a + m * k) \div m = k
  OBVIOUS
<1>2. (a + m * k) = m * ((a + m * k) \div m) + ((a + m * k) % m)
  OBVIOUS
<1> QED
  BY <1>1, <1>2

(* A tie test that sees just the bits shifted out rounds exact halves      *)
(* down: rshift8 and rshift32 do what the comment in mathex.h says.        *)
THEOREM HalfDown ==
    ASSUME NEW half \in Nat, half > 0, NEW v \in Int
    PROVE  /\ RoundingShift(v, half, 2 * half) \in Int
           /\ IsHalfDown(v, 2 * half, RoundingShift(v, half, 2 * half))
<1> DEFINE q == v \div (2 * half)
           a == v % (2 * half)
           m == 2 * half
<1>1. q \in Int /\ a \in 0..m - 1 /\ v = a + m * q /\ m \in Nat /\ m > 0
  BY DivFacts
<1>2. RoundingShift(v, half, m) = ((v + half) \div m) - (IF a = half THEN 1 ELSE 0)
  BY DEF RoundingShift
<1> HIDE DEF q, a
<1>3. CASE a < half
  <2>1. v + half = (a + half) + m * q /\ a + half \in 0..m - 1
    BY <1>1, <1>3
  <2>2. (v + half) \div m = q
    BY <1>1, <2>1, DivMod
  <2>3. v - m * q = a
    BY <1>1
  <2> HIDE DEF m
  <2> QED
    BY <1>1, <1>2, <1>3, <2>2, <2>3 DEF IsHalfDown, Nearest, m
<1>4. CASE a >= half
  <2>1. v + half = (a - half) + m * (q + 1) /\ a - half \in 0..m - 1
    BY <1>1, <1>4
  <2>2. (v + half) \div m = q + 1
    BY <1>1, <2>1, DivMod
  <2>3. v - m * q = a /\ v - m * (q + 1) = a - m
    BY <1>1
  <2>4. CASE a = half
    BY <1>1, <1>2, <2>2, <2>3, <2>4 DEF IsHalfDown, Nearest
  <2>5. CASE a # half
    BY <1>1, <1>2, <1>4, <2>2, <2>3, <2>5 DEF IsHalfDown, Nearest
  <2> QED
    BY <2>4, <2>5
<1> QED
  BY <1>1, <1>3, <1>4

(* A tie test that sees one bit more rounds exact halves to even: this is  *)
(* rshift15 and rshift23.                                                  *)
THEOREM HalfEven ==
    ASSUME NEW half \in Nat, half > 0, NEW v \in Int
    PROVE  /\ RoundingShift(v, half, 4 * half) \in Int
           /\ IsHalfEven(v, 2 * half, RoundingShift(v, half, 4 * half))
<1> DEFINE q == v \div (4 * half)
           a == v % (4 * half)
           m == 2 * half
           r == RoundingShift(v, half, 4 * half)
<1>1. q \in Int /\ a \in 0..4 * half - 1 /\ v = a + (4 * half) * q
      /\ m \in Nat /\ m > 0
  BY DivFacts
<1>2. r = ((v + half) \div m) - (IF a = half THEN 1 ELSE 0)
  BY DEF RoundingShift
<1>3. v = a + m * (2 * q)
  BY <1>1
<1>4. \A k \in Int : (2 * q) % 2 = 0 /\ (2 * q + 2) % 2 = 0 /\ 2 * q \in Int
  BY <1>1
<1> HIDE DEF q, a, r
<1>5. CASE a <= half
  <2>1. r = 2 * q
    <3>1. CASE a < half
      <4>1. v + half = (a + half) + m * (2 * q) /\ a + half \in 0..m - 1
        BY <1>1, <1>3, <3>1
      <4>2. (v + half) \div m = 2 * q
        BY <1>1, <1>4, <4>1, DivMod
      <4> QED
        BY <1>1, <1>2, <3>1, <4>2
    <3>2. CASE a = half
      <4>1. v + half = 0 + m * (2 * q + 1)
        BY <1>1, <1>3, <3>2
      <4>2. (v + half) \div m = 2 * q + 1
        BY <1>1, <4>1, DivMod
      <4> QED
        BY <1>1, <1>2, <3>2, <4>2
    <3> QED
      BY <1>1, <1>5, <3>1, <3>2
  <2>2. v - m * r = a
    BY <1>1, <1>3, <2>1
  <2>3. r % 2 = 0 /\ r \in Int
    BY <1>1, <1>4, <2>1
  <2> QED
    BY <1>1, <1>5, <2>2, <2>3 DEF IsHalfEven, Nearest, r
<1>6. CASE a > half /\ a < 3 * half
  <2>1. v + half = (a - half) + m * (2 * q + 1) /\ a - half \in 0..m - 1
    BY <1>1, <1>3, <1>6
  <2>2. r = 2 * q + 1
    BY <1>1, <1>2, <1>6, <2>1, DivMod
  <2>3. v - m * r = a - m /\ r \in Int
    BY <1>1, <1>3, <2>2
  <2> QED
    BY <1>1, <1>6, <2>3 DEF IsHalfEven, Nearest, r
<1>7. CASE a >= 3 * half
  <2>1. v + half = (a - 3 * half) + m * (2 * q + 2) /\ a - 3 * half \in 0..m - 1
    BY <1>1, <1>3, <1>7
  <2>2. r = 2 * q + 2
    BY <1>1, <1>2, <1>7, <2>1, DivMod
  <2>3. v - m * r = a - 2 * m /\ r % 2 = 0 /\ r \in Int
    BY <1>1, <1>3, <1>4, <2>2
  <2> QED
    BY <1>1, <1>7, <2>3 DEF IsHalfEven, Nearest, r
<1> QED
  BY <1>1, <1>5, <1>6, <1>7

(* rshift8 and the distance of a quantiser decision send an exact half to  *)
(* the smaller neighbour, for negative arguments too.                      *)
THEOREM HalvesGoDown ==
    ASSUME NEW v \in Int
    PROVE  /\ IsHalfDown(v, 256, RShift8(v))
           /\ IsHalfDown(v, 8, DistanceShift(v))
<1>1. IsHalfDown(v, 2 * 128, RoundingShift(v, 128, 2 * 128))
  BY HalfDown, SMT
<1>2. IsHalfDown(v, 2 * 4, RoundingShift(v, 4, 2 * 4))
  BY HalfDown, SMT
<1>3. (32 * v) % 256 = 128 <=> v % 8 = 4
  BY SMT
<1>4. DistanceShift(v) = RoundingShift(v, 4, 2 * 4)
  BY <1>3, SMT DEF DistanceShift, RoundingShift
<1> QED
  BY <1>1, <1>2, <1>4, SMT DEF RShift8

(* rshift15, rshift23, the tap update and the hand-written shift by one    *)
(* send an exact half to the even neighbour.                               *)
THEOREM HalvesGoEven ==
    ASSUME NEW v \in Int
    PROVE  /\ IsHalfEven(v, 32768, RShift15(v))
           /\ IsHalfEven(v, 8388608, RShift23(v))
           /\ IsHalfEven(v, 256, TapShift(v))
           /\ IsHalfEven(v, 2, RShift1(v))
<1>1. IsHalfEven(v, 2 * 16384, RoundingShift(v, 16384, 4 * 16384))
  BY HalfEven, SMT
<1>2. IsHalfEven(v, 2 * 4194304, RoundingShift(v, 4194304, 4 * 4194304))
  BY HalfEven, SMT
<1>3. IsHalfEven(v, 2 * 128, RoundingShift(v, 128, 4 * 128))
  BY HalfEven, SMT
<1>4. IsHalfEven(v, 2 * 1, RoundingShift(v, 1, 4 * 1))
  BY HalfEven, SMT
<1>5. (v + 128) % 512 = 256 <=> v % 512 = 128
  BY SMT
<1>6. TapShift(v) = RoundingShift(v, 128, 4 * 128)
  BY <1>5, SMT DEF TapShift, RoundingShift
<1>7. RShift1(v) = RoundingShift(v, 1, 4 * 1)
  BY SMT DEF RShift1, RoundingShift
<1> QED
  BY <1>1, <1>2, <1>3, <1>4, <1>6, <1>7, SMT DEF RShift15, RShift23

-----------------------------------------------------------------------------
(* The sum over a window                                                   *)

(* Induction: a set that has zero and is closed under the successor has    *)
(* every natural number.  If it missed m, its members below m would be     *)
(* mapped to themselves by the successor, injectively and so, being        *)
(* finitely many, onto; but nothing is mapped to zero.                     *)
LEMMA SetInduction ==
    ASSUME NEW S, 0 \in S, \A n \in Nat : n \in S => n + 1 \in S
    PROVE  Nat \subseteq S
<1> SUFFICES ASSUME NEW m \in Nat, m \notin S PROVE FALSE
  OBVIOUS
<1> DEFINE T == S \cap (0..m)
           succ == [n \in T |-> n + 1]
<1>1. IsFiniteSet(T)
  <2>1. IsFiniteSet(0..m)
    BY FS_Interval
  <2> QED
    BY <2>1, FS_Subset
<1>2. \A n \in T : n + 1 \in T
  OBVIOUS
<1>3. succ \in Injection(T, T)
  BY <1>2 DEF Injection, IsInjective
<1>4. succ \in Surjection(T, T)
  BY <1>1, <1>3, FS_Injection
<1>5. PICK n \in T : succ[n] = 0
  <2>1. 0 \in T
    OBVIOUS
  <2> HIDE DEF T, succ
  <2> QED
    BY <1>4, <2>1 DEF Surjection
<1> QED
  BY <1>5

(* The partial sums of Dot.                                                *)
IsSums(s, c, w) ==
    s = [k \in 0..Length |-> IF k = 0 THEN 0 ELSE s[k - 1] + c[k - 1] * w[k - 1]]

(* The partial sums exist.                                                 *)
LEMMA SumsExist ==
    ASSUME NEW c, NEW w
    PROVE  \E s : IsSums(s, c, w)
<1> DEFINE UpTo(n, s) ==
             s = [k \in 0..n |->
                    IF k = 0 THEN 0 ELSE s[k - 1] + c[k - 1] * w[k - 1]]
           S == {n \in Nat : \E s : UpTo(n, s)}
<1>1. 0 \in S
  <2>1. UpTo(0, [k \in 0..0 |-> 0])
    OBVIOUS
  <2> QED
    BY <2>1
<1>2. ASSUME NEW n \in Nat, n \in S PROVE n + 1 \in S
  <2>1. PICK s : UpTo(n, s)
    BY <1>2
  <2> DEFINE t == [k \in 0..n + 1 |->
                     IF k = n + 1 THEN s[n] + c[n] * w[n] ELSE s[k]]
  <2>2. ASSUME NEW k \in 0..n + 1
        PROVE  t[k] = IF k = 0 THEN 0 ELSE t[k - 1] + c[k - 1] * w[k - 1]
    <3>1. CASE k = n + 1
      BY <3>1
    <3>2. CASE k # n + 1
      <4>1. k \in 0..n
        BY <3>2
      <4>2. s[k] = IF k = 0 THEN 0 ELSE s[k - 1] + c[k - 1] * w[k - 1]
        BY <2>1, <4>1
      <4>3. k # 0 => t[k - 1] = s[k - 1]
        BY <4>1
      <4> QED
        BY <3>2, <4>2, <4>3
    <3> QED
      BY <3>1, <3>2
  <2>3. UpTo(n + 1, t)
    BY <2>2
  <2> HIDE DEF UpTo, t
  <2> QED
    BY <2>3
<1> HIDE DEF S
<1>3. Nat \subseteq S
  BY <1>1, <1>2, SetInduction
<1>4. Length \in Nat
  BY LengthAssumption
<1> QED
  BY <1>3, <1>4 DEF S, IsSums

(* Dot is the last of them.                                                *)
LEMMA DotIsSum ==
    ASSUME NEW c, NEW w
    PROVE  \E s : IsSums(s, c, w) /\ Dot(c, w) = s[Length]
<1> DEFINE s == CHOOSE t : IsSums(t, c, w)
<1>1. IsSums(s, c, w)
  BY SumsExist
<1>2. Dot(c, w) = s[Length]
  BY DEF Dot, IsSums
<1> QED
  BY <1>1, <1>2

(* What is zero adds nothing.                                              *)
LEMMA ZerosAddNothing ==
    ASSUME NEW s, NEW c \in [Places -> Int], NEW w, IsSums(s, c, w),
           NEW a \in 0..Length, NEW b \in a..Length,
           s[a] \in Int, \A k \in a..b - 1 : w[k] = 0
    PROVE  s[b] = s[a]
<1> DEFINE S == {n \in Nat : a + n <= b => s[a + n] = s[a]}
<1>0. Length \in Nat
  BY LengthAssumption
<1>1. 0 \in S
  BY <1>0
<1>2. ASSUME NEW n \in Nat, n \in S PROVE n + 1 \in S
  <2> SUFFICES ASSUME a + (n + 1) <= b PROVE s[a + (n + 1)] = s[a]
    OBVIOUS
  <2>1. s[a + n] = s[a]
    BY <1>0, <1>2
  <2>2. /\ a + n + 1 \in 0..Length /\ a + n + 1 # 0
        /\ a + n \in a..b - 1 /\ a + n \in Places
    BY <1>0 DEF Places
  <2>3. s[a + n + 1] = s[a + n] + c[a + n] * w[a + n]
    BY <2>2 DEF IsSums
  <2>4. c[a + n] \in Int /\ w[a + n] = 0
    BY <2>2
  <2>5. c[a + n] * w[a + n] = 0
    BY <2>4
  <2> QED
    BY <2>1, <2>3, <2>5
<1> HIDE DEF S
<1>3. Nat \subseteq S
  BY <1>1, <1>2, SetInduction
<1>4. b - a \in S
  BY <1>0, <1>3
<1> QED
  BY <1>0, <1>4 DEF S

(* A window with something in its first two places only.                   *)
LEMMA DotFirstTwo ==
    ASSUME NEW c \in [Places -> Int], NEW w \in [Places -> Int],
           \A k \in Places : k > 1 => w[k] = 0
    PROVE  Dot(c, w) = c[0] * w[0] + c[1] * w[1]
<1>1. PICK s : IsSums(s, c, w) /\ Dot(c, w) = s[Length]
  BY DotIsSum
<1>2. Length \in Nat /\ Length >= 2
  BY LengthAssumption
<1>3. 0 \in Places /\ 1 \in Places
  BY <1>2 DEF Places
<1>4. c[0] * w[0] \in Int /\ c[1] * w[1] \in Int
  BY <1>3
<1>5. s[0] = 0 /\ s[1] = s[0] + c[0] * w[0] /\ s[2] = s[1] + c[1] * w[1]
  BY <1>1, <1>2 DEF IsSums
<1>6. s[2] \in Int /\ s[2] = c[0] * w[0] + c[1] * w[1]
  BY <1>4, <1>5
<1>7. s[Length] = s[2]
  <2>1. 2 \in 0..Length /\ Length \in 2..Length
    BY <1>2
  <2>2. \A k \in 2..Length - 1 : w[k] = 0
    BY <1>2 DEF Places
  <2> QED
    BY <1>1, <1>6, <2>1, <2>2, ZerosAddNothing
<1> QED
  BY <1>1, <1>6, <1>7

(* A window with something in its last two places only.                    *)
LEMMA DotLastTwo ==
    ASSUME NEW c \in [Places -> Int], NEW w \in [Places -> Int],
           \A k \in Places : k < Length - 2 => w[k] = 0
    PROVE  Dot(c, w) = c[Length - 2] * w[Length - 2] + c[Length - 1] * w[Length - 1]
<1>1. PICK s : IsSums(s, c, w) /\ Dot(c, w) = s[Length]
  BY DotIsSum
<1>2. Length \in Nat /\ Length >= 2
  BY LengthAssumption
<1> DEFINE y == Length - 2
           z == Length - 1
<1>3. y \in Places /\ z \in Places
  BY <1>2 DEF Places
<1>4. c[y] * w[y] \in Int /\ c[z] * w[z] \in Int
  BY <1>3
<1>5. s[0] = 0
  BY <1>1, <1>2 DEF IsSums
<1>6. s[y] = 0
  <2>1. 0 \in 0..Length /\ y \in 0..Length /\ s[0] \in Int
    BY <1>2, <1>5
  <2>2. \A k \in 0..y - 1 : w[k] = 0
    BY <1>2 DEF Places
  <2> HIDE DEF y
  <2> QED
    BY <1>1, <1>5, <2>1, <2>2, ZerosAddNothing
<1>7. /\ z \in 0..Length /\ z # 0 /\ z - 1 = y
      /\ Length \in 0..Length /\ Length # 0 /\ Length - 1 = z
  BY <1>2
<1> HIDE DEF y, z
<1>8. s[z] = s[y] + c[y] * w[y] /\ s[Length] = s[z] + c[z] * w[z]
  <2>1. s[z] = s[z - 1] + c[z - 1] * w[z - 1]
    BY <1>1, <1>7 DEF IsSums
  <2>2. s[Length] = s[Length - 1] + c[Length - 1] * w[Length - 1]
    BY <1>1, <1>7 DEF IsSums
  <2> QED
    BY <1>7, <2>1, <2>2
<1>9. Dot(c, w) = c[y] * w[y] + c[z] * w[z]
  BY <1>1, <1>4, <1>6, <1>8
<1> QED
  BY <1>9 DEF y, z

-----------------------------------------------------------------------------
(* A ring shows the latest values of a history                             *)

(* The history function V of the proofs below is applied to the numbers of *)
(* the insertions, the latest being m.                                     *)
IsRing(r) ==
    /\ r = [j \in 0..2 * Length - 1 |-> r[j]]
    /\ \A j \in Places : r[j + Length] = r[j]

Shows(r, i, V, m) == \A k \in Places : r[i + k] = V[m - (Length - 1 - k)]

(* Where the next value goes.                                              *)
LEMMA Advances ==
    ASSUME NEW i \in Places
    PROVE  /\ Advance(i) \in Places
           /\ i + 1 < Length => Advance(i) = i + 1
           /\ i + 1 = Length => Advance(i) = 0
<1>1. Length \in Nat /\ Length > 0 /\ i \in 0..Length - 1
  BY LengthAssumption DEF Places
<1>2. CASE i + 1 < Length
  <2>1. (i + 1 + Length * 0) % Length = i + 1
    BY <1>1, <1>2, DivMod
  <2> QED
    BY <1>1, <1>2, <2>1 DEF Advance, Places
<1>3. CASE i + 1 = Length
  <2>1. (0 + Length * 1) % Length = 0
    BY <1>1, DivMod
  <2>2. i + 1 = 0 + Length * 1
    BY <1>1, <1>3
  <2> QED
    BY <1>1, <1>3, <2>1, <2>2 DEF Advance, Places
<1> QED
  BY <1>1, <1>2, <1>3

(* A value put into a ring is seen in both halves and moves the window on, *)
(* wherever the ring wraps.                                                *)
LEMMA PutSlides ==
    ASSUME NEW i \in Places, NEW r, IsRing(r), NEW v
    PROVE  /\ IsRing(Put(r, i, v))
           /\ \A k \in Places : Put(r, i, v)[Advance(i) + k] =
                                  IF k = Length - 1 THEN v ELSE r[i + k + 1]
<1> DEFINE new == Put(r, i, v)
<1>1. Length \in Nat /\ Length > 1 /\ i \in 0..Length - 1
  BY LengthAssumption DEF Places
<1>2. /\ new = [j \in 0..2 * Length - 1 |-> new[j]]
      /\ \A j \in 0..2 * Length - 1 :
           new[j] = IF j = i \/ j = i + Length THEN v ELSE r[j]
  BY <1>1 DEF Put, IsRing
<1> HIDE DEF new
<1>3. ASSUME NEW j \in Places PROVE new[j + Length] = new[j]
  <2>1. /\ j \in 0..2 * Length - 1 /\ j + Length \in 0..2 * Length - 1
        /\ j # i + Length /\ j + Length # i
        /\ j + Length = i + Length <=> j = i
    BY <1>1 DEF Places
  <2>2. r[j + Length] = r[j]
    BY DEF IsRing
  <2> QED
    BY <1>2, <2>1, <2>2
<1>4. ASSUME NEW k \in Places
      PROVE  new[Advance(i) + k] = IF k = Length - 1 THEN v ELSE r[i + k + 1]
  <2>1. k \in 0..Length - 1
    BY DEF Places
  <2>2. CASE i + 1 < Length
    <3>1. /\ Advance(i) + k = i + k + 1
          /\ i + k + 1 \in 0..2 * Length - 1 /\ i + k + 1 # i
          /\ i + k + 1 = i + Length <=> k = Length - 1
      BY <1>1, <2>1, <2>2, Advances
    <3> QED
      BY <1>2, <3>1
  <2>3. CASE i + 1 = Length
    <3>1. /\ Advance(i) + k = k
          /\ k \in 0..2 * Length - 1 /\ k # i + Length
          /\ k = i <=> k = Length - 1
      BY <1>1, <2>1, <2>3, Advances
    <3>2. new[k] = IF k = Length - 1 THEN v ELSE r[k]
      BY <1>2, <3>1
    <3>3. r[i + k + 1] = r[k]
      <4>1. i + k + 1 = k + Length
        BY <1>1, <2>1, <2>3
      <4> QED
        BY <4>1 DEF IsRing
    <3> QED
      BY <3>1, <3>2, <3>3
  <2> QED
    BY <1>1, <2>2, <2>3
<1> QED
  BY <1>2, <1>3, <1>4 DEF IsRing, new

(* When the next value of the history is put in, the ring shows the        *)
(* history one value on.                                                   *)
LEMMA PutShows ==
    ASSUME NEW i \in Places, NEW r, NEW V, NEW m \in Int,
           IsRing(r), Shows(r, i, V, m)
    PROVE  /\ IsRing(Put(r, i, V[m + 1]))
           /\ Shows(Put(r, i, V[m + 1]), Advance(i), V, m + 1)
<1>1. Length \in Nat
  BY LengthAssumption
<1>2. ASSUME NEW k \in Places
      PROVE  Put(r, i, V[m + 1])[Advance(i) + k] = V[(m + 1) - (Length - 1 - k)]
  <2>1. CASE k = Length - 1
    <3>1. (m + 1) - (Length - 1 - k) = m + 1
      BY <1>1, <2>1
    <3> QED
      BY <2>1, <3>1, PutSlides
  <2>2. CASE k # Length - 1
    <3>1. k + 1 \in Places /\ i + (k + 1) = i + k + 1
      BY <1>1, <2>2 DEF Places
    <3>2. m - (Length - 1 - (k + 1)) = (m + 1) - (Length - 1 - k)
      BY <1>1 DEF Places
    <3>3. r[i + k + 1] = V[(m + 1) - (Length - 1 - k)]
      BY <3>1, <3>2 DEF Shows
    <3> QED
      BY <2>2, <3>3, PutSlides
  <2> QED
    BY <2>1, <2>2
<1>3. IsRing(Put(r, i, V[m + 1]))
  BY PutSlides
<1>4. Shows(Put(r, i, V[m + 1]), Advance(i), V, m + 1)
  BY <1>2 DEF Shows
<1> QED
  BY <1>3, <1>4

(* What a bank reads of a ring, backwards or forwards.                     *)
LEMMA WindowsShow ==
    ASSUME NEW i \in Places, NEW r, NEW V, NEW m \in Int, Shows(r, i, V, m)
    PROVE  /\ Backwards(r, i) = [k \in Places |-> V[m - k]]
           /\ Forwards(r, i) = [k \in Places |-> V[m - (Length - 1 - k)]]
<1>1. ASSUME NEW k \in Places PROVE r[i + Length - 1 - k] = V[m - k]
  <2>1. /\ Length - 1 - k \in Places
        /\ i + (Length - 1 - k) = i + Length - 1 - k
        /\ m - (Length - 1 - (Length - 1 - k)) = m - k
    BY LengthAssumption DEF Places
  <2> QED
    BY <2>1 DEF Shows
<1> QED
  BY <1>1 DEF Backwards, Forwards, Shows

(* A ring does not care for what comes after.                              *)
LEMMA ShowsStays ==
    ASSUME NEW r, NEW i, NEW V, NEW W, NEW m \in Int,
           Shows(r, i, V, m), \A j \in Int : j <= m => W[j] = V[j]
    PROVE  Shows(r, i, W, m)
<1>1. ASSUME NEW k \in Places
      PROVE  m - (Length - 1 - k) \in Int /\ m - (Length - 1 - k) <= m
  BY LengthAssumption DEF Places
<1> QED
  BY <1>1 DEF Shows

(* A sum of zeros is zero.                                                 *)
LEMMA DotOfZeros ==
    ASSUME NEW c \in [Places -> Int], NEW w \in [Places -> Int],
           \A k \in Places : w[k] = 0
    PROVE  Dot(c, w) = 0
<1>1. 0 \in Places /\ 1 \in Places
  BY LengthAssumption DEF Places
<1>2. c[0] * w[0] = 0 /\ c[1] * w[1] = 0
  BY <1>1
<1>3. Dot(c, w) = c[0] * w[0] + c[1] * w[1]
  BY DotFirstTwo
<1> QED
  BY <1>2, <1>3

(* Less than half a unit is rounded away.                                  *)
LEMMA RoundsAway ==
    ASSUME NEW half \in Nat, half > 0, NEW v \in Int, -half < v, v < half
    PROVE  RoundingShift(v, half, 4 * half) = 0
<1> DEFINE r == RoundingShift(v, half, 4 * half)
<1>1. r \in Int /\ Nearest(v, 2 * half, r)
  BY HalfEven DEF IsHalfEven
<1> HIDE DEF r
<1>2. CASE r >= 1
  <2>1. half * r >= half
    BY <1>1, <1>2
  <2> QED
    BY <1>1, <2>1 DEF Nearest
<1>3. CASE r <= -1
  <2>1. half * r <= -half
    BY <1>1, <1>3
  <2> QED
    BY <1>1, <2>1 DEF Nearest
<1> QED
  BY <1>1, <1>2, <1>3 DEF r

(* A bank makes nothing of nothing.                                        *)
LEMMA BankOfZeros ==
    ASSUME NEW c \in [Places -> Int], NEW half \in Nat, half > 0,
           NEW v \in [Places -> Int], NEW w \in [Places -> Int],
           \A k \in Places : v[k] = 0 /\ w[k] = 0
    PROVE  Bank(c, half, v, w) = [a |-> 0, b |-> 0]
<1>1. Dot(c, v) = 0 /\ Dot(c, w) = 0
  BY DotOfZeros
<1>2. RoundingShift(0, half, 4 * half) = 0
  BY RoundsAway
<1>3. ClampInt24(0) = 0
  BY SMT DEF ClampInt24, ClipRange, INT24_MIN, INT24_MAX
<1> QED
  BY <1>1, <1>2, <1>3 DEF Bank

-----------------------------------------------------------------------------
(* The rings show what was heard                                           *)

Groups == Len(heard) \div 4

(* The histories of the two outer rings and of the four inner ones.        *)
Firsts == [m \in Int |-> Sample(2 * m - 1)]
Seconds == [m \in Int |-> Sample(2 * m)]
Outers == [m \in Int |-> Outer(m)]
LateA == [g \in Int |-> Outer(2 * g).a]
EarlyB == [g \in Int |-> Outer(2 * g - 1).b]
EarlyA == [g \in Int |-> Outer(2 * g - 1).a]
LateB == [g \in Int |-> Outer(2 * g).b]

Silence == [sb \in 0..3 |-> 0]

HeardOK ==
    /\ heard \in Seq(-2 * OuterHalf..2 * OuterHalf - 1)
    /\ Len(heard) = 4 * Groups
    /\ Groups \in Nat
    /\ Groups <= 1 => refs = Silence
    /\ Groups = 0 => diff = Silence

OuterOK ==
    /\ i_outer \in Places
    /\ IsRing(outer[0]) /\ Shows(outer[0], i_outer, Firsts, 2 * Groups)
    /\ IsRing(outer[1]) /\ Shows(outer[1], i_outer, Seconds, 2 * Groups)

InnerOK ==
    /\ i_inner \in Places
    /\ IsRing(inner[0]) /\ Shows(inner[0], i_inner, LateA, Groups)
    /\ IsRing(inner[1]) /\ Shows(inner[1], i_inner, EarlyB, Groups)
    /\ IsRing(inner[2]) /\ Shows(inner[2], i_inner, EarlyA, Groups)
    /\ IsRing(inner[3]) /\ Shows(inner[3], i_inner, LateB, Groups)

(* The inductive invariant: each ring, read from its index on, shows the   *)
(* latest part of the history it is for.                                   *)
FilterInv == HeardOK /\ OuterOK /\ InnerOK /\ IsFilterBank

(* An outer bank reads the latest values of both histories.                *)
LEMMA OuterOfHistories ==
    ASSUME NEW m \in Int
    PROVE  Outer(m) = Bank(OuterCoeffs, OuterHalf,
                           [k \in Places |-> Firsts[m - k]],
                           [k \in Places |-> Seconds[m - (Length - 1 - k)]])
<1>1. ASSUME NEW k \in Places
      PROVE  /\ Firsts[m - k] = Sample(2 * (m - k) - 1)
             /\ Seconds[m - (Length - 1 - k)] = Sample(2 * (m - (Length - 1 - k)))
  BY LengthAssumption DEF Places, Firsts, Seconds
<1> QED
  BY <1>1 DEF Outer

(* An inner bank likewise.                                                 *)
LEMMA InnerOfHistories ==
    ASSUME NEW g \in Int
    PROVE  /\ InnerA(g) = Bank(InnerCoeffs, InnerHalf,
                           [k \in Places |-> EarlyA[g - k]],
                           [k \in Places |-> LateA[g - (Length - 1 - k)]])
           /\ InnerB(g) = Bank(InnerCoeffs, InnerHalf,
                           [k \in Places |-> EarlyB[g - k]],
                           [k \in Places |-> LateB[g - (Length - 1 - k)]])
<1>1. ASSUME NEW k \in Places
      PROVE  /\ EarlyA[g - k] = Outer(2 * (g - k) - 1).a
             /\ EarlyB[g - k] = Outer(2 * (g - k) - 1).b
             /\ LateA[g - (Length - 1 - k)] = Outer(2 * (g - (Length - 1 - k))).a
             /\ LateB[g - (Length - 1 - k)] = Outer(2 * (g - (Length - 1 - k))).b
  BY LengthAssumption DEF Places, EarlyA, EarlyB, LateA, LateB
<1> QED
  BY <1>1 DEF InnerA, InnerB

(* Before anything was heard there is nothing in the outer banks.          *)
LEMMA NothingBefore ==
    ASSUME HeardOK, NEW m \in Int, m <= 0
    PROVE  Outer(m) = [a |-> 0, b |-> 0]
<1> DEFINE v == [k \in Places |-> Sample(2 * (m - k) - 1)]
           w == [k \in Places |-> Sample(2 * (m - (Length - 1 - k)))]
<1>1. ASSUME NEW k \in Places PROVE v[k] = 0 /\ w[k] = 0
  <2>1. 2 * (m - k) - 1 < 1 /\ 2 * (m - (Length - 1 - k)) < 1
    BY LengthAssumption DEF Places
  <2> QED
    BY <2>1 DEF Sample
<1>2. v \in [Places -> Int] /\ w \in [Places -> Int]
  BY <1>1
<1>3. OuterHalf \in Nat /\ OuterHalf > 0 /\ OuterCoeffs \in [Places -> Int]
  BY HalvesAssumption, CoeffsAssumption
<1>4. Outer(m) = Bank(OuterCoeffs, OuterHalf, v, w)
  BY DEF Outer
<1> HIDE DEF v, w
<1> QED
  BY <1>1, <1>2, <1>3, <1>4, BankOfZeros

(* The rings are silent at first.                                          *)
LEMMA Beginning == Init => FilterInv
<1> SUFFICES ASSUME Init PROVE FilterInv
  OBVIOUS
<1>1. Groups = 0 /\ Len(heard) = 0
  BY DEF Init, Groups
<1>2. HeardOK
  BY <1>1 DEF Init, HeardOK, Silence
<1>3. 0 \in Places /\ Length \in Nat
  BY LengthAssumption DEF Places
<1>4. IsRing(Silent)
  BY <1>3 DEF IsRing, Silent, Places
<1>5. ASSUME NEW V, \A m \in Int : m <= 0 => V[m] = 0
      PROVE  Shows(Silent, 0, V, 0)
  <2> SUFFICES ASSUME NEW k \in Places
               PROVE  Silent[0 + k] = V[0 - (Length - 1 - k)]
    BY DEF Shows
  <2>1. /\ 0 + k \in 0..2 * Length - 1
        /\ 0 - (Length - 1 - k) \in Int /\ 0 - (Length - 1 - k) <= 0
    BY <1>3 DEF Places
  <2> QED
    BY <1>5, <2>1 DEF Silent
<1>6. OuterOK
  <2>1. \A m \in Int : m <= 0 => Firsts[m] = 0 /\ Seconds[m] = 0
    BY <1>1 DEF Firsts, Seconds, Sample
  <2>2. Shows(Silent, 0, Firsts, 0) /\ Shows(Silent, 0, Seconds, 0)
    BY <1>5, <2>1
  <2>3. /\ outer[0] = Silent /\ outer[1] = Silent /\ i_outer = 0
        /\ 2 * Groups = 0
    BY <1>1 DEF Init
  <2> QED
    BY <1>3, <1>4, <2>2, <2>3 DEF OuterOK
<1>7. InnerOK
  <2>1. \A m \in Int : m <= 0 => /\ LateA[m] = 0 /\ EarlyB[m] = 0
                                /\ EarlyA[m] = 0 /\ LateB[m] = 0
    <3> SUFFICES ASSUME NEW m \in Int, m <= 0
                 PROVE  /\ LateA[m] = 0 /\ EarlyB[m] = 0
                        /\ EarlyA[m] = 0 /\ LateB[m] = 0
      OBVIOUS
    <3>1. /\ 2 * m \in Int /\ 2 * m <= 0
          /\ 2 * m - 1 \in Int /\ 2 * m - 1 <= 0
      OBVIOUS
    <3>2. Outer(2 * m) = [a |-> 0, b |-> 0] /\ Outer(2 * m - 1) = [a |-> 0, b |-> 0]
      BY <1>2, <3>1, NothingBefore
    <3> QED
      BY <3>2 DEF LateA, EarlyB, EarlyA, LateB
  <2>2. /\ Shows(Silent, 0, LateA, 0) /\ Shows(Silent, 0, EarlyB, 0)
        /\ Shows(Silent, 0, EarlyA, 0) /\ Shows(Silent, 0, LateB, 0)
    BY <1>5, <2>1
  <2>3. /\ inner[0] = Silent /\ inner[1] = Silent
        /\ inner[2] = Silent /\ inner[3] = Silent /\ i_inner = 0
    BY DEF Init
  <2> QED
    BY <1>1, <1>3, <1>4, <2>2, <2>3 DEF InnerOK
<1>8. IsFilterBank
  BY <1>1 DEF IsFilterBank
<1> QED
  BY <1>2, <1>6, <1>7, <1>8 DEF FilterInv

(* A call, taken apart.                                                    *)
First(samples) ==
    OuterBank(PutPair(outer, i_outer, samples[0], samples[1]), Advance(i_outer))

Rings(samples) ==
    PutPair(PutPair(outer, i_outer, samples[0], samples[1]),
            Advance(i_outer), samples[2], samples[3])

Second(samples) == OuterBank(Rings(samples), Advance(Advance(i_outer)))

Call(samples, predicted) ==
    /\ samples \in Frames /\ predicted \in Refs
    /\ heard = <<>> => predicted = [sb \in 0..3 |-> 0]
    /\ Analysis(samples, predicted)

(* What the inner banks make of their rings.                               *)
Low == InnerBank(inner[2], inner[0], i_inner)
High == InnerBank(inner[1], inner[3], i_inner)

(* What a call leaves in the rings, and its result.                        *)
LEMMA CallSteps ==
    ASSUME NEW samples, NEW predicted, Call(samples, predicted)
    PROVE  /\ outer' = Rings(samples)
           /\ i_outer' = Advance(Advance(i_outer))
           /\ inner'[0] = Put(inner[0], i_inner, Second(samples).a)
           /\ inner'[1] = Put(inner[1], i_inner, First(samples).b)
           /\ inner'[2] = Put(inner[2], i_inner, First(samples).a)
           /\ inner'[3] = Put(inner[3], i_inner, Second(samples).b)
           /\ i_inner' = Advance(i_inner)
           /\ diff' = [sb \in 0..3 |->
                         ClampInt24(<<Low'.a, Low'.b, High'.a, High'.b>>[sb + 1]
                                      - refs'[sb])]
<1> DEFINE a == Second(samples)
           b == First(samples)
           in == <<a.a, b.b, b.a, a.b>>
           rings3 == [n \in 0..3 |-> Put(inner[n], i_inner, in[n + 1])]
           low == InnerBank(rings3[2], rings3[0], Advance(i_inner))
           high == InnerBank(rings3[1], rings3[3], Advance(i_inner))
<1>1. /\ outer' = Rings(samples)
      /\ i_outer' = Advance(Advance(i_outer))
      /\ inner' = rings3
      /\ i_inner' = Advance(i_inner)
      /\ diff' = [sb \in 0..3 |->
                    ClampInt24(<<low.a, low.b, high.a, high.b>>[sb + 1]
                                 - predicted[sb])]
      /\ refs' = predicted
  BY Zenon DEF Call, Analysis, First, Second, Rings
<1>2. /\ rings3[0] = Put(inner[0], i_inner, a.a)
      /\ rings3[1] = Put(inner[1], i_inner, b.b)
      /\ rings3[2] = Put(inner[2], i_inner, b.a)
      /\ rings3[3] = Put(inner[3], i_inner, a.b)
  <2> HIDE DEF a, b
  <2>1. /\ in[0 + 1] = a.a /\ in[1 + 1] = b.b
        /\ in[2 + 1] = b.a /\ in[3 + 1] = a.b
    OBVIOUS
  <2> HIDE DEF in
  <2> QED
    BY <2>1
<1>3. Low' = low /\ High' = high
  BY <1>1, Zenon DEF Low, High
<1> HIDE DEF rings3, low, high, a, b
<1>4. /\ inner'[0] = rings3[0] /\ inner'[1] = rings3[1]
      /\ inner'[2] = rings3[2] /\ inner'[3] = rings3[3]
  BY <1>1
<1> USE DEF a, b
<1> QED
  BY <1>1, <1>2, <1>3, <1>4, Zenon

(* The history grows by a group and keeps what it had.                     *)
LEMMA HistoryGrows ==
    ASSUME HeardOK, NEW samples, NEW predicted, Call(samples, predicted)
    PROVE  /\ HeardOK'
           /\ Groups' = Groups + 1
           /\ refs' \in [0..3 -> Int]
           /\ \A m \in Int : m <= 2 * Groups =>
                Firsts'[m] = Firsts[m] /\ Seconds'[m] = Seconds[m]
           /\ Firsts'[2 * Groups + 1] = samples[0]
           /\ Seconds'[2 * Groups + 1] = samples[1]
           /\ Firsts'[2 * Groups + 2] = samples[2]
           /\ Seconds'[2 * Groups + 2] = samples[3]
<1> DEFINE G == Groups
           R == -2 * OuterHalf..2 * OuterHalf - 1
           four == <<samples[0], samples[1], samples[2], samples[3]>>
<1>1. /\ heard \in Seq(R) /\ Len(heard) = 4 * G /\ G \in Nat
      /\ heard' = heard \o four /\ refs' = predicted
  BY DEF HeardOK, Call, Analysis
<1>2. samples \in [0..3 -> R] /\ predicted \in [0..3 -> Int]
  BY FramesAssumption, RefsAssumption DEF Call
<1> HIDE DEF R
<1>3. four \in Seq(R) /\ Len(four) = 4
  BY <1>2
<1>4. /\ heard' \in Seq(R) /\ Len(heard') = 4 * G + 4
      /\ \A n \in 1..4 * G : heard'[n] = heard[n]
      /\ heard'[4 * G + 1] = samples[0] /\ heard'[4 * G + 2] = samples[1]
      /\ heard'[4 * G + 3] = samples[2] /\ heard'[4 * G + 4] = samples[3]
  <2> HIDE DEF G
  <2>1. heard' \in Seq(R) /\ Len(heard') = 4 * G + 4
    BY <1>1, <1>3
  <2>2. \A n \in 1..4 * G + 4 :
          heard'[n] = IF n <= 4 * G THEN heard[n] ELSE four[n - 4 * G]
    BY <1>1, <1>3
  <2>4. /\ four[1] = samples[0] /\ four[2] = samples[1]
        /\ four[3] = samples[2] /\ four[4] = samples[3]
    OBVIOUS
  <2> HIDE DEF four
  <2>5. \A n \in 1..4 * G : heard'[n] = heard[n]
    BY <1>1, <2>2
  <2>6. ASSUME NEW n \in 1..4 PROVE heard'[4 * G + n] = four[n]
    <3>1. /\ 4 * G + n \in 1..4 * G + 4 /\ ~(4 * G + n <= 4 * G)
          /\ (4 * G + n) - 4 * G = n
      BY <1>1
    <3> QED
      BY <2>2, <3>1
  <2>7. 1 \in 1..4 /\ 2 \in 1..4 /\ 3 \in 1..4 /\ 4 \in 1..4
    OBVIOUS
  <2> QED
    BY <2>1, <2>4, <2>5, <2>6, <2>7, Zenon
<1>5. Groups' = G + 1
  <2> HIDE DEF G
  <2> QED
    BY <1>1, <1>4 DEF Groups
<1>6. HeardOK'
  <2>1. G + 1 <= 1 => refs' = Silence
    <3> SUFFICES ASSUME G + 1 <= 1 PROVE predicted = Silence
      BY <1>1
    <3>1. Len(heard) = 0
      BY <1>1
    <3>2. heard = <<>>
      BY <1>1, <3>1
    <3> QED
      BY <3>2 DEF Call, Silence
  <2>2. G + 1 \in Nat /\ G + 1 # 0 /\ 4 * (G + 1) = 4 * G + 4
    BY <1>1
  <2> HIDE DEF G
  <2> QED
    BY <1>4, <1>5, <2>1, <2>2 DEF HeardOK, R, Silence
<1>7. ASSUME NEW m \in Int, m <= 2 * G
      PROVE  Firsts'[m] = Firsts[m] /\ Seconds'[m] = Seconds[m]
  <2>1. /\ 2 * m - 1 \in Int /\ 2 * m \in Int
        /\ 2 * m - 1 <= 4 * G /\ 2 * m <= 4 * G
    BY <1>1, <1>7
  <2> HIDE DEF G
  <2> QED
    BY <1>1, <1>4, <2>1 DEF Firsts, Seconds, Sample
<1>8. ASSUME NEW n \in 1..2
      PROVE  /\ Firsts'[2 * G + n] = heard'[4 * G + (2 * n - 1)]
             /\ Seconds'[2 * G + n] = heard'[4 * G + 2 * n]
  <2>1. /\ 2 * G + n \in Int
        /\ 2 * (2 * G + n) - 1 = 4 * G + (2 * n - 1)
        /\ 2 * (2 * G + n) = 4 * G + 2 * n
        /\ 4 * G + (2 * n - 1) \in 1..4 * G + 4
        /\ 4 * G + 2 * n \in 1..4 * G + 4
    BY <1>1
  <2> HIDE DEF G
  <2> QED
    BY <1>4, <2>1 DEF Firsts, Seconds, Sample
<1> HIDE DEF G
<1>9. /\ Firsts'[2 * G + 1] = heard'[4 * G + 1]
      /\ Seconds'[2 * G + 1] = heard'[4 * G + 2]
      /\ Firsts'[2 * G + 2] = heard'[4 * G + 3]
      /\ Seconds'[2 * G + 2] = heard'[4 * G + 4]
  BY <1>8
<1>10. /\ Firsts'[2 * G + 1] = samples[0] /\ Seconds'[2 * G + 1] = samples[1]
       /\ Firsts'[2 * G + 2] = samples[2] /\ Seconds'[2 * G + 2] = samples[3]
  BY <1>4, <1>9, Zenon
<1> QED
  BY <1>1, <1>2, <1>5, <1>6, <1>7, <1>10 DEF G

(* The outer rings, and what the outer bank makes of them on the way.      *)
LEMMA OuterStep ==
    ASSUME HeardOK, OuterOK,
           NEW samples, NEW predicted, Call(samples, predicted)
    PROVE  /\ OuterOK'
           /\ First(samples) = Outers'[2 * Groups + 1]
           /\ Second(samples) = Outers'[2 * Groups + 2]
<1> DEFINE G == Groups
           i1 == Advance(i_outer)
           i2 == Advance(i1)
           F == Firsts'
           S == Seconds'
           even1 == Put(outer[0], i_outer, samples[0])
           odd1 == Put(outer[1], i_outer, samples[1])
           even2 == Put(even1, i1, samples[2])
           odd2 == Put(odd1, i1, samples[3])
<1>1. /\ Groups' = G + 1 /\ G \in Nat
      /\ \A m \in Int : m <= 2 * G => F[m] = Firsts[m] /\ S[m] = Seconds[m]
      /\ F[2 * G + 1] = samples[0] /\ S[2 * G + 1] = samples[1]
      /\ F[2 * G + 2] = samples[2] /\ S[2 * G + 2] = samples[3]
  BY HistoryGrows DEF HeardOK
<1>2. /\ i_outer \in Places /\ i1 \in Places /\ i2 \in Places
      /\ 2 * G \in Int /\ 2 * G + 1 \in Int /\ 2 * G + 2 \in Int
      /\ (2 * G + 1) + 1 = 2 * G + 2
  BY <1>1, Advances DEF OuterOK
<1>3. /\ outer' = [n \in 0..1 |-> IF n = 0 THEN even2 ELSE odd2]
      /\ Rings(samples)[0] = even2 /\ Rings(samples)[1] = odd2
      /\ i_outer' = i2
      /\ First(samples) = Bank(OuterCoeffs, OuterHalf,
                               Backwards(even1, i1), Forwards(odd1, i1))
      /\ Second(samples) = Bank(OuterCoeffs, OuterHalf,
                                Backwards(even2, i2), Forwards(odd2, i2))
  BY CallSteps DEF First, Second, Rings, PutPair, OuterBank
<1> HIDE DEF G, F, S, i1, i2
<1>4. Shows(outer[0], i_outer, F, 2 * G) /\ Shows(outer[1], i_outer, S, 2 * G)
  BY <1>1, <1>2, ShowsStays DEF OuterOK, G
<1>5. /\ IsRing(even1) /\ Shows(even1, i1, F, 2 * G + 1)
      /\ IsRing(odd1) /\ Shows(odd1, i1, S, 2 * G + 1)
  BY <1>1, <1>2, <1>4, PutShows DEF OuterOK, i1
<1> HIDE DEF even1, odd1
<1>6. /\ IsRing(even2) /\ Shows(even2, i2, F, 2 * G + 2)
      /\ IsRing(odd2) /\ Shows(odd2, i2, S, 2 * G + 2)
  <2>1. /\ IsRing(Put(even1, i1, F[(2 * G + 1) + 1]))
        /\ Shows(Put(even1, i1, F[(2 * G + 1) + 1]), Advance(i1), F, (2 * G + 1) + 1)
        /\ IsRing(Put(odd1, i1, S[(2 * G + 1) + 1]))
        /\ Shows(Put(odd1, i1, S[(2 * G + 1) + 1]), Advance(i1), S, (2 * G + 1) + 1)
    BY <1>2, <1>5, PutShows
  <2> QED
    BY <1>1, <1>2, <2>1 DEF i2
<1> HIDE DEF even2, odd2
<1>7. OuterOK'
  <2>1. outer'[0] = even2 /\ outer'[1] = odd2 /\ 2 * Groups' = 2 * G + 2
    BY <1>1, <1>3
  <2> QED
    BY <1>2, <1>3, <1>6, <2>1, Zenon DEF OuterOK, F, S
<1>8. \A m \in Int :
        Outers'[m] = Bank(OuterCoeffs, OuterHalf,
                         [k \in Places |-> F[m - k]],
                         [k \in Places |-> S[m - (Length - 1 - k)]])
  <2> TAKE m \in Int
  <2>1. ASSUME NEW k \in Places
        PROVE  /\ F[m - k] = Sample(2 * (m - k) - 1)'
               /\ S[m - (Length - 1 - k)] = Sample(2 * (m - (Length - 1 - k)))'
    BY LengthAssumption DEF Places, Firsts, Seconds, F, S
  <2>2. Outers'[m] = Outer(m)'
    BY DEF Outers
  <2> QED
    BY <2>1, <2>2 DEF Outer
<1>9. First(samples) = Outers'[2 * G + 1]
  <2>1. /\ Backwards(even1, i1) = [k \in Places |-> F[(2 * G + 1) - k]]
        /\ Forwards(odd1, i1) = [k \in Places |-> S[(2 * G + 1) - (Length - 1 - k)]]
    BY <1>2, <1>5, WindowsShow
  <2> QED
    BY <1>2, <1>3, <1>8, <2>1
<1>10. Second(samples) = Outers'[2 * G + 2]
  <2>1. /\ Backwards(even2, i2) = [k \in Places |-> F[(2 * G + 2) - k]]
        /\ Forwards(odd2, i2) = [k \in Places |-> S[(2 * G + 2) - (Length - 1 - k)]]
    BY <1>2, <1>6, WindowsShow
  <2> QED
    BY <1>2, <1>3, <1>8, <2>1
<1> QED
  BY <1>7, <1>9, <1>10 DEF G

(* What the outer banks made of earlier pairs does not change.             *)
LEMMA OutersStay ==
    ASSUME HeardOK, NEW samples, NEW predicted, Call(samples, predicted),
           NEW m \in Int, m <= 2 * Groups
    PROVE  Outers'[m] = Outers[m]
<1> DEFINE G == Groups
           F == Firsts'
           S == Seconds'
<1>1. \A n \in Int : n <= 2 * G => F[n] = Firsts[n] /\ S[n] = Seconds[n]
  BY HistoryGrows
<1>2. ASSUME NEW k \in Places
      PROVE  /\ m - k \in Int /\ m - k <= m
             /\ m - (Length - 1 - k) \in Int /\ m - (Length - 1 - k) <= m
  BY LengthAssumption DEF Places
<1>3. Outers[m] = Bank(OuterCoeffs, OuterHalf,
                       [k \in Places |-> Firsts[m - k]],
                       [k \in Places |-> Seconds[m - (Length - 1 - k)]])
  BY OuterOfHistories DEF Outers
<1>4. Outers'[m] = Bank(OuterCoeffs, OuterHalf,
                        [k \in Places |-> F[m - k]],
                        [k \in Places |-> S[m - (Length - 1 - k)]])
  <2>1. ASSUME NEW k \in Places
        PROVE  /\ F[m - k] = Sample(2 * (m - k) - 1)'
               /\ S[m - (Length - 1 - k)] = Sample(2 * (m - (Length - 1 - k)))'
    BY LengthAssumption DEF Places, Firsts, Seconds
  <2>2. Outers'[m] = Outer(m)'
    BY DEF Outers
  <2> QED
    BY <2>1, <2>2 DEF Outer
<1>5. G \in Int /\ m <= 2 * G
  BY DEF HeardOK
<1> HIDE DEF G, F, S
<1>6. ASSUME NEW k \in Places
      PROVE  /\ F[m - k] = Firsts[m - k]
             /\ S[m - (Length - 1 - k)] = Seconds[m - (Length - 1 - k)]
  <2>1. m - k <= 2 * G /\ m - (Length - 1 - k) <= 2 * G
    BY <1>2, <1>5
  <2> QED
    BY <1>1, <1>2, <2>1
<1> QED
  BY <1>3, <1>4, <1>6

(* The inner rings.                                                        *)
LEMMA InnerStep ==
    ASSUME HeardOK, OuterOK, InnerOK,
           NEW samples, NEW predicted, Call(samples, predicted)
    PROVE  InnerOK'
<1> DEFINE G == Groups
           i1 == Advance(i_inner)
           late == Outers'[2 * G + 2]
           early == Outers'[2 * G + 1]
           LA == LateA'
           EB == EarlyB'
           EA == EarlyA'
           LB == LateB'
<1>1. G \in Nat /\ Groups' = G + 1
  BY HistoryGrows DEF HeardOK
<1>2. /\ First(samples) = early /\ Second(samples) = late
  BY OuterStep
<1>3. ASSUME NEW g \in Int
      PROVE  /\ LateA[g] = Outers[2 * g].a /\ LateB[g] = Outers[2 * g].b
             /\ EarlyA[g] = Outers[2 * g - 1].a /\ EarlyB[g] = Outers[2 * g - 1].b
  BY DEF LateA, LateB, EarlyA, EarlyB, Outers
<1>4. ASSUME NEW g \in Int
      PROVE  /\ LA[g] = Outers'[2 * g].a /\ LB[g] = Outers'[2 * g].b
             /\ EA[g] = Outers'[2 * g - 1].a /\ EB[g] = Outers'[2 * g - 1].b
  BY DEF LateA, LateB, EarlyA, EarlyB, Outers
<1>5. ASSUME NEW g \in Int, g <= G
      PROVE  LA[g] = LateA[g] /\ LB[g] = LateB[g] /\ EA[g] = EarlyA[g] /\ EB[g] = EarlyB[g]
  <2>1. /\ 2 * g \in Int /\ 2 * g - 1 \in Int
        /\ 2 * g <= 2 * G /\ 2 * g - 1 <= 2 * G
    BY <1>1, <1>5
  <2>2. Outers'[2 * g] = Outers[2 * g] /\ Outers'[2 * g - 1] = Outers[2 * g - 1]
    BY <2>1, OutersStay
  <2> HIDE DEF LA, LB, EA, EB
  <2> QED
    BY <1>3, <1>4, <2>2
<1>6. LA[G + 1] = late.a /\ LB[G + 1] = late.b /\ EA[G + 1] = early.a /\ EB[G + 1] = early.b
  <2>1. G + 1 \in Int /\ 2 * (G + 1) = 2 * G + 2 /\ 2 * (G + 1) - 1 = 2 * G + 1
    BY <1>1
  <2> HIDE DEF G, LA, LB, EA, EB
  <2> QED
    BY <1>4, <2>1
<1>7. /\ inner'[0] = Put(inner[0], i_inner, LA[G + 1])
      /\ inner'[1] = Put(inner[1], i_inner, EB[G + 1])
      /\ inner'[2] = Put(inner[2], i_inner, EA[G + 1])
      /\ inner'[3] = Put(inner[3], i_inner, LB[G + 1])
      /\ i_inner' = i1
  <2> HIDE DEF LA, LB, EA, EB, late, early, G
  <2> QED
    BY <1>2, <1>6, CallSteps
<1>8. i_inner \in Places /\ i1 \in Places /\ G \in Int
  BY <1>1, Advances DEF InnerOK
<1> HIDE DEF LA, LB, EA, EB, late, early
<1>9. /\ IsRing(inner[0]) /\ Shows(inner[0], i_inner, LA, G)
      /\ IsRing(inner[1]) /\ Shows(inner[1], i_inner, EB, G)
      /\ IsRing(inner[2]) /\ Shows(inner[2], i_inner, EA, G)
      /\ IsRing(inner[3]) /\ Shows(inner[3], i_inner, LB, G)
  BY <1>5, <1>8, ShowsStays DEF InnerOK
<1> HIDE DEF G, i1
<1>10. /\ IsRing(inner'[0]) /\ Shows(inner'[0], i1, LA, G + 1)
       /\ IsRing(inner'[1]) /\ Shows(inner'[1], i1, EB, G + 1)
       /\ IsRing(inner'[2]) /\ Shows(inner'[2], i1, EA, G + 1)
       /\ IsRing(inner'[3]) /\ Shows(inner'[3], i1, LB, G + 1)
  BY <1>7, <1>8, <1>9, PutShows DEF i1
<1> QED
  BY <1>1, <1>7, <1>8, <1>10, Zenon DEF InnerOK, LA, LB, EA, EB

(* The result is what the banks make of the histories.                     *)
LEMMA Filtered ==
    ASSUME HeardOK, OuterOK, InnerOK,
           NEW samples, NEW predicted, Call(samples, predicted)
    PROVE  IsFilterBank'
<1> DEFINE g == Groups'
           LA == LateA'
           EB == EarlyB'
           EA == EarlyA'
           LB == LateB'
<1>1. /\ g \in Int /\ i_inner' \in Places
      /\ Shows(inner'[0], i_inner', LA, g) /\ Shows(inner'[1], i_inner', EB, g)
      /\ Shows(inner'[2], i_inner', EA, g) /\ Shows(inner'[3], i_inner', LB, g)
  BY InnerStep, HistoryGrows DEF InnerOK, HeardOK
<1>2. ASSUME NEW h \in Int
      PROVE  /\ InnerA(h)' = Bank(InnerCoeffs, InnerHalf,
                           [k \in Places |-> EA[h - k]],
                           [k \in Places |-> LA[h - (Length - 1 - k)]])
             /\ InnerB(h)' = Bank(InnerCoeffs, InnerHalf,
                           [k \in Places |-> EB[h - k]],
                           [k \in Places |-> LB[h - (Length - 1 - k)]])
  <2>1. ASSUME NEW k \in Places
        PROVE  /\ EA[h - k] = Outer(2 * (h - k) - 1)'.a
               /\ EB[h - k] = Outer(2 * (h - k) - 1)'.b
               /\ LA[h - (Length - 1 - k)] = Outer(2 * (h - (Length - 1 - k)))'.a
               /\ LB[h - (Length - 1 - k)] = Outer(2 * (h - (Length - 1 - k)))'.b
    BY LengthAssumption DEF Places, EarlyA, EarlyB, LateA, LateB
  <2> HIDE DEF EA, EB, LA, LB
  <2> QED
    BY <2>1 DEF InnerA, InnerB
<1> HIDE DEF LA, LB, EA, EB, g
<1>3. /\ Backwards(inner'[2], i_inner') = [k \in Places |-> EA[g - k]]
      /\ Forwards(inner'[0], i_inner') = [k \in Places |-> LA[g - (Length - 1 - k)]]
      /\ Backwards(inner'[1], i_inner') = [k \in Places |-> EB[g - k]]
      /\ Forwards(inner'[3], i_inner') = [k \in Places |-> LB[g - (Length - 1 - k)]]
  BY <1>1, WindowsShow
<1>4. \A h \in Int : h = g => Low' = InnerA(h)' /\ High' = InnerB(h)'
  BY <1>2, <1>3 DEF Low, High, InnerBank
<1> QED
  BY <1>1, <1>4, CallSteps DEF IsFilterBank, Groups, g

(* The invariant is kept.                                                  *)
LEMMA FilterStep == FilterInv /\ [Next]_vars => FilterInv'
<1> SUFFICES ASSUME FilterInv, [Next]_vars PROVE FilterInv'
  OBVIOUS
<1>1. ASSUME NEW samples, NEW predicted, Call(samples, predicted)
      PROVE  FilterInv'
  BY <1>1, HistoryGrows, OuterStep, InnerStep, Filtered DEF FilterInv
<1>2. CASE UNCHANGED vars
  <2>1. /\ Groups' = Groups /\ Firsts' = Firsts /\ Seconds' = Seconds
        /\ LateA' = LateA /\ EarlyB' = EarlyB
        /\ EarlyA' = EarlyA /\ LateB' = LateB
    BY <1>2, Zenon DEF vars, Groups, Firsts, Seconds, LateA, EarlyB, EarlyA, LateB,
                Outer, Sample
  <2>2. HeardOK' /\ OuterOK' /\ InnerOK'
    BY <1>2, <2>1 DEF FilterInv, HeardOK, OuterOK, InnerOK, vars, Silence
  <2>3. IsFilterBank'
    BY <1>2, Zenon DEF FilterInv, IsFilterBank, InnerA, InnerB, Outer, Sample, vars
  <2> QED
    BY <2>2, <2>3 DEF FilterInv
<1> QED
  BY <1>1, <1>2 DEF Next, Call

(* However long the stream, and wherever the rings are when a group        *)
(* arrives, aptX_QMF_analysis is two stages of filter banks over           *)
(* everything that was heard.                                              *)
THEOREM FilterBank == Spec => []IsFilterBank
<1>1. Init => FilterInv
  BY Beginning
<1>2. FilterInv /\ [Next]_vars => FilterInv'
  BY FilterStep
<1>3. FilterInv => IsFilterBank
  BY DEF FilterInv
<1> QED
  BY <1>1, <1>2, <1>3, PTL DEF Spec

-----------------------------------------------------------------------------
(* The quiet start                                                         *)

Within(v, bound) == v \in Int /\ -bound <= v /\ v <= bound

(* A product is bounded by the bounds of its factors.                      *)
LEMMA ProductWithin ==
    ASSUME NEW c \in Int, NEW bound \in Nat, NEW v, Within(v, bound)
    PROVE  /\ Within(c * v, Magnitude(c) * bound)
           /\ Magnitude(c) \in Nat
<1>1. v \in Int /\ -bound <= v /\ v <= bound
  BY DEF Within
<1>2. CASE c >= 0
  <2>1. c * (-bound) <= c * v /\ c * v <= c * bound
    BY <1>1, <1>2
  <2>2. c * (-bound) = -(c * bound) /\ c * v \in Int
    BY <1>1
  <2> QED
    BY <1>2, <2>1, <2>2 DEF Within, Magnitude
<1>3. CASE c < 0
  <2>1. (-c) * (-bound) <= (-c) * v /\ (-c) * v <= (-c) * bound
    BY <1>1, <1>3
  <2>2. /\ (-c) * (-bound) = -((-c) * bound) /\ (-c) * v = -(c * v)
        /\ c * v \in Int /\ (-c) * bound \in Int
    BY <1>1
  <2> QED
    BY <1>3, <2>1, <2>2 DEF Within, Magnitude
<1> QED
  BY <1>2, <1>3

(* Sums are bounded by the sums of bounds.                                 *)
LEMMA SumWithin ==
    ASSUME NEW a, NEW b, NEW x \in Nat, NEW y \in Nat, Within(a, x), Within(b, y)
    PROVE  Within(a + b, x + y) /\ Within(a - b, x + y)
BY DEF Within

(* Rounding does not leave a bound that is a whole number.                 *)
LEMMA RoundWithin ==
    ASSUME NEW half \in Nat, half > 0, NEW bound \in Nat,
           NEW v, Within(v, bound * (2 * half))
    PROVE  Within(RoundingShift(v, half, 4 * half), bound)
<1> DEFINE r == RoundingShift(v, half, 4 * half)
           m == 2 * half
<1>1. v \in Int /\ m \in Nat /\ m > 0 /\ -(bound * m) <= v /\ v <= bound * m
  BY DEF Within
<1>2. r \in Int /\ Nearest(v, m, r)
  BY <1>1, HalfEven DEF IsHalfEven
<1> HIDE DEF r, m
<1>3. CASE r > bound
  <2>1. m * r >= m * (bound + 1)
    BY <1>1, <1>2, <1>3
  <2>2. m * (bound + 1) = bound * m + m
    BY <1>1
  <2> QED
    BY <1>1, <1>2, <2>1, <2>2 DEF Nearest
<1>4. CASE r < -bound
  <2>1. m * r <= m * (-bound - 1)
    BY <1>1, <1>2, <1>4
  <2>2. m * (-bound - 1) = -(bound * m) - m
    BY <1>1
  <2> QED
    BY <1>1, <1>2, <2>1, <2>2 DEF Nearest
<1> QED
  BY <1>2, <1>3, <1>4 DEF Within, r

(* Neither does clamping.                                                  *)
LEMMA ClampWithin ==
    ASSUME NEW bound \in Nat, NEW v, Within(v, bound)
    PROVE  Within(ClampInt24(v), bound)
BY SMT DEF Within, ClampInt24, ClipRange, INT24_MIN, INT24_MAX

(* A bank whose sums are bounded has bounded results.                      *)
LEMMA BankWithin ==
    ASSUME NEW c, NEW half \in Nat, half > 0, NEW v, NEW w,
           NEW x \in Nat, NEW y \in Nat,
           Within(Dot(c, v), x * (2 * half)), Within(Dot(c, w), y * (2 * half))
    PROVE  /\ Within(Bank(c, half, v, w).a, x + y)
           /\ Within(Bank(c, half, v, w).b, x + y)
<1> DEFINE f1 == ClampInt24(RoundingShift(Dot(c, v), half, 4 * half))
           f2 == ClampInt24(RoundingShift(Dot(c, w), half, 4 * half))
<1>1. Within(f1, x) /\ Within(f2, y)
  BY RoundWithin, ClampWithin
<1>2. /\ Bank(c, half, v, w).a = ClampInt24(f2 + f1)
      /\ Bank(c, half, v, w).b = ClampInt24(f2 - f1)
  BY DEF Bank
<1> HIDE DEF f1, f2
<1>3. Within(f2 + f1, y + x) /\ Within(f2 - f1, y + x) /\ y + x = x + y
  BY <1>1, SumWithin
<1> QED
  BY <1>2, <1>3, ClampWithin

(* Two products of samples.                                                *)
LEMMA PairWithin ==
    ASSUME NEW c \in Int, NEW d \in Int, NEW bound \in Nat, NEW v, NEW w,
           Within(v, bound), Within(w, bound)
    PROVE  Within(c * v + d * w, (Magnitude(c) + Magnitude(d)) * bound)
<1>1. /\ Within(c * v, Magnitude(c) * bound) /\ Within(d * w, Magnitude(d) * bound)
      /\ Magnitude(c) \in Nat /\ Magnitude(d) \in Nat
  BY ProductWithin
<1>2. /\ (Magnitude(c) + Magnitude(d)) * bound
            = Magnitude(c) * bound + Magnitude(d) * bound
      /\ Magnitude(c) * bound \in Nat /\ Magnitude(d) * bound \in Nat
  BY <1>1
<1> QED
  BY <1>1, <1>2, SumWithin

(* The outer banks are within Edge for the first two pairs of samples: a   *)
(* sample is worth at most the unit that is shifted out, and no more than  *)
(* the two outermost coefficients of either side have met one.             *)
LEMMA OuterEdge ==
    ASSUME HeardOK, Groups = 1, NEW m \in 1..2
    PROVE  /\ Within(Outer(m).a, Edge)
           /\ Within(Outer(m).b, Edge)
           /\ Edge \in Nat
<1> DEFINE unit == 2 * OuterHalf
           c == OuterCoeffs
           v == [k \in Places |-> Sample(2 * (m - k) - 1)]
           w == [k \in Places |-> Sample(2 * (m - (Length - 1 - k)))]
           x == Magnitude(c[0]) + Magnitude(c[1])
           y == Magnitude(c[Length - 2]) + Magnitude(c[Length - 1])
<1>1. Length \in Nat /\ Length >= 2
  BY LengthAssumption
<1>2. /\ 0 \in Places /\ 1 \in Places
      /\ Length - 2 \in Places /\ Length - 1 \in Places
  BY <1>1 DEF Places
<1>3. c \in [Places -> Int] /\ OuterHalf \in Nat /\ OuterHalf > 0 /\ unit \in Nat
  BY CoeffsAssumption, HalvesAssumption
<1>4. ASSUME NEW n \in Int PROVE Within(Sample(n), unit)
  <2>1. CASE n \in 1..Len(heard)
    <3> DEFINE R == -2 * OuterHalf..2 * OuterHalf - 1
    <3>1. heard \in Seq(R)
      BY DEF HeardOK
    <3> HIDE DEF R
    <3>2. heard[n] \in R
      BY <2>1, <3>1
    <3> QED
      BY <1>3, <2>1, <3>2 DEF Sample, Within, R
  <2>2. CASE n \notin 1..Len(heard)
    BY <1>3, <2>2 DEF Sample, Within
  <2> QED
    BY <2>1, <2>2
<1>5. ASSUME NEW n \in Int, n < 1 PROVE Sample(n) = 0
  BY <1>5 DEF Sample
<1>6. ASSUME NEW k \in Places
      PROVE  /\ 2 * (m - k) - 1 \in Int
             /\ 2 * (m - (Length - 1 - k)) \in Int
             /\ k > 1 => 2 * (m - k) - 1 < 1
             /\ k < Length - 2 => 2 * (m - (Length - 1 - k)) < 1
  BY <1>1 DEF Places
<1>7. /\ \A k \in Places : Within(v[k], unit) /\ Within(w[k], unit)
      /\ \A k \in Places : k > 1 => v[k] = 0
      /\ \A k \in Places : k < Length - 2 => w[k] = 0
  BY <1>4, <1>5, <1>6
<1>8. v \in [Places -> Int] /\ w \in [Places -> Int]
  BY <1>7 DEF Within
<1>9. Outer(m) = Bank(c, OuterHalf, v, w)
  BY DEF Outer
<1> HIDE DEF v, w, c, unit
<1>10. /\ Dot(c, v) = c[0] * v[0] + c[1] * v[1]
       /\ Dot(c, w) = c[Length - 2] * w[Length - 2] + c[Length - 1] * w[Length - 1]
  BY <1>3, <1>7, <1>8, DotFirstTwo, DotLastTwo
<1>11. Within(Dot(c, v), x * unit) /\ Within(Dot(c, w), y * unit)
  BY <1>2, <1>3, <1>7, <1>10, PairWithin
<1>12. x \in Nat /\ y \in Nat /\ Edge = x + y
  <2>1. /\ Magnitude(c[0]) \in Nat /\ Magnitude(c[1]) \in Nat
        /\ Magnitude(c[Length - 2]) \in Nat /\ Magnitude(c[Length - 1]) \in Nat
    BY <1>2, <1>3 DEF Magnitude
  <2> QED
    BY <2>1 DEF Edge, c
<1> HIDE DEF x, y
<1>13. Within(Dot(c, v), x * (2 * OuterHalf)) /\ Within(Dot(c, w), y * (2 * OuterHalf))
  BY <1>11 DEF unit
<1>14. /\ Within(Bank(c, OuterHalf, v, w).a, x + y)
       /\ Within(Bank(c, OuterHalf, v, w).b, x + y)
  BY <1>3, <1>12, <1>13, BankWithin
<1> QED
  BY <1>9, <1>12, <1>14

(* Edge times either outermost inner coefficient is rounded away.          *)
LEMMA EdgeRounds ==
    ASSUME NEW k \in {0, Length - 1}, NEW v, Within(v, Edge), Edge \in Nat
    PROVE  RoundingShift(InnerCoeffs[k] * v, InnerHalf, 4 * InnerHalf) = 0
<1>1. /\ k \in Places /\ InnerCoeffs[k] \in Int
      /\ InnerHalf \in Nat /\ InnerHalf > 0
  BY LengthAssumption, CoeffsAssumption, HalvesAssumption DEF Places
<1>2. Magnitude(InnerCoeffs[k]) * Edge < InnerHalf
  BY QuietAssumption
<1>3. Within(InnerCoeffs[k] * v, Magnitude(InnerCoeffs[k]) * Edge)
  BY <1>1, ProductWithin
<1>4. /\ InnerCoeffs[k] * v \in Int
      /\ -InnerHalf < InnerCoeffs[k] * v /\ InnerCoeffs[k] * v < InnerHalf
  <2>1. Magnitude(InnerCoeffs[k]) * Edge \in Int
    BY <1>1 DEF Magnitude
  <2> QED
    BY <1>1, <1>2, <1>3, <2>1 DEF Within
<1> QED
  BY <1>1, <1>4, RoundsAway

(* An inner bank that has met one value on either side, both within Edge,  *)
(* makes nothing of them.                                                  *)
LEMMA InnerQuiet ==
    ASSUME NEW v \in [Places -> Int], NEW w \in [Places -> Int], Edge \in Nat,
           \A k \in Places : k # 0 => v[k] = 0,
           \A k \in Places : k # Length - 1 => w[k] = 0,
           Within(v[0], Edge), Within(w[Length - 1], Edge)
    PROVE  Bank(InnerCoeffs, InnerHalf, v, w) = [a |-> 0, b |-> 0]
<1> DEFINE c == InnerCoeffs
           y == Length - 2
           z == Length - 1
<1>1. /\ Length \in Nat /\ Length >= 2 /\ c \in [Places -> Int]
      /\ 0 \in Places /\ 1 \in Places /\ y \in Places /\ z \in Places
      /\ 1 # 0 /\ y # z
  BY LengthAssumption, CoeffsAssumption DEF Places
<1>2. /\ \A k \in Places : k > 1 => v[k] = 0
      /\ \A k \in Places : k < y => w[k] = 0
      /\ v[1] = 0 /\ w[y] = 0
  BY <1>1 DEF Places
<1>3. /\ c[1] * v[1] = 0 /\ c[0] * v[0] \in Int
      /\ c[y] * w[y] = 0 /\ c[z] * w[z] \in Int
  BY <1>1, <1>2
<1>4. Dot(c, v) = c[0] * v[0] + c[1] * v[1] /\ Dot(c, w) = c[y] * w[y] + c[z] * w[z]
  BY <1>1, <1>2, DotFirstTwo, DotLastTwo
<1>5. Dot(c, v) = c[0] * v[0] /\ Dot(c, w) = c[z] * w[z]
  BY <1>3, <1>4
<1>6. /\ RoundingShift(Dot(c, v), InnerHalf, 4 * InnerHalf) = 0
      /\ RoundingShift(Dot(c, w), InnerHalf, 4 * InnerHalf) = 0
  BY <1>5, EdgeRounds
<1>7. ClampInt24(0) = 0
  BY SMT DEF ClampInt24, ClipRange, INT24_MIN, INT24_MAX
<1> QED
  BY <1>6, <1>7 DEF Bank

(* So the first group of four gives nothing.                               *)
LEMMA FirstGroup ==
    ASSUME HeardOK, Groups = 1
    PROVE  InnerA(1) = [a |-> 0, b |-> 0] /\ InnerB(1) = [a |-> 0, b |-> 0]
<1> DEFINE va == [k \in Places |-> EarlyA[1 - k]]
           wa == [k \in Places |-> LateA[1 - (Length - 1 - k)]]
           vb == [k \in Places |-> EarlyB[1 - k]]
           wb == [k \in Places |-> LateB[1 - (Length - 1 - k)]]
<1>1. /\ InnerA(1) = Bank(InnerCoeffs, InnerHalf, va, wa)
      /\ InnerB(1) = Bank(InnerCoeffs, InnerHalf, vb, wb)
  BY InnerOfHistories
<1>2. Edge \in Nat
  <2>1. 1 \in 1..2
    OBVIOUS
  <2> QED
    BY <2>1, OuterEdge
<1>3. /\ Within(EarlyA[1], Edge) /\ Within(LateA[1], Edge)
      /\ Within(EarlyB[1], Edge) /\ Within(LateB[1], Edge)
  <2>1. /\ EarlyA[1] = Outer(1).a /\ LateA[1] = Outer(2).a
        /\ EarlyB[1] = Outer(1).b /\ LateB[1] = Outer(2).b
    BY DEF EarlyA, EarlyB, LateA, LateB
  <2>2. 1 \in 1..2 /\ 2 \in 1..2
    OBVIOUS
  <2> QED
    BY <2>1, <2>2, OuterEdge
<1>4. ASSUME NEW g \in Int, g <= 0
      PROVE  EarlyA[g] = 0 /\ LateA[g] = 0 /\ EarlyB[g] = 0 /\ LateB[g] = 0
  <2>1. Outer(2 * g) = [a |-> 0, b |-> 0] /\ Outer(2 * g - 1) = [a |-> 0, b |-> 0]
    <3>1. 2 * g \in Int /\ 2 * g <= 0 /\ 2 * g - 1 \in Int /\ 2 * g - 1 <= 0
      BY <1>4
    <3> QED
      BY <3>1, NothingBefore
  <2> QED
    BY <2>1 DEF EarlyA, EarlyB, LateA, LateB
<1>5. ASSUME NEW k \in Places
      PROVE  /\ 1 - k \in Int /\ 1 - (Length - 1 - k) \in Int
             /\ IF k = 0 THEN 1 - k = 1 ELSE 1 - k <= 0
             /\ IF k = Length - 1 THEN 1 - (Length - 1 - k) = 1
                                  ELSE 1 - (Length - 1 - k) <= 0
  BY LengthAssumption DEF Places
<1>6. 0 \in Places /\ Length - 1 \in Places
  BY LengthAssumption DEF Places
<1>7. /\ \A k \in Places : k # 0 => va[k] = 0 /\ vb[k] = 0
      /\ \A k \in Places : k # Length - 1 => wa[k] = 0 /\ wb[k] = 0
      /\ Within(va[0], Edge) /\ Within(wa[Length - 1], Edge)
      /\ Within(vb[0], Edge) /\ Within(wb[Length - 1], Edge)
  BY <1>3, <1>4, <1>5, <1>6
<1>8. /\ va \in [Places -> Int] /\ wa \in [Places -> Int]
      /\ vb \in [Places -> Int] /\ wb \in [Places -> Int]
  BY <1>6, <1>7 DEF Within
<1> HIDE DEF va, vb, wa, wb
<1> QED
  BY <1>1, <1>2, <1>7, <1>8, InnerQuiet

(* After aptxbtenc_init the first four samples, whatever they are, give    *)
(* zero in all four subbands.                                              *)
THEOREM StartIsQuiet == Spec => []QuietStart
<1>1. FilterInv => QuietStart
  <2> SUFFICES ASSUME FilterInv, Len(heard) <= 4 PROVE diff = Silence
    BY DEF QuietStart, Silence
  <2>1. HeardOK /\ IsFilterBank /\ Groups \in Nat /\ Len(heard) = 4 * Groups
    BY DEF FilterInv, HeardOK
  <2>2. CASE Groups = 0
    BY <2>1, <2>2 DEF HeardOK
  <2>3. CASE Groups = 1
    <3>1. refs = Silence
      BY <2>1, <2>3 DEF HeardOK
    <3>2. InnerA(1) = [a |-> 0, b |-> 0] /\ InnerB(1) = [a |-> 0, b |-> 0]
      BY <2>1, <2>3, FirstGroup
    <3>3. diff = [sb \in 0..3 |->
                    ClampInt24(<<InnerA(1).a, InnerA(1).b,
                                 InnerB(1).a, InnerB(1).b>>[sb + 1] - refs[sb])]
      <4>1. Len(heard) \div 4 = 1 /\ 1 > 0
        BY <2>3 DEF Groups
      <4> QED
        BY <2>1, <4>1 DEF IsFilterBank
    <3>4. ClampInt24(0 - 0) = 0
      BY SMT DEF ClampInt24, ClipRange, INT24_MIN, INT24_MAX
    <3>5. ASSUME NEW sb \in 0..3
          PROVE  <<0, 0, 0, 0>>[sb + 1] = 0 /\ Silence[sb] = 0
      BY DEF Silence
    <3>6. diff = [sb \in 0..3 |-> ClampInt24(<<0, 0, 0, 0>>[sb + 1] - Silence[sb])]
      BY <3>1, <3>2, <3>3
    <3> QED
      BY <3>4, <3>5, <3>6 DEF Silence
  <2> QED
    BY <2>1, <2>2, <2>3
<1>2. Init => FilterInv
  BY Beginning
<1>3. FilterInv /\ [Next]_vars => FilterInv'
  BY FilterStep
<1> QED
  BY <1>1, <1>2, <1>3, PTL DEF Spec
=============================================================================
