----------------------------- MODULE SumsProofs -----------------------------
(***************************************************************************)
(* Induction on the naturals for a set, and what it gives for sums.          *)
(*                                                                           *)
(* The library's induction theorems take the predicate as an operator.  Here  *)
(* it is the set of the numbers that have it, and the least number that has   *)
(* it not is found by the well-foundedness of < (WFMin).                      *)
(***************************************************************************)
EXTENDS Sums, WellFoundedInduction, TLAPS

(* A set with zero, and with the successor of each of its members, has every number. *)
LEMMA FromZeroUp ==
  ASSUME NEW S, 0 \in S, \A n \in Nat : n \in S => n + 1 \in S
  PROVE  \A n \in Nat : n \in S
<1> SUFFICES ASSUME NEW n \in Nat, n \notin S PROVE FALSE
  OBVIOUS
<1> DEFINE T == Nat \ S
           R == OpToRel(<, Nat)
<1>1. T \subseteq Nat /\ T # {}
  OBVIOUS
<1>2. IsWellFoundedOn(R, Nat)
  BY NatLessThanWellFounded
<1>3. \A x, y \in Nat : x < y => <<x, y>> \in R
  BY DEF OpToRel
<1> HIDE DEF R
<1>4. PICK x \in T : \A y \in T : <<y, x>> \notin R
  BY <1>1, <1>2, WFMin
<1>5. x - 1 \in Nat /\ x - 1 < x /\ (x - 1) + 1 = x
  OBVIOUS
<1>6. x - 1 \in S
  BY <1>3, <1>4, <1>5
<1> QED
  BY <1>5, <1>6

-----------------------------------------------------------------------------
(* The recursive function exists, and is the only one. *)

Running(s, amounts, n) == s = [k \in 0..n |-> IF k = 0 THEN 0 ELSE s[k - 1] + amounts[k]]

LEMMA RunningExists ==
  ASSUME NEW amounts, NEW n \in Nat
  PROVE  \E s : Running(s, amounts, n)
<1> DEFINE S == {m \in Nat : \E s : Running(s, amounts, m)}
<1>1. 0 \in S
  <2> DEFINE s == [k \in 0..0 |-> 0]
  <2>1. s = [k \in 0..0 |-> IF k = 0 THEN 0 ELSE s[k - 1] + amounts[k]]
    OBVIOUS
  <2> QED
    BY <2>1 DEF Running
<1>2. ASSUME NEW m \in Nat, m \in S PROVE m + 1 \in S
  <2>1. PICK s : Running(s, amounts, m)
    BY <1>2
  <2> DEFINE t == [k \in 0..(m + 1) |-> IF k = m + 1 THEN s[m] + amounts[m + 1] ELSE s[k]]
  <2>2. \A k \in 0..m : s[k] = IF k = 0 THEN 0 ELSE s[k - 1] + amounts[k]
    BY <2>1 DEF Running
  <2>3. \A k \in 0..(m + 1) : t[k] = IF k = 0 THEN 0 ELSE t[k - 1] + amounts[k]
    BY <2>2
  <2>4. t = [k \in 0..(m + 1) |-> IF k = 0 THEN 0 ELSE t[k - 1] + amounts[k]]
    BY <2>3
  <2> HIDE DEF t
  <2> QED
    BY <2>4 DEF Running
<1> HIDE DEF S
<1>3. n \in S
  BY <1>1, <1>2, FromZeroUp
<1> QED
  BY <1>3 DEF S

LEMMA RunningIsSum ==
  ASSUME NEW amounts, NEW n \in Nat
  PROVE  \E s : Running(s, amounts, n) /\ SumUpTo(amounts, n) = s[n]
<1> DEFINE s == CHOOSE t : Running(t, amounts, n)
<1>1. Running(s, amounts, n)
  BY RunningExists
<1>2. SumUpTo(amounts, n) = s[n]
  BY DEF SumUpTo, Running
<1> HIDE DEF s
<1> QED
  BY <1>1, <1>2

LEMMA RunningAgree ==
  ASSUME NEW amounts, NEW m \in Nat, NEW n \in Nat, NEW s, NEW t,
         Running(s, amounts, m), Running(t, amounts, n), NEW k \in 0..m, k <= n
  PROVE  s[k] = t[k]
<1> DEFINE S == {j \in Nat : j <= m /\ j <= n => s[j] = t[j]}
<1>1. /\ \A j \in 0..m : s[j] = IF j = 0 THEN 0 ELSE s[j - 1] + amounts[j]
      /\ \A j \in 0..n : t[j] = IF j = 0 THEN 0 ELSE t[j - 1] + amounts[j]
  BY DEF Running
<1>2. 0 \in S
  BY <1>1
<1>3. ASSUME NEW j \in Nat, j \in S PROVE j + 1 \in S
  BY <1>1, <1>3
<1> HIDE DEF S
<1>4. k \in S
  BY <1>2, <1>3, FromZeroUp
<1> QED
  BY <1>4 DEF S

-----------------------------------------------------------------------------
(* What a sum is, for columns of any length. *)

LEMMA SumZero == \A amounts : SumUpTo(amounts, 0) = 0
<1> SUFFICES ASSUME NEW amounts PROVE SumUpTo(amounts, 0) = 0
  OBVIOUS
<1>1. PICK s : Running(s, amounts, 0) /\ SumUpTo(amounts, 0) = s[0]
  BY RunningIsSum
<1> QED
  BY <1>1 DEF Running

LEMMA SumNext ==
  ASSUME NEW amounts, NEW n \in Nat
  PROVE  SumUpTo(amounts, n + 1) = SumUpTo(amounts, n) + amounts[n + 1]
<1>1. PICK s : Running(s, amounts, n) /\ SumUpTo(amounts, n) = s[n]
  BY RunningIsSum
<1>2. PICK t : Running(t, amounts, n + 1) /\ SumUpTo(amounts, n + 1) = t[n + 1]
  BY RunningIsSum
<1>3. t[n] = s[n]
  BY <1>1, <1>2, RunningAgree
<1>4. t[n + 1] = t[n] + amounts[n + 1]
  BY <1>2 DEF Running
<1> QED
  BY <1>1, <1>2, <1>3, <1>4

(* A sum of naturals is one. *)
LEMMA SumIsNat ==
  ASSUME NEW amounts, NEW n \in Nat, \A k \in 1..n : amounts[k] \in Nat
  PROVE  SumUpTo(amounts, n) \in Nat
<1> DEFINE S == {m \in Nat : m <= n => SumUpTo(amounts, m) \in Nat}
<1>1. 0 \in S
  BY SumZero
<1>2. ASSUME NEW m \in Nat, m \in S PROVE m + 1 \in S
  <2> SUFFICES ASSUME m + 1 <= n PROVE SumUpTo(amounts, m + 1) \in Nat
    OBVIOUS
  <2>1. SumUpTo(amounts, m) \in Nat /\ amounts[m + 1] \in Nat
    BY <1>2
  <2> QED
    BY <2>1, SumNext
<1> HIDE DEF S
<1>3. n \in S
  BY <1>1, <1>2, FromZeroUp
<1> QED
  BY <1>3 DEF S

(* Errors add up: what is off by at most e on each line is off by at most n * e on n of them. *)
LEMMA SumIsNear ==
  ASSUME NEW scale \in Nat, NEW e \in Nat, NEW near, NEW exact, NEW n \in Nat,
         \A k \in 1..n : /\ near[k] \in Int /\ exact[k] \in Int
                         /\ scale * near[k] - exact[k] <= e
                         /\ -(scale * near[k] - exact[k]) <= e
  PROVE  /\ SumUpTo(near, n) \in Int /\ SumUpTo(exact, n) \in Int
         /\ scale * SumUpTo(near, n) - SumUpTo(exact, n) <= e * n
         /\ -(scale * SumUpTo(near, n) - SumUpTo(exact, n)) <= e * n
<1> DEFINE Near(m) == /\ SumUpTo(near, m) \in Int /\ SumUpTo(exact, m) \in Int
                      /\ scale * SumUpTo(near, m) - SumUpTo(exact, m) <= e * m
                      /\ -(scale * SumUpTo(near, m) - SumUpTo(exact, m)) <= e * m
           S == {m \in Nat : m <= n => Near(m)}
<1>1. 0 \in S
  BY SumZero
<1>2. ASSUME NEW m \in Nat, m \in S PROVE m + 1 \in S
  <2> SUFFICES ASSUME m + 1 <= n PROVE Near(m + 1)
    OBVIOUS
  <2> DEFINE a == SumUpTo(near, m)  b == SumUpTo(exact, m)  c == near[m + 1]  d == exact[m + 1]
  <2>1. /\ a \in Int /\ b \in Int /\ scale * a - b <= e * m /\ -(scale * a - b) <= e * m
    BY <1>2
  <2>2. c \in Int /\ d \in Int /\ scale * c - d <= e /\ -(scale * c - d) <= e
    OBVIOUS
  <2>3. SumUpTo(near, m + 1) = a + c /\ SumUpTo(exact, m + 1) = b + d
    BY SumNext
  <2> HIDE DEF a, b, c, d
  <2>4. scale * (a + c) = scale * a + scale * c /\ e * (m + 1) = e * m + e
    BY <2>1, <2>2
  <2>5. scale * a \in Int /\ scale * c \in Int /\ e * m \in Int
    BY <2>1, <2>2
  <2> QED
    BY <2>1, <2>2, <2>3, <2>4, <2>5
<1> HIDE DEF S
<1>3. n \in S
  BY <1>1, <1>2, FromZeroUp
<1> QED
  BY <1>3 DEF S
=============================================================================
