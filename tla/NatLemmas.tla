------------------------------ MODULE NatLemmas ------------------------------
(* What the proofs of several components need of numbers and finite sets:
   the code searches tables from the first entry and stops at the first fit,
   walks along chains, counts, and keeps positions in rings.                *)
EXTENDS Integers, FiniteSetTheorems, WellFoundedInduction, TLAPS

(* A set of numbers has a least element: the search of a table finds one.   *)
LEMMA LeastExists ==
  ASSUME NEW T \in SUBSET Nat, T # {}
  PROVE  \E n \in T : \A m \in T : n <= m
<1> DEFINE R == {ss \in Nat \X Nat : ss[1] < ss[2]}
<1>1. IsWellFoundedOn(R, Nat)
  BY NatLessThanWellFounded DEF OpToRel
<1> HIDE DEF R
<1>2. PICK n \in T : \A m \in T : ~(<<m, n>> \in R)
  BY <1>1, WFMin
<1>3. \A m \in T : ~(m < n)
  BY <1>2 DEF R
<1> QED BY <1>3

(* Induction, with a set of numbers in the place of a predicate.            *)
LEMMA SetInduction ==
  ASSUME NEW S, 0 \in S, \A n \in Nat : n \in S => n + 1 \in S
  PROVE  \A n \in Nat : n \in S
<1> SUFFICES ASSUME Nat \ S # {} PROVE FALSE
  OBVIOUS
<1>1. PICK n \in Nat \ S : \A m \in Nat \ S : n <= m
  BY LeastExists
<1>2. n # 0 /\ n - 1 \in Nat /\ n - 1 < n
  BY <1>1
<1>3. n - 1 \in S
  BY <1>1, <1>2
<1> QED BY <1>1, <1>2, <1>3

(* A set whose elements are all the same has at most one.                   *)
LEMMA AtMostOne ==
  ASSUME NEW S, \A x, y \in S : x = y
  PROVE  IsFiniteSet(S) /\ Cardinality(S) <= 1
<1>1. CASE S = {}
  BY <1>1, FS_EmptySet
<1>2. CASE S # {}
  <2>1. PICK x : x \in S
    BY <1>2
  <2>2. S = {x}
    BY <2>1
  <2>3. IsFiniteSet({x}) /\ Cardinality({x}) = 1
    BY FS_Singleton
  <2> QED BY <2>2, <2>3
<1> QED BY <1>1, <1>2

-----------------------------------------------------------------------------
(* Arithmetic modulo S.                                                     *)

(* Quotient and remainder are unique.                                       *)
LEMMA DivUnique ==
    ASSUME NEW S \in Nat, S > 0, NEW q \in Int, NEW p \in Int,
           NEW r \in 0..(S - 1), NEW t \in 0..(S - 1),
           q * S + r = p * S + t
    PROVE  q = p /\ r = t
<1>1. (q - p) * S = t - r
  OBVIOUS
<1>2. ~(q - p >= 1)
  <2>1. SUFFICES ASSUME q - p >= 1 PROVE FALSE
    OBVIOUS
  <2>2. (q - p) * S >= S
    BY <2>1
  <2> QED
    BY <1>1, <2>2
<1>3. ~(p - q >= 1)
  <2>1. SUFFICES ASSUME p - q >= 1 PROVE FALSE
    OBVIOUS
  <2>2. (p - q) * S >= S
    BY <2>1
  <2>3. (p - q) * S = r - t
    BY <1>1
  <2> QED
    BY <2>2, <2>3
<1> QED
  BY <1>2, <1>3

(* What % computes.                                                         *)
LEMMA Quotient ==
    ASSUME NEW S \in Nat, S > 0, NEW x \in Int
    PROVE  /\ x % S \in 0..(S - 1)
           /\ \E q \in Int : x = q * S + (x % S)
<1>1. x = S * (x \div S) + (x % S)
  BY Z3
<1>2. x % S \in 0..(S - 1) /\ x \div S \in Int
  BY Z3
<1>3. x = (x \div S) * S + (x % S)
  BY <1>1, <1>2
<1>4. \E q \in Int : x = q * S + (x % S)
  BY <1>2, <1>3, Zenon
<1> QED
  BY <1>2, <1>4, Zenon

(* Adding a multiple of S does not change the remainder.                    *)
LEMMA ModPeriod ==
    ASSUME NEW S \in Nat, S > 0, NEW x \in Int, NEW W \in Nat, W % S = 0
    PROVE  (x + W) % S = x % S
<1>1. x + W \in Int /\ W \in Int
  OBVIOUS
<1>2. PICK q \in Int : x = q * S + (x % S)
  BY Quotient, Zenon
<1>3. \E m \in Int : W = m * S + (W % S)
  BY <1>1, Quotient, Zenon
<1>4. PICK m \in Int : W = m * S + 0
  BY <1>3, Zenon
<1>5. PICK k \in Int : x + W = k * S + ((x + W) % S)
  BY <1>1, Quotient, Zenon
<1>6. x % S \in 0..(S - 1) /\ (x + W) % S \in 0..(S - 1)
  BY <1>1, Quotient, Zenon
<1>7. ASSUME NEW r \in 0..(S - 1), NEW t \in 0..(S - 1),
             x = q * S + r, x + W = k * S + t
      PROVE  t = r
  <2>1. (q + m) * S + r = k * S + t
    BY <1>4, <1>7
  <2>2. q + m \in Int
    OBVIOUS
  <2> QED
    BY <2>1, <2>2, DivUnique
<1> QED
  BY <1>2, <1>5, <1>6, <1>7, Zenon

(* Two numbers less than S apart have different remainders.                 *)
LEMMA ModDistinct ==
    ASSUME NEW S \in Nat, S > 0, NEW x \in Int, NEW y \in Int, x < y, y < x + S
    PROVE  x % S # y % S
<1>1. SUFFICES ASSUME x % S = y % S PROVE FALSE
  OBVIOUS
<1>2. x % S \in 0..(S - 1)
  BY Z3
<1>3. PICK q \in Int : x = q * S + (x % S)
  BY Quotient, Zenon
<1>4. PICK p \in Int : y = p * S + (y % S)
  BY Quotient, Zenon
<1>5. (p - q) * S = y - x
  BY <1>1, <1>2, <1>3, <1>4
<1>6. ~(p - q >= 1)
  <2>1. SUFFICES ASSUME p - q >= 1 PROVE FALSE
    OBVIOUS
  <2>2. (p - q) * S >= S
    BY <2>1
  <2> QED
    BY <1>5, <2>2
<1>7. ~(p - q <= 0)
  <2>1. SUFFICES ASSUME p - q <= 0 PROVE FALSE
    OBVIOUS
  <2>2. (p - q) * S <= 0
    BY <2>1
  <2> QED
    BY <1>5, <2>2
<1> QED
  BY <1>6, <1>7

(* The remainder close to 0..S-1.                                           *)
LEMMA ModNear ==
    ASSUME NEW S \in Nat, S > 0
    PROVE  /\ \A x \in 0..(S - 1) : x % S = x
           /\ \A x \in S..(2 * S - 1) : x % S = x - S
           /\ \A x \in (0 - S)..(0 - 1) : x % S = x + S
<1>1. ASSUME NEW x \in 0..(S - 1) PROVE x % S = x
  BY Z3
<1>2. ASSUME NEW x \in S..(2 * S - 1) PROVE x % S = x - S
  BY Z3
<1>3. ASSUME NEW x \in (0 - S)..(0 - 1) PROVE x % S = x + S
  BY Z3
<1> QED
  BY <1>1, <1>2, <1>3
=============================================================================
