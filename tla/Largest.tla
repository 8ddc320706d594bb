------------------------------ MODULE Largest ------------------------------
(* What SELECT MAX of a column relies on: a set of numbers that are not    *)
(* beyond some bound has a largest one.                                    *)
EXTENDS Naturals, WellFoundedInduction, TLAPS

(* The differences to the bound are natural numbers and have a smallest    *)
(* one, because < is well founded on them (db.go:472 and 742).             *)
LEMMA HasLargest ==
  ASSUME NEW N \in Nat, NEW S \in SUBSET (0..N), S # {}
  PROVE  \E n \in S : \A m \in S : m <= n
<1> DEFINE T == {N - n : n \in S}
           R == OpToRel(<, Nat)
<1>1. IsWellFoundedOn(R, Nat)
  BY NatLessThanWellFounded
<1>2. \A x, y \in Nat : <<x, y>> \in R <=> x < y
  BY DEF OpToRel
<1>3. T \subseteq Nat /\ T # {}
  <2>1. \A n \in S : N - n \in Nat
    OBVIOUS
  <2>2. PICK n \in S : TRUE
    OBVIOUS
  <2>3. N - n \in T
    BY <2>2
  <2> QED BY <2>1, <2>3
<1> HIDE DEF R
<1>4. \E x \in T : \A y \in T : <<y, x>> \notin R
  <2> HIDE DEF T
  <2> QED BY <1>1, <1>3, WFMin
<1>5. PICK n \in S : \A y \in T : <<y, N - n>> \notin R
  BY <1>4
<1>6. ASSUME NEW m \in S PROVE m <= n
  <2>1. N - m \in T /\ N - m \in Nat /\ N - n \in Nat
    OBVIOUS
  <2>2. ~ (N - m < N - n)
    BY <2>1, <1>2, <1>5
  <2> QED BY <2>2
<1> QED BY <1>6
=============================================================================
