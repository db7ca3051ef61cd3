------------------------------- MODULE Extremes -------------------------------
(***************************************************************************)
(* The smallest and the greatest of a set of numbers exist and are what    *)
(* their names say.  The proofs about strings and sequences of messages    *)
(* look for a first or a last position.                                    *)
(***************************************************************************)
EXTENDS Integers, FiniteSetsExt, WellFoundedInduction, TLAPS

(* The order of the numbers, as a relation.                                *)
Less == {ss \in Nat \X Nat : ss[1] < ss[2]}

(* A set of numbers that is not empty has a smallest one.                  *)
LEMMA MinIsLeast ==
  ASSUME NEW S, S \subseteq Nat, S # {}
  PROVE  Min(S) \in S /\ \A y \in S : Min(S) <= y
<1>1. IsWellFoundedOn(Less, Nat)
  BY NatLessThanWellFounded DEF OpToRel, Less
<1>2. PICK x \in S : \A y \in S : ~(<<y, x>> \in Less)
  BY <1>1, WFMin
<1>3. \A y \in S : ~(y < x)
  BY <1>2 DEF Less
<1>4. \A y \in S : x <= y
  BY <1>3
<1> QED  BY <1>4 DEF Min

(* One that has an upper bound has a greatest one.                         *)
LEMMA MaxIsGreatest ==
  ASSUME NEW n \in Nat, NEW S, S \subseteq 1..n, S # {}
  PROVE  Max(S) \in S /\ \A y \in S : Max(S) >= y
<1> DEFINE T == {n - x : x \in S}
<1>1. T \subseteq Nat /\ T # {}
  <2>1. \A x \in S : n - x \in Nat
    OBVIOUS
  <2> QED  BY <2>1
<1>2. Min(T) \in T /\ \A y \in T : Min(T) <= y
  BY <1>1, MinIsLeast
<1>3. PICK x \in S : Min(T) = n - x
  BY <1>2
<1>4. \A y \in S : n - x <= n - y
  BY <1>2, <1>3
<1>5. \A y \in S : x >= y
  BY <1>3, <1>4
<1> QED  BY <1>5 DEF Max
=============================================================================
