------------------------------ MODULE NatLemmas ------------------------------
(***************************************************************************)
(* Facts about the naturals that the proofs of several components need:  *)
(* the first index with a property (a scan of a slice, the first matching *)
(* conjunct) exists as soon as one index has it.                          *)
(***************************************************************************)
EXTENDS Naturals, WellFoundedInduction, TLAPS

(* A non-empty set of naturals has a least element. *)
LEMMA MinExists ==
  ASSUME NEW T, T \subseteq Nat, T # {}
  PROVE  \E i \in T : \A k \in T : i <= k
  <1>1. \E x \in T : \A y \in T : ~(<<y, x>> \in OpToRel(<, Nat))
    BY NatLessThanWellFounded, WFMin
  <1>2. PICK x \in T : \A y \in T : ~(<<y, x>> \in OpToRel(<, Nat))
    BY <1>1
  <1>3. \A y \in T : <<y, x>> \in OpToRel(<, Nat) <=> y < x
    BY DEF OpToRel
  <1>4. \A y \in T : ~(y < x)
    BY <1>2, <1>3, Zenon
  <1>. QED
    BY <1>4

(* The least element of a non-empty set of naturals, as CHOOSE writes it. *)
LEMMA LeastIn ==
  ASSUME NEW T, T \subseteq Nat, T # {}
  PROVE  /\ (CHOOSE i \in T : \A k \in T : i <= k) \in T
         /\ \A k \in T : (CHOOSE i \in T : \A k2 \in T : i <= k2) <= k
  BY MinExists
=============================================================================
