----------------------------- MODULE FirstIndex -----------------------------
(* The first position of a sequence at which something holds is the Min of  *)
(* the positions at which it holds: the code's loops over interfaces,       *)
(* addresses and boot devices that return at the first match.               *)
EXTENDS FiniteSetsExt, WellFoundedInduction, TLAPS

\* A set of positions that is not empty has a first one: where pickIPv4 and
\* BootDisk stop their loops.
LEMMA MinOfNats ==
  ASSUME NEW S \in SUBSET Nat, S # {}
  PROVE  Min(S) \in S /\ \A i \in S : Min(S) <= i
<1> DEFINE R == OpToRel(<, Nat)
<1>0. IsWellFoundedOn(R, Nat)
  BY NatLessThanWellFounded
<1>1. R = {p \in Nat \X Nat : p[1] < p[2]}
  BY DEF OpToRel
<1> HIDE DEF R
<1>2. PICK n \in S : \A i \in S : <<i, n>> \notin R
  BY <1>0, WFMin
<1>3. ASSUME NEW i \in S PROVE n <= i
  <2>1. i \in Nat /\ n \in Nat /\ <<i, n>> \notin R
    BY <1>2
  <2>2. ASSUME i < n PROVE <<i, n>> \in R
    <3>1. <<i, n>> \in Nat \X Nat /\ <<i, n>>[1] < <<i, n>>[2]
      BY <2>1, <2>2
    <3> QED
      BY <1>1, <3>1
  <2> QED
    BY <2>1, <2>2
<1> QED
  BY <1>3 DEF Min
=============================================================================
