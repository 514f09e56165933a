----------------------------- MODULE NumberSetLemmas -----------------------------
(***************************************************************************)
(* What the smallest and the largest member of a set of numbers are.  The  *)
(* review takes its items in the order of their refs, and the last item of *)
(* a show decides on its IDs; the providers are asked again title by       *)
(* title.                                                                  *)
(***************************************************************************)
EXTENDS Naturals, FiniteSetsExt, FiniteSetTheorems, TLAPS

\* Of some finite sets, one includes no other.
LEMMA MinimalFiniteSet ==
  ASSUME NEW S, NEW Family, Family \subseteq FiniteSubsetsOf(S), Family # {}
  PROVE  \E T \in Family : \A U \in Family : U \subseteq T => U = T
<1>1. PICK T \in Family : \A U \in Family : ~(<<U, T>> \in StrictSubsetOrdering(S))
  BY FS_StrictSubsetOrderingWellFounded, WFMin
<1> QED
  BY <1>1 DEF StrictSubsetOrdering, FiniteSubsetsOf

\* Min is what its name says.
LEMMA Smallest ==
  ASSUME NEW S \in SUBSET Nat, S # {}
  PROVE  Min(S) \in S /\ \A x \in S : Min(S) <= x
<1> DEFINE Below == {0..x : x \in S}
<1>1. Below \subseteq FiniteSubsetsOf(Nat)
  <2>1. SUFFICES ASSUME NEW x \in S
                 PROVE  0..x \in SUBSET Nat /\ IsFiniteSet(0..x)
    BY DEF FiniteSubsetsOf
  <2>2. x \in Int /\ 0 \in Int
    OBVIOUS
  <2>3. IsFiniteSet(0..x)
    BY <2>2, FS_Interval
  <2> QED
    BY <2>3
<1>2. \E x \in S : \A y \in S : 0..y \subseteq 0..x => 0..y = 0..x
  <2>1. Below # {}
    OBVIOUS
  <2> HIDE DEF Below
  <2>2. PICK T \in Below : \A U \in Below : U \subseteq T => U = T
    BY <1>1, <2>1, MinimalFiniteSet
  <2>3. PICK x \in S : T = 0..x
    BY DEF Below
  <2>4. \A y \in S : 0..y \in Below
    BY DEF Below
  <2> QED
    BY <2>2, <2>3, <2>4
<1>3. PICK x \in S : \A y \in S : 0..y \subseteq 0..x => 0..y = 0..x
  BY <1>2
<1>4. \A y \in S : x <= y
  <2>1. SUFFICES ASSUME NEW y \in S, y < x
                 PROVE  FALSE
    OBVIOUS
  <2>2. 0..y \subseteq 0..x /\ x \in 0..x /\ x \notin 0..y
    BY <2>1
  <2> QED
    BY <1>3, <2>2
<1> QED
  BY <1>4 DEF Min

\* Max, of numbers that are bounded.
LEMMA Largest ==
  ASSUME NEW n \in Nat, NEW S \in SUBSET (0..n), S # {}
  PROVE  Max(S) \in S /\ \A x \in S : Max(S) >= x
<1> DEFINE T == {n - x : x \in S}
<1>1. \A x \in S : x \in 0..n /\ n - x \in Nat
  OBVIOUS
<1>2. T \in SUBSET Nat /\ T # {}
  BY <1>1
<1>3. \A x \in S : n - x \in T
  OBVIOUS
<1>4. PICK x \in S : n - x = Min(T)
  BY <1>2, Smallest
<1>5. \A y \in S : n - x <= n - y
  <2> HIDE DEF T
  <2> QED
    BY <1>2, <1>3, <1>4, Smallest
<1>6. \A y \in S : x >= y
  BY <1>1, <1>5
<1> QED
  BY <1>6 DEF Max
===============================================================================
