---------------------------- MODULE NumberFacts ----------------------------
(***************************************************************************)
(* What the proofs need of sets of natural numbers: a least element, on    *)
(* which induction by the least counterexample rests, and a greatest one,  *)
(* by which the sizes of buffers and groups are defined.                   *)
(***************************************************************************)
EXTENDS FiniteSetsExt, FiniteSetTheorems, WellFoundedInduction, TLAPS

LEMMA LeastNatural ==
  ASSUME NEW S \in SUBSET Nat, S # {}
  PROVE  \E n \in S : \A k \in S : n <= k
<1> DEFINE Below == {p \in Nat \X Nat : p[1] < p[2]}
<1>1. Below = OpToRel(<, Nat)
  BY DEF OpToRel
<1>2. IsWellFoundedOn(Below, Nat)
  BY <1>1, NatLessThanWellFounded
<1> HIDE DEF Below
<1>3. PICK n \in S : \A k \in S : <<k, n>> \notin Below
  BY <1>2, WFMin
<1>4. \A k \in S : ~(k < n)
  BY <1>3 DEF Below
<1>5. QED
  BY <1>4

(* A finite set of numbers has a greatest element, and Max is it.          *)
LEMMA MaxIsGreatest ==
  ASSUME NEW S \in SUBSET Nat, IsFiniteSet(S), S # {}
  PROVE  Max(S) \in S /\ \A x \in S : x <= Max(S)
<1> DEFINE HasMax(T) == \E m \in T : \A x \in T : x <= m
           Sizes == {n \in Nat : \E T \in SUBSET Nat :
                       IsFiniteSet(T) /\ T # {} /\ Cardinality(T) = n /\ ~HasMax(T)}
<1>1. Sizes = {}
  <2> SUFFICES ASSUME Sizes # {} PROVE FALSE
    OBVIOUS
  <2>1. PICK n \in Sizes : \A k \in Sizes : n <= k
    <3> HIDE DEF Sizes
    <3>1. Sizes \in SUBSET Nat
      BY DEF Sizes
    <3>2. QED
      BY <3>1, LeastNatural
  <2>2. PICK T \in SUBSET Nat : IsFiniteSet(T) /\ T # {} /\ Cardinality(T) = n /\ ~HasMax(T)
    BY <2>1
  <2>3. PICK a \in T : TRUE
    BY <2>2
  <2> DEFINE Rest == T \ {a}
  <2>4. IsFiniteSet(Rest) /\ Cardinality(Rest) = n - 1 /\ n \in Nat
    BY <2>1, <2>2, <2>3, FS_RemoveElement
  <2>5. Rest \in SUBSET Nat /\ a \in Nat
    BY <2>2, <2>3
  <2>6. CASE Rest = {}
    <3>1. T = {a}
      BY <2>3, <2>6
    <3>2. HasMax(T)
      BY <3>1, <2>5
    <3>3. QED
      BY <3>2, <2>2
  <2>7. CASE Rest # {}
    <3>0. n - 1 \in Nat
      BY <2>4, FS_CardinalityType
    <3>1. HasMax(Rest)
      <4> SUFFICES ASSUME ~HasMax(Rest) PROVE FALSE
        OBVIOUS
      <4>1. n - 1 \in Sizes
        BY <3>0, <2>4, <2>5, <2>7
      <4>2. QED
        BY <4>1, <2>1, <3>0, <2>4
    <3>2. PICK m \in Rest : \A x \in Rest : x <= m
      BY <3>1
    <3>3. CASE a <= m
      BY <3>2, <3>3, <2>2, <2>5
    <3>4. CASE ~(a <= m)
      <4>1. \A x \in T : x <= a
        BY <3>2, <3>4, <2>5
      <4>2. QED
        BY <4>1, <2>2, <2>3
    <3>5. QED
      BY <3>3, <3>4
  <2>8. QED
    BY <2>6, <2>7
<1>2. HasMax(S)
  <2>1. Cardinality(S) \in Nat
    BY FS_CardinalityType
  <2>2. QED
    BY <1>1, <2>1
<1>3. \E m \in S : \A x \in S : m >= x
  BY <1>2
<1>4. Max(S) \in S /\ \A x \in S : Max(S) >= x
  BY <1>3 DEF Max
<1>5. QED
  BY <1>4

(* A function on an interval has finitely many values.                     *)
LEMMA FiniteRange ==
  ASSUME NEW n \in Nat, NEW f, DOMAIN f = 1 .. n
  PROVE  IsFiniteSet(Range(f))
<1>1. IsFiniteSet(1 .. n)
  BY FS_Interval
<1> DEFINE g == [i \in 1 .. n |-> f[i]]
<1>2. g \in Surjection(1 .. n, Range(f))
  BY DEF Surjection, Range
<1>3. QED
  BY <1>1, <1>2, FS_Surjection

(* A number of a set that bounds it is its maximum.                        *)
LEMMA MaxIs ==
  ASSUME NEW S \in SUBSET Nat, NEW n \in S, \A x \in S : x <= n
  PROVE  Max(S) = n
<1>1. n \in S /\ \A x \in S : n >= x
  OBVIOUS
<1>2. Max(S) \in S /\ \A x \in S : Max(S) >= x
  BY <1>1 DEF Max
<1>3. n >= Max(S) /\ Max(S) >= n /\ n \in Nat /\ Max(S) \in Nat
  BY <1>1, <1>2
<1>4. QED
  BY <1>3

(* Min is the least element.                                               *)
LEMMA MinIsLeast ==
  ASSUME NEW S \in SUBSET Nat, S # {}
  PROVE  Min(S) \in S /\ \A x \in S : Min(S) <= x
<1>1. \E n \in S : \A x \in S : n <= x
  BY LeastNatural
<1>2. QED
  BY <1>1 DEF Min
=============================================================================
