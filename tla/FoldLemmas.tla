----------------------------- MODULE FoldLemmas -----------------------------
(***************************************************************************)
(* Lemmas that the proofs of several modules rest on: least and largest    *)
(* numbers, cardinalities one element apart, and folds from left to right. *)
(* They stand in for induction, which needs a property as a parameter: a   *)
(* set of numbers that is not empty has a least one.                       *)
(***************************************************************************)
EXTENDS Naturals, Sequences, FiniteSets, SequencesExt, FiniteSetTheorems,
        WellFoundedInduction, TLAPS
-----------------------------------------------------------------------------
(* A set of numbers that is not empty has a least one. *)
LEMMA LeastNumber ==
    ASSUME NEW S \in SUBSET Nat, S # {}
    PROVE  \E n \in S : \A m \in S : n <= m
<1>1. PICK n \in S : \A m \in S : ~(<<m, n>> \in OpToRel(<, Nat))
  BY NatLessThanWellFounded, WFMin
<1>2. ASSUME NEW m \in S PROVE n <= m
  <2>1. m \in Nat /\ n \in Nat
    OBVIOUS
  <2>2. m < n => <<m, n>> \in OpToRel(<, Nat)
    BY <2>1 DEF OpToRel
  <2>3. ~(m < n)
    BY <1>1, <2>2
  <2> QED
    BY <2>1, <2>3
<1> QED
  BY <1>2

(* A set with one element more, and with one less. *)
LEMMA OneMore ==
    ASSUME NEW S, NEW x, IsFiniteSet(S), x \notin S
    PROVE  Cardinality(S \cup {x}) = Cardinality(S) + 1 /\ Cardinality(S) \in Nat
BY FS_AddElement, FS_CardinalityType

(* The same, from the larger one. *)
LEMMA OneLess ==
    ASSUME NEW S, NEW x, IsFiniteSet(S), x \in S
    PROVE  Cardinality(S) = Cardinality(S \ {x}) + 1 /\ Cardinality(S \ {x}) \in Nat
<1>1. IsFiniteSet(S \ {x}) /\ x \notin S \ {x} /\ (S \ {x}) \cup {x} = S
  BY FS_RemoveElement
<1> QED
  BY <1>1, OneMore

(* The largest of numbers of which none is above a bound. *)
LEMMA LargestNumber ==
    ASSUME NEW S \in SUBSET Nat, S # {}, NEW n \in Nat, \A x \in S : x <= n
    PROVE  Max(S) \in S /\ \A x \in S : x <= Max(S)
<1> DEFINE gaps == {n - x : x \in S}
<1>0. \A x \in S : x \in Nat /\ n - x \in Nat
  OBVIOUS
<1>1. gaps \in SUBSET Nat /\ gaps # {}
  BY <1>0
<1>2. PICK g \in gaps : \A h \in gaps : g <= h
  BY <1>1, LeastNumber
<1>3. PICK m \in S : g = n - m
  BY <1>2
<1>4. \A x \in S : m >= x
  BY <1>2, <1>3
<1> QED
  BY <1>4 DEF Max
-----------------------------------------------------------------------------
(* Folds from left to right: what the recursion of FoldLeft says, for a step that is a function of the value and the element. *)
Folds(i, step, base, s, n) ==
    /\ i = [t \in SUBSET (1..n) |-> i[t]]
    /\ \A t \in SUBSET (1..n) :
          i[t] = IF t = {} THEN base ELSE step[<<i[t \ {Max(t)}], s[Max(t)]>>]

(* The largest position of a set of positions. *)
LEMMA LargestPosition ==
    ASSUME NEW n \in Nat, NEW t \in SUBSET (1..n), t # {}
    PROVE  Max(t) \in t /\ Max(t) \in 1..n /\ (n \in t => Max(t) = n)
<1>1. \A x \in t : x \in Nat /\ x <= n
  OBVIOUS
<1>2. Max(t) \in t /\ \A x \in t : x <= Max(t)
  <2>1. t \in SUBSET Nat
    BY <1>1
  <2> QED
    BY <1>1, <2>1, LargestNumber
<1>3. ASSUME n \in t PROVE Max(t) = n
  <2> DEFINE m == Max(t)
  <2>1. m \in Nat /\ m <= n /\ n <= m
    BY <1>1, <1>2, <1>3
  <2> HIDE DEF m
  <2>2. m = n
    BY <2>1
  <2> QED
    BY <2>2 DEF m
<1> QED
  BY <1>2, <1>3

(* What holds of no position, and of a set of positions if it does without the largest, holds of
   every set of positions. *)
LEMMA PositionsInduct ==
    ASSUME NEW n \in Nat, NEW T, {} \in T,
           \A t \in SUBSET (1..n) : t # {} /\ t \ {Max(t)} \in T => t \in T
    PROVE  \A t \in SUBSET (1..n) : t \in T
<1> DEFINE Differs == {k \in 0..n : \E t \in SUBSET (1..k) : t \notin T}
<1>1. Differs = {}
  <2> SUFFICES ASSUME Differs # {} PROVE FALSE
    OBVIOUS
  <2>1. PICK k \in Differs : \A m \in Differs : k <= m
    <3>1. Differs \in SUBSET Nat
      OBVIOUS
    <3> HIDE DEF Differs
    <3> QED
      BY <3>1, LeastNumber
  <2>2. PICK t \in SUBSET (1..k) : t \notin T
    BY <2>1
  <2>3. t # {} /\ k \in 0..n
    BY <2>1, <2>2
  <2>4. k # 0 /\ t \in SUBSET (1..n)
    <3>1. k \in Nat /\ k <= n
      BY <2>3
    <3>2. \A x \in t : x \in 1..k
      BY <2>2
    <3>3. \A x \in t : x \in 1..n
      BY <3>1, <3>2
    <3>4. PICK x : x \in t
      BY <2>3
    <3>5. k # 0
      BY <3>2, <3>4
    <3> QED
      BY <3>3, <3>5
  <2>5. Max(t) \in t /\ Max(t) \in 1..k /\ (k \in t => Max(t) = k)
    <3>1. k \in Nat
      BY <2>3
    <3> QED
      BY <2>2, <2>3, <3>1, LargestPosition
  <2>6. k - 1 \in 0..n /\ k - 1 \notin Differs
    <3>1. k \in 0..n
      BY <2>1
    <3>2. k - 1 \in 0..n /\ ~(k <= k - 1)
      BY <2>4, <3>1
    <3> HIDE DEF Differs
    <3> QED
      BY <2>1, <3>2
  <2>7. \A u \in SUBSET (1..(k - 1)) : u \in T
    BY <2>6
  <2>8. k \in t
    <3> SUFFICES ASSUME k \notin t PROVE FALSE
      OBVIOUS
    <3>1. ASSUME NEW x \in t PROVE x \in 1..(k - 1)
      <4>1. x \in 1..k /\ x # k /\ k \in Nat
        BY <2>2, <2>3
      <4> QED
        BY <4>1
    <3>2. t \in SUBSET (1..(k - 1))
      BY <3>1
    <3> QED
      BY <2>2, <2>7, <3>2
  <2>9. t \ {Max(t)} \in SUBSET (1..(k - 1))
    <3>1. ASSUME NEW x \in t, x # k PROVE x \in 1..(k - 1)
      <4>1. x \in 1..k /\ k \in Nat
        BY <2>2, <2>3
      <4> QED
        BY <3>1, <4>1
    <3>2. Max(t) = k
      BY <2>5, <2>8
    <3> QED
      BY <3>1, <3>2
  <2>10. t \ {Max(t)} \in T
    BY <2>7, <2>9
  <2> HIDE DEF Differs
  <2> QED
    BY <2>2, <2>3, <2>4, <2>10
<1>2. n \in 0..n
  OBVIOUS
<1> QED
  BY <1>1, <1>2

(* There is such a recursion where the step stays in a set. *)
LEMMA FoldExists ==
    ASSUME NEW V, NEW X, NEW step \in [V \X X -> V],
           NEW base \in V, NEW n \in Nat, NEW s \in [1..n -> X]
    PROVE  \E i \in [SUBSET (1..n) -> V] : Folds(i, step, base, s, n)
<1> DEFINE Fails == {k \in 0..n : ~\E i \in [SUBSET (1..k) -> V] : Folds(i, step, base, s, k)}
<1>1. Fails = {}
  <2> SUFFICES ASSUME Fails # {} PROVE FALSE
    OBVIOUS
  <2>1. PICK k \in Fails : \A m \in Fails : k <= m
    <3>1. Fails \in SUBSET Nat
      OBVIOUS
    <3> HIDE DEF Fails
    <3> QED
      BY <3>1, LeastNumber
  <2>2. CASE k = 0
    <3> DEFINE i == [t \in SUBSET (1..0) |-> base]
    <3>1. \A t \in SUBSET (1..0) : t = {}
      OBVIOUS
    <3>2. i \in [SUBSET (1..0) -> V] /\ Folds(i, step, base, s, 0)
      BY <3>1 DEF Folds
    <3> QED
      BY <2>1, <2>2, <3>2
  <2>3. CASE k # 0
    <3>0. k \in Nat /\ k <= n
      BY <2>1
    <3>1. k \in Nat /\ k \in 1..n /\ k - 1 \in 0..n /\ k - 1 \in Nat /\ k - 1 \notin Fails
      <4>1. k \in 1..n /\ k - 1 \in 0..n /\ k - 1 \in Nat /\ ~(k <= k - 1)
        BY <2>3, <3>0
      <4> HIDE DEF Fails
      <4> QED
        BY <2>1, <3>0, <4>1
    <3>2. PICK i \in [SUBSET (1..(k - 1)) -> V] : Folds(i, step, base, s, k - 1)
      BY <3>1
    <3> DEFINE j == [t \in SUBSET (1..k) |-> IF k \in t THEN step[<<i[t \ {k}], s[k]>>] ELSE i[t]]
    <3>3. ASSUME NEW t \in SUBSET (1..k)
          PROVE  IF k \in t THEN t \ {k} \in SUBSET (1..(k - 1)) ELSE t \in SUBSET (1..(k - 1))
      BY <3>1
    <3>4. j \in [SUBSET (1..k) -> V]
      <4> SUFFICES ASSUME NEW t \in SUBSET (1..k)
                   PROVE  (IF k \in t THEN step[<<i[t \ {k}], s[k]>>] ELSE i[t]) \in V
        OBVIOUS
      <4>1. CASE k \in t
        <5>1. i[t \ {k}] \in V /\ s[k] \in X
          BY <3>1, <3>2, <3>3, <4>1
        <5> QED
          BY <4>1, <5>1
      <4>2. CASE k \notin t
        BY <3>2, <3>3, <4>2
      <4> QED
        BY <4>1, <4>2
    <3>5. ASSUME NEW t \in SUBSET (1..k)
          PROVE  j[t] = IF t = {} THEN base ELSE step[<<j[t \ {Max(t)}], s[Max(t)]>>]
      <4>1. CASE k \in t
        <5>1. t # {} /\ Max(t) = k
          BY <3>1, <4>1, LargestPosition
        <5>2. j[t \ {k}] = i[t \ {k}]
          OBVIOUS
        <5>3. j[t] = step[<<i[t \ {k}], s[k]>>]
          BY <4>1
        <5> HIDE DEF j
        <5> QED
          BY <5>1, <5>2, <5>3
      <4>2. CASE k \notin t
        <5>1. t \in SUBSET (1..(k - 1))
          BY <3>3, <4>2
        <5>2. j[t] = i[t] /\ i[t] = IF t = {} THEN base ELSE step[<<i[t \ {Max(t)}], s[Max(t)]>>]
          BY <3>2, <4>2, <5>1 DEF Folds
        <5>3. j[t \ {Max(t)}] = i[t \ {Max(t)}]
          BY <4>2
        <5> HIDE DEF j
        <5> QED
          BY <5>2, <5>3
      <4> QED
        BY <4>1, <4>2
    <3>6. j = [t \in SUBSET (1..k) |-> j[t]]
      OBVIOUS
    <3> HIDE DEF j
    <3>7. Folds(j, step, base, s, k)
      BY <3>5, <3>6 DEF Folds
    <3> QED
      BY <2>1, <3>4, <3>7
  <2> QED
    BY <2>2, <2>3
<1>2. n \in 0..n
  OBVIOUS
<1> QED
  BY <1>1, <1>2

(* What such a recursion gives step by step, for a fold of which the recursion is known only
   while it stays in the set. *)
FoldsWithin(c, V, step, base, s, n) ==
    /\ c[{}] = base
    /\ \A t \in SUBSET (1..n) : t # {} /\ c[t \ {Max(t)}] \in V
          => c[t] = step[<<c[t \ {Max(t)}], s[Max(t)]>>]

FoldSteps(h, c, step, base, s, n) ==
    /\ h[0] = base /\ h[n] = c[1..n]
    /\ \A k \in 1..n : h[k] = step[<<h[k - 1], s[k]>>]

(* A fold of a sequence goes through it a step at a time. *)
LEMMA FoldGoes ==
    ASSUME NEW V, NEW X, NEW step \in [V \X X -> V],
           NEW base \in V, NEW n \in Nat, NEW s \in [1..n -> X],
           NEW c, FoldsWithin(c, V, step, base, s, n)
    PROVE  \E h \in [0..n -> V] : FoldSteps(h, c, step, base, s, n)
<1>1. PICK i \in [SUBSET (1..n) -> V] : Folds(i, step, base, s, n)
  BY FoldExists
<1>2. i[{}] = base /\ \A t \in SUBSET (1..n) : t # {} => i[t] = step[<<i[t \ {Max(t)}], s[Max(t)]>>]
  BY <1>1 DEF Folds
<1>3. \A t \in SUBSET (1..n) : c[t] = i[t]
  <2>1. ASSUME NEW t \in SUBSET (1..n), t # {}, c[t \ {Max(t)}] = i[t \ {Max(t)}]
        PROVE  c[t] = i[t]
    <3>1. i[t \ {Max(t)}] \in V
      <4>1. t \ {Max(t)} \in SUBSET (1..n)
        OBVIOUS
      <4> QED
        BY <1>1, <4>1
    <3>2. c[t] = step[<<c[t \ {Max(t)}], s[Max(t)]>>]
      BY <2>1, <3>1 DEF FoldsWithin
    <3> QED
      BY <1>2, <2>1, <3>2
  <2>2. c[{}] = i[{}]
    BY <1>2 DEF FoldsWithin
  <2> DEFINE T == {t \in SUBSET (1..n) : c[t] = i[t]}
  <2>3. {} \in T
    BY <2>2
  <2>4. ASSUME NEW t \in SUBSET (1..n), t # {}, t \ {Max(t)} \in T PROVE t \in T
    BY <2>1, <2>4
  <2>5. \A t \in SUBSET (1..n) : t \in T
    <3> HIDE DEF T
    <3> QED
      BY <2>3, <2>4, PositionsInduct
  <2> QED
    BY <2>5
<1> DEFINE h == [k \in 0..n |-> i[1..k]]
<1>4. ASSUME NEW k \in 0..n PROVE 1..k \in SUBSET (1..n) /\ h[k] = i[1..k]
  <2>1. \A x \in 1..k : x \in 1..n
    OBVIOUS
  <2> QED
    BY <2>1
<1>5. h \in [0..n -> V]
  BY <1>1, <1>4
<1>6. h[0] = base
  <2>1. 1..0 = {} /\ 0 \in 0..n
    OBVIOUS
  <2> QED
    BY <1>2, <1>4, <2>1
<1>7. h[n] = c[1..n]
  <2>1. n \in 0..n
    OBVIOUS
  <2> QED
    BY <1>3, <1>4, <2>1
<1>8. ASSUME NEW k \in 1..n PROVE h[k] = step[<<h[k - 1], s[k]>>]
  <2>1. k \in Nat /\ k \in 0..n /\ k - 1 \in 0..n /\ k \in 1..k
    OBVIOUS
  <2>2. (1..k) \ {k} = 1..(k - 1)
    <3>1. \A x : x \in (1..k) \ {k} <=> x \in 1..(k - 1)
      BY <2>1
    <3> QED
      BY <3>1
  <2>3. Max(1..k) = k
    <3>1. 1..k \in SUBSET (1..k) /\ 1..k # {}
      BY <2>1
    <3> HIDE DEF h
    <3> QED
      BY <2>1, <3>1, LargestPosition
  <2>4. h[k] = i[1..k] /\ h[k - 1] = i[1..(k - 1)] /\ 1..k \in SUBSET (1..n) /\ 1..k # {}
    BY <1>4, <2>1
  <2> HIDE DEF h
  <2>5. i[1..k] = step[<<i[(1..k) \ {Max(1..k)}], s[Max(1..k)]>>]
    BY <1>2, <2>4
  <2> QED
    BY <2>2, <2>3, <2>4, <2>5
<1> HIDE DEF h
<1> QED
  BY <1>5, <1>6, <1>7, <1>8 DEF FoldSteps

(* What holds at first and is kept by every step up to a number holds there. *)
LEMMA StepByStep ==
    ASSUME NEW n \in Nat, NEW S, 0 \in S, \A k \in 1..n : k - 1 \in S => k \in S
    PROVE  n \in S
<1> DEFINE Outside == {k \in 0..n : k \notin S}
<1>1. SUFFICES ASSUME Outside # {} PROVE FALSE
  <2>1. n \in 0..n
    OBVIOUS
  <2> QED
    BY <2>1
<1>2. PICK k \in Outside : \A m \in Outside : k <= m
  <2>1. Outside \in SUBSET Nat
    OBVIOUS
  <2> HIDE DEF Outside
  <2> QED
    BY <1>1, <2>1, LeastNumber
<1>3. k \in 0..n /\ k \notin S /\ k # 0
  BY <1>2
<1>4. k \in 1..n /\ k - 1 \in 0..n /\ ~(k <= k - 1)
  BY <1>3
<1>5. k - 1 \in S
  BY <1>2, <1>4
<1> QED
  BY <1>3, <1>4, <1>5
=============================================================================
