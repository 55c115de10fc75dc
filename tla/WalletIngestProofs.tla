------------------------- MODULE WalletIngestProofs -------------------------
(***************************************************************************)
(* Proofs about ProviderReads, for any window, limits and page sizes;      *)
(* about WalletIngest, for any number of webhooks and jobs, any            *)
(* transactions, and any number of failures and redeliveries; and about    *)
(* Enrichment, for any number of calls and any finite set of facts.        *)
(***************************************************************************)
EXTENDS MCWalletIngest, FoldLemmas, FiniteSetTheorems, TLAPS

-----------------------------------------------------------------------------
(* Reads.  The newest of positions are closed upwards. *)
ClosedUp(A, S) == A \subseteq S /\ \A i \in A, j \in S : j > i => j \in A

(* Positions newer than one of some are finitely many. *)
LEMMA NewerAreFinite ==
    ASSUME NEW m \in Nat, NEW S \in SUBSET (1..m)
    PROVE  /\ IsFiniteSet(S) /\ Cardinality(S) \in Nat
           /\ \A i \in S : /\ IsFiniteSet({j \in S : j > i}) /\ Cardinality({j \in S : j > i}) \in Nat
<1>1. IsFiniteSet(1..m)
  BY FS_Interval
<1>2. \A T : T \subseteq 1..m => IsFiniteSet(T) /\ Cardinality(T) \in Nat
  BY <1>1, FS_Subset, FS_CardinalityType
<1> QED
  BY <1>2

(* What is newer than one of the newest is of them. *)
LEMMA NewestUp ==
    ASSUME NEW m \in Nat, NEW S \in SUBSET (1..m), NEW n \in Nat
    PROVE  ClosedUp(Newest(S, n), S)
<1>1. ASSUME NEW i \in Newest(S, n), NEW j \in S, j > i PROVE j \in Newest(S, n)
  <2> DEFINE A == {l \in S : l > i}
             B == {l \in S : l > j}
  <2>1. i \in S /\ Cardinality(A) < n
    BY DEF Newest
  <2>2. \A l \in S : l > j => l > i
    <3>1. i \in Nat /\ j \in Nat /\ \A l \in S : l \in Nat
      BY <1>1, <2>1
    <3> QED
      BY <1>1, <3>1
  <2>3. B \subseteq A
    BY <2>2
  <2>4. IsFiniteSet(A) /\ Cardinality(A) \in Nat /\ Cardinality(B) \in Nat
    BY <2>1, NewerAreFinite
  <2>5. Cardinality(B) <= Cardinality(A)
    <3> HIDE DEF A, B
    <3> QED
      BY <2>3, <2>4, FS_Subset
  <2>6. Cardinality(B) < n
    BY <2>1, <2>4, <2>5
  <2> QED
    BY <2>6 DEF Newest
<1>2. Newest(S, n) \subseteq S
  BY DEF Newest
<1> QED
  BY <1>1, <1>2 DEF ClosedUp

(* Who is closed upwards and of the number, or everyone and no more than the number, is the
   newest. *)
LEMMA NewestIs ==
    ASSUME NEW m \in Nat, NEW S \in SUBSET (1..m), NEW n \in Nat, NEW A, ClosedUp(A, S),
           Cardinality(A) = n \/ (A = S /\ Cardinality(S) <= n)
    PROVE  Newest(S, n) = A
<1>0. A \in SUBSET S /\ IsFiniteSet(A) /\ Cardinality(A) \in Nat /\ A \in SUBSET (1..m)
  <2>1. A \in SUBSET (1..m) /\ A \in SUBSET S
    BY DEF ClosedUp
  <2> QED
    BY <2>1, NewerAreFinite
<1>1. ASSUME NEW i \in A PROVE i \in Newest(S, n)
  <2> DEFINE B == {j \in S : j > i}
  <2>1. i \in S /\ i \in Nat
    BY <1>0
  <2>2. B \subseteq A \ {i}
    <3>1. ASSUME NEW j \in S, j > i PROVE j \in A /\ j # i
      BY <2>1, <3>1 DEF ClosedUp
    <3> QED
      BY <3>1
  <2>3. Cardinality(A) = Cardinality(A \ {i}) + 1 /\ Cardinality(A \ {i}) \in Nat /\ IsFiniteSet(A \ {i})
    BY <1>0, OneLess, FS_RemoveElement
  <2>4. Cardinality(B) <= Cardinality(A \ {i}) /\ Cardinality(B) \in Nat
    <3> HIDE DEF B
    <3> QED
      BY <2>2, <2>3, FS_Subset, FS_CardinalityType
  <2>5. Cardinality(A) <= n
    BY <1>0
  <2>6. Cardinality(B) < n
    <3> HIDE DEF B
    <3> QED
      BY <1>0, <2>3, <2>4, <2>5
  <2> QED
    BY <2>1, <2>6 DEF Newest
<1>2. ASSUME NEW i \in Newest(S, n), i \notin A PROVE FALSE
  <2> DEFINE B == {j \in S : j > i}
  <2>1. i \in S /\ i \in Nat /\ Cardinality(B) < n
    BY <1>2 DEF Newest
  <2>2. A # S
    BY <1>2, <2>1
  <2>3. Cardinality(A) = n
    BY <2>2
  <2>4. ASSUME NEW a \in A PROVE a \in B
    <3>1. a \in S /\ a \in Nat /\ a # i
      BY <1>0, <1>2
    <3>2. ~(i > a)
      BY <1>2, <2>1 DEF ClosedUp
    <3> QED
      BY <2>1, <3>1, <3>2
  <2>5. A \subseteq B /\ IsFiniteSet(B) /\ Cardinality(B) \in Nat
    BY <2>1, <2>4, NewerAreFinite
  <2>6. Cardinality(A) <= Cardinality(B)
    <3> HIDE DEF B
    <3> QED
      BY <2>5, FS_Subset
  <2> HIDE DEF B
  <2> QED
    BY <2>1, <2>3, <2>5, <2>6
<1>3. Newest(S, n) \subseteq S
  BY DEF Newest
<1> QED
  BY <1>1, <1>2

(* The newest are as many as asked for, or all there are. *)
LEMMA NewestCount ==
    ASSUME NEW m \in Nat, NEW S \in SUBSET (1..m), NEW n \in Nat
    PROVE  /\ Cardinality(Newest(S, n)) \in Nat /\ Cardinality(Newest(S, n)) <= n
           /\ Newest(S, n) = S \/ Cardinality(Newest(S, n)) = n
<1> DEFINE Right(k) == /\ Cardinality(Newest(S, k)) <= k
                       /\ Newest(S, k) = S \/ Cardinality(Newest(S, k)) = k
           G == {k \in Nat : Right(k)}
<1>0. \A k \in Nat : /\ Newest(S, k) \in SUBSET (1..m) /\ IsFiniteSet(Newest(S, k))
                     /\ Cardinality(Newest(S, k)) \in Nat
  <2>1. \A k \in Nat : Newest(S, k) \in SUBSET (1..m)
    BY DEF Newest
  <2> QED
    BY <2>1, NewerAreFinite
<1>1. 0 \in G
  <2>1. ClosedUp({}, S) /\ Cardinality({}) = 0
    BY FS_EmptySet DEF ClosedUp
  <2>2. Newest(S, 0) = {}
    BY <2>1, NewestIs
  <2> QED
    BY <2>1, <2>2
<1>2. ASSUME NEW k \in 1..n, k - 1 \in G PROVE k \in G
  <2> DEFINE A == Newest(S, k - 1)
  <2>0. k \in Nat /\ k - 1 \in Nat /\ k - 1 + 1 = k
    OBVIOUS
  <2>1. Cardinality(A) <= k - 1 /\ (A = S \/ Cardinality(A) = k - 1)
    BY <1>2
  <2>2. ClosedUp(A, S) /\ A \in SUBSET (1..m) /\ IsFiniteSet(A) /\ Cardinality(A) \in Nat
    BY <1>0, <2>0, NewestUp
  <2> HIDE DEF A
  <2>3. CASE A = S
    <3>1. Cardinality(S) <= k
      BY <2>0, <2>1, <2>2, <2>3
    <3>2. Newest(S, k) = S
      BY <2>0, <2>2, <2>3, <3>1, NewestIs
    <3> QED
      BY <2>0, <3>1, <3>2
  <2>4. CASE A # S
    <3>0. S \ A # {}
      BY <2>2, <2>4 DEF ClosedUp
    <3>7. \A y \in S : y \in 1..m
      OBVIOUS
    <3>8. \A y \in S : y \in Nat /\ y <= m
      BY <3>7
    <3>1. S \ A \in SUBSET Nat /\ \A y \in S \ A : y <= m
      BY ONLY <3>8
    <3>2. Max(S \ A) \in S \ A /\ \A x \in S \ A : x <= Max(S \ A)
      BY <3>0, <3>1, LargestNumber
    <3> DEFINE x == Max(S \ A)
               B == A \cup {x}
    <3>3. x \in S /\ x \notin A /\ x \in Nat /\ \A y \in S \ A : y <= x
      BY <3>1, <3>2
    <3> HIDE DEF x
    <3>4. Cardinality(B) = k
      BY <2>0, <2>1, <2>2, <2>4, <3>3, OneMore
    <3>5. ClosedUp(B, S)
      <4>1. ASSUME NEW i \in B, NEW j \in S, j > i PROVE j \in B
        <5>1. CASE i \in A
          BY <2>2, <4>1, <5>1 DEF ClosedUp
        <5>2. CASE i = x
          <6>1. j \in Nat /\ ~(j <= x)
            BY <3>3, <4>1, <5>2
          <6> QED
            BY <3>3, <6>1
        <5> QED
          BY <5>1, <5>2
      <4>2. B \subseteq S
        BY <2>2, <3>3 DEF ClosedUp
      <4> HIDE DEF B
      <4> QED
        BY <4>1, <4>2 DEF ClosedUp
    <3> HIDE DEF B
    <3>6. Newest(S, k) = B
      BY <2>0, <3>4, <3>5, NewestIs
    <3> QED
      BY <2>0, <3>4, <3>6
  <2> QED
    BY <2>3, <2>4
<1>3. n \in G
  <2> HIDE DEF G
  <2> QED
    BY <1>1, <1>2, StepByStep
<1> QED
  BY <1>0, <1>3

(* What the reads compute, of a given chain. *)
Transfers == [way : Ways \cup {"self"}, day : Nat, key : Nat]
UptoIn(c, way, n) == {i \in 1..n : Goes(c[i], way)}
FirstOf(c, positions, had) ==
    {i \in positions : \A j \in {j \in positions : j > i} \cup had : c[j].key # c[i].key}
OlderIn(c, i) == c[i].day > 0 /\ c[i].day < FirstDay
NewerIn(c, i) == c[i].day > LastDay
WindowIn(c, positions) ==
    {i \in positions : ~NewerIn(c, i) /\ \A j \in positions : j >= i => ~OlderIn(c, j)}

(* They are of the part of a chain that stays when transfers arrive. *)
LEMMA SameOfLonger ==
    ASSUME NEW c, NEW d, NEW n \in Nat, \A i \in 1..n : d[i] = c[i]
    PROVE  /\ \A way : \A f \in 0..n : UptoIn(d, way, f) = UptoIn(c, way, f)
           /\ \A S \in SUBSET (1..n), had \in SUBSET (1..n) : FirstOf(d, S, had) = FirstOf(c, S, had)
           /\ \A S \in SUBSET (1..n) : WindowIn(d, S) = WindowIn(c, S)
           /\ \A i \in 1..n : OlderIn(d, i) = OlderIn(c, i) /\ NewerIn(d, i) = NewerIn(c, i)
<1>1. ASSUME NEW way, NEW f \in 0..n PROVE UptoIn(d, way, f) = UptoIn(c, way, f)
  <2>1. \A i \in 1..f : i \in 1..n
    OBVIOUS
  <2> QED
    BY <2>1 DEF UptoIn
<1>2. ASSUME NEW S \in SUBSET (1..n), NEW had \in SUBSET (1..n)
      PROVE  FirstOf(d, S, had) = FirstOf(c, S, had)
  <2>1. \A i \in S, j \in S \cup had : d[i] = c[i] /\ d[j] = c[j]
    OBVIOUS
  <2> QED
    BY <2>1 DEF FirstOf
<1>3. \A i \in 1..n : OlderIn(d, i) = OlderIn(c, i) /\ NewerIn(d, i) = NewerIn(c, i)
  BY DEF OlderIn, NewerIn
<1>4. ASSUME NEW S \in SUBSET (1..n) PROVE WindowIn(d, S) = WindowIn(c, S)
  <2>1. \A i \in S : OlderIn(d, i) = OlderIn(c, i) /\ NewerIn(d, i) = NewerIn(c, i)
    BY <1>3
  <2> QED
    BY <2>1 DEF WindowIn
<1> QED
  BY <1>1, <1>2, <1>3, <1>4

(* Of each key that is read the newest is kept, unless it was had. *)
LEMMA KeyIsKept ==
    ASSUME NEW c, NEW S, S \subseteq Nat, \E m \in Nat : \A j \in S : j <= m,
           NEW had, NEW i \in S
    PROVE  \/ \E j \in FirstOf(c, S, had) : c[j].key = c[i].key
           \/ \E j \in had : c[j].key = c[i].key
<1> SUFFICES ASSUME ~\E j \in had : c[j].key = c[i].key
             PROVE  \E j \in FirstOf(c, S, had) : c[j].key = c[i].key
  OBVIOUS
<1> DEFINE T == {j \in S : c[j].key = c[i].key}
<1>0. PICK m \in Nat : \A j \in S : j <= m
  OBVIOUS
<1>1. T \in SUBSET Nat /\ T # {} /\ \A j \in T : j <= m
  <2>2. \A j \in S : j \in Nat /\ j <= m
    BY <1>0
  <2>3. i \in T /\ T \subseteq S
    OBVIOUS
  <2> HIDE DEF T
  <2> QED
    BY ONLY <2>2, <2>3
<1>2. Max(T) \in T /\ \A j \in T : j <= Max(T)
  <2> HIDE DEF T
  <2> QED
    BY <1>1, LargestNumber
<1> DEFINE x == Max(T)
<1>3. x \in S /\ c[x].key = c[i].key /\ x \in Nat /\ \A j \in S : c[j].key = c[i].key => j <= x
  BY <1>1, <1>2
<1> HIDE DEF x, T
<1>4. \A j \in S : j > x => c[j].key # c[x].key
  <2> SUFFICES ASSUME NEW j \in S, j > x, c[j].key = c[x].key PROVE FALSE
    OBVIOUS
  <2>1. j <= x /\ j \in Nat
    BY <1>3
  <2> QED
    BY <1>3, <2>1
<1>5. x \in FirstOf(c, S, had)
  BY <1>3, <1>4 DEF FirstOf
<1> QED
  BY <1>3, <1>5

(* What is kept of older entries does not change what was kept of the newer: page by page the
   same is kept as of all pages at once. *)
LEMMA KeptByPages ==
    ASSUME NEW c, NEW S, NEW page, NEW both, both = S \cup page, both \subseteq Nat,
           \E m \in Nat : \A i \in both : i <= m, NEW had, NEW kept, kept = FirstOf(c, S, had), NEW new, new = FirstOf(c, page, had \cup kept),
           \A i \in S, j \in page : i > j
    PROVE  FirstOf(c, both, had) = kept \cup new
<1> DEFINE all == FirstOf(c, both, had)
<1>0. (\A i \in S, j \in page : ~(j > i)) /\ \A i \in S, j \in page : i \notin page /\ j \notin S
  <2>1. \A i \in S, j \in page : i \in Nat /\ j \in Nat
    OBVIOUS
  <2> QED
    BY <2>1
<1>1. ASSUME NEW i \in S PROVE i \in all <=> i \in kept
  <2>1. {j \in S \cup page : j > i} = {j \in S : j > i}
    BY <1>0
  <2> QED
    BY <2>1 DEF FirstOf
<1>2. ASSUME NEW i \in page PROVE i \in all <=> i \in new
  <2>1. {j \in S \cup page : j > i} = S \cup {j \in page : j > i}
    OBVIOUS
  <2>2. i \in all <=> \A j \in S \cup {j \in page : j > i} \cup had : c[j].key # c[i].key
    BY <2>1 DEF FirstOf
  <2>3. i \in new <=> \A j \in {j \in page : j > i} \cup (had \cup kept) : c[j].key # c[i].key
    BY DEF FirstOf
  <2>4. kept \subseteq S
    BY DEF FirstOf
  <2>5. (\A j \in had \cup kept : c[j].key # c[i].key) => \A j \in S : c[j].key # c[i].key
    <3>1. \A j \in S : (\E k \in kept : c[k].key = c[j].key) \/ \E k \in had : c[k].key = c[j].key
      <4>1. \A j \in S : \/ \E k \in FirstOf(c, S, had) : c[k].key = c[j].key
                         \/ \E k \in had : c[k].key = c[j].key
        <5>1. S \subseteq Nat /\ \E m \in Nat : \A j \in S : j <= m
          OBVIOUS
        <5> QED
          BY ONLY <5>1, KeyIsKept
      <4> QED
        BY <4>1
    <3> QED
      BY ONLY <3>1
  <2> HIDE DEF all
  <2> QED
    BY <2>2, <2>3, <2>4, <2>5
<1>3. all \subseteq S \cup page /\ kept \subseteq S /\ new \subseteq page
  BY DEF FirstOf
<1> HIDE DEF all
<1>4. all = kept \cup new
  BY <1>0, <1>1, <1>2, <1>3
<1> QED
  BY <1>4 DEF all

(* What is kept of the newest entries is what is kept of all that is among them. *)
LEMMA KeptUp ==
    ASSUME NEW c, NEW U, NEW S, NEW had, ClosedUp(S, U)
    PROVE  ClosedUp(FirstOf(c, S, had), FirstOf(c, U, had))
<1>1. ASSUME NEW i \in S PROVE i \in FirstOf(c, S, had) <=> i \in FirstOf(c, U, had)
  <2>1. {j \in U : j > i} = {j \in S : j > i}
    BY DEF ClosedUp
  <2> QED
    BY <2>1 DEF FirstOf, ClosedUp
<1>2. FirstOf(c, S, had) \subseteq S /\ FirstOf(c, U, had) \subseteq U
  BY DEF FirstOf
<1> QED
  BY <1>1, <1>2 DEF ClosedUp

(* So is what lies in the window. *)
LEMMA WindowUp ==
    ASSUME NEW c, NEW U \in SUBSET Nat, NEW S, ClosedUp(S, U)
    PROVE  ClosedUp(WindowIn(c, S), WindowIn(c, U))
<1>1. ASSUME NEW i \in S PROVE i \in WindowIn(c, S) <=> i \in WindowIn(c, U)
  <2>1. \A j \in U : j >= i => j \in S
    <3>1. \A j \in U : j >= i => j > i \/ j = i
      BY DEF ClosedUp
    <3> QED
      BY <3>1 DEF ClosedUp
  <2>2. S \subseteq U
    BY DEF ClosedUp
  <2>3. (\A j \in U : j >= i => ~OlderIn(c, j)) <=> \A j \in S : j >= i => ~OlderIn(c, j)
    BY <2>1, <2>2
  <2>4. i \in U
    BY <2>2
  <2> QED
    BY <2>3, <2>4 DEF WindowIn
<1>2. WindowIn(c, S) \subseteq S /\ WindowIn(c, U) \subseteq U
  BY DEF WindowIn
<1> QED
  BY <1>1, <1>2 DEF ClosedUp

(* A page: what is read so far and the page are closed upwards in all that was to be read,
   and end where the next page begins. *)
LEMMA PageFollows ==
    ASSUME NEW m \in Nat, NEW f \in 0..m, NEW h \in 0..f, NEW c, NEW way, NEW n \in Nat,
           NEW U, U = UptoIn(c, way, f), NEW rest, rest = UptoIn(c, way, h),
           NEW page, page = Newest(rest, n), NEW g, g = After(page, h)
    PROVE  /\ U \in SUBSET (1..m) /\ rest \in SUBSET (1..m) /\ page \in SUBSET (1..m)
           /\ g \in 0..h /\ page \subseteq rest
           /\ {i \in U : i > g} = {i \in U : i > h} \cup page
           /\ \A i \in {i \in U : i > h}, j \in page : i > j
           /\ page = rest => {i \in U : i > g} = U
           /\ ClosedUp({i \in U : i > g}, U)
<1>0. m \in Nat /\ f \in Nat /\ h \in Nat /\ h <= f /\ f <= m
  OBVIOUS
<1>1. U \in SUBSET (1..m) /\ rest \in SUBSET (1..m) /\ \A i \in U : i \in rest <=> ~(i > h)
  <2>1. \A i \in 1..f : i \in 1..m /\ (i \in 1..h <=> ~(i > h))
    BY <1>0
  <2>2. \A i \in 1..h : i \in 1..m /\ i \in 1..f
    BY <1>0
  <2> QED
    BY <2>1, <2>2 DEF UptoIn
<1>2. rest \subseteq U /\ \A i \in rest : i \in Nat /\ 1 <= i /\ i <= h
  <2>1. \A i \in 1..h : i \in 1..f /\ i \in Nat /\ 1 <= i /\ i <= h
    BY <1>0
  <2> QED
    BY <2>1 DEF UptoIn
<1>3. ClosedUp(page, rest)
  BY <1>1, NewestUp
<1>4. page \subseteq rest /\ page \in SUBSET (1..m)
  BY <1>1, <1>3 DEF ClosedUp
<1>5. /\ g \in 0..h
      /\ \A i \in rest : i > g <=> i \in page
  <2>1. CASE page = {}
    BY <1>0, <1>2, <2>1 DEF After
  <2>2. CASE page # {}
    <3>1. page \in SUBSET Nat
      BY <1>2, <1>4
    <3>2. \E x \in page : \A y \in page : x <= y
      BY <2>2, <3>1, LeastNumber
    <3>3. Min(page) \in page /\ \A y \in page : Min(page) <= y
      BY <3>2 DEF Min
    <3>4. g = Min(page) - 1
      BY <2>2 DEF After
    <3> DEFINE x == Min(page)
    <3>5. x \in rest /\ x \in page /\ x \in Nat /\ 1 <= x /\ x <= h /\ g = x - 1
      BY <1>2, <1>4, <3>3, <3>4
    <3>6. \A y \in page : x <= y
      BY <3>3
    <3> HIDE DEF x
    <3>7. ASSUME NEW i \in rest PROVE i > g <=> i \in page
      <4>1. i \in Nat
        BY <1>2
      <4>2. i \in page => i > g
        BY <3>5, <3>6, <4>1
      <4>3. i > g => i = x \/ i > x
        BY <3>5, <4>1
      <4>4. i > x => i \in page
        BY <1>3, <3>5 DEF ClosedUp
      <4> QED
        BY <3>5, <4>2, <4>3, <4>4
    <3>8. g \in 0..h
      BY <1>0, <3>5
    <3> QED
      BY <3>7, <3>8
  <2> QED
    BY <2>1, <2>2
<1>6. {i \in U : i > g} = {i \in U : i > h} \cup page
  <2>1. ASSUME NEW i \in U PROVE i > g <=> i > h \/ i \in page
    <3>1. i \in Nat /\ g \in Nat /\ g <= h
      BY <1>0, <1>1, <1>5
    <3>2. CASE i > h
      BY <1>0, <3>1, <3>2
    <3>3. CASE ~(i > h)
      BY <1>1, <1>5, <3>3
    <3> QED
      BY <3>2, <3>3
  <2> QED
    BY <1>2, <1>4, <2>1
<1>7. ASSUME NEW i \in {i \in U : i > h}, NEW j \in page PROVE i > j
  <2>1. i \in Nat /\ i > h /\ j \in Nat /\ j <= h
    BY <1>1, <1>2, <1>4
  <2> QED
    BY <1>0, <2>1
<1>8. page = rest => {i \in U : i > g} = U
  <2> SUFFICES ASSUME page = rest, NEW i \in U PROVE i > h \/ i \in page
    BY <1>2, <1>6
  <2> QED
    BY <1>1
<1>9. ClosedUp({i \in U : i > g}, U)
  <2>1. ASSUME NEW i \in U, i > g, NEW j \in U, j > i PROVE j > g
    <3>1. i \in Nat /\ j \in Nat /\ g \in Nat
      BY <1>0, <1>1, <1>5
    <3> QED
      BY <2>1, <3>1
  <2> QED
    BY <2>1 DEF ClosedUp
<1> QED
  BY <1>1, <1>4, <1>5, <1>6, <1>7, <1>8, <1>9

(* Types of the parts of a read, and of a chain: days do not fall, and equal keys are of one day. *)
Places == {"idle", "pages", "transactions", "done"}
Reads == [at : Places, provider : {"none", "alchemy", "helius"}, open : SUBSET Ways,
          cursor : [Ways -> Nat], from : [Ways -> Nat], pages : [Ways -> Nat],
          got : [Ways -> SUBSET Nat], listed : SUBSET Nat, absent : SUBSET Nat]

ChainGrows(c) ==
    /\ \A i \in DOMAIN c : c[i].key <= i /\ c[i].day <= i
    /\ \A i, j \in DOMAIN c : c[i].key = c[j].key => c[i].day = c[j].day
    /\ \A i, j \in DOMAIN c : i < j /\ c[i].day > 0 /\ c[j].day > 0 => c[i].day <= c[j].day

ReadTypes ==
    /\ readKind \in Kinds /\ readFailures \in 0..MaxReadFailures
    /\ chain \in Seq(Transfers) /\ Len(chain) <= MaxChain /\ ChainGrows(chain)
    /\ read \in Reads
    /\ \A w \in Ways : read.got[w] \in SUBSET (1..Len(chain)) /\ read.cursor[w] <= Len(chain)

(* What one direction has read: from its first page on down to the next. *)
FromOf(c, r, way) == IF r.pages[way] = 0 THEN Len(c) ELSE r.from[way]
HeadOf(c, r, way) == IF r.pages[way] = 0 THEN Len(c) ELSE r.cursor[way]
ReadOf(c, r, way) == {i \in UptoIn(c, way, FromOf(c, r, way)) : i > HeadOf(c, r, way)}
InRange(c, r, way) == FromOf(c, r, way) \in 0..Len(c) /\ HeadOf(c, r, way) \in 0..FromOf(c, r, way)

(* EVM: what is kept is of each key the newest; less than the share while it goes on. *)
Share(way) ==
    IF ReadLimit = 1 THEN ReadLimit
    ELSE LET share == IF way = "in" THEN (ReadLimit + 1) \div 2 ELSE ReadLimit \div 2
         IN  IF PageSize < share THEN PageSize ELSE share
HadOf(r, way) == IF way = "out" THEN r.got["in"] ELSE {}
EvmOpen(c, r, way) ==
    /\ r.open = {way} /\ InRange(c, r, way)
    /\ r.got[way] = FirstOf(c, ReadOf(c, r, way), HadOf(r, way))
    /\ Cardinality(r.got[way]) < Share(way)
EvmRead(c, r, way) ==
    /\ r.pages[way] # 0 /\ r.from[way] \in 0..Len(c)
    /\ r.got[way] = Newest(FirstOf(c, UptoIn(c, way, r.from[way]), HadOf(r, way)), Share(way))
EvmInv(c, r) ==
    /\ r.at = "pages" =>
         \/ EvmOpen(c, r, "in") /\ r.pages["out"] = 0 /\ r.got["out"] = {}
         \/ EvmOpen(c, r, "out") /\ EvmRead(c, r, "in") /\ Cardinality(r.got["in"]) < ReadLimit
    /\ r.at = "done" =>
         /\ EvmRead(c, r, "in")
         /\ IF Cardinality(r.got["in"]) = ReadLimit THEN r.got["out"] = {} ELSE EvmRead(c, r, "out")
    /\ r.at # "transactions"

(* Solana: what is kept lies in the window, and nothing older was met while it goes on. *)
SolanaListed(c, r) == Newest(WindowIn(c, UptoIn(c, "all", r.from["all"])), ReadLimit)
SolanaInv(c, r) ==
    /\ r.at = "pages" =>
         /\ r.open = {"all"} /\ r.absent = {} /\ r.listed = {} /\ InRange(c, r, "all")
         /\ \A i \in ReadOf(c, r, "all") : ~OlderIn(c, i)
         /\ r.got["all"] = WindowIn(c, ReadOf(c, r, "all"))
         /\ Cardinality(r.got["all"]) < ReadLimit
    /\ r.at \in {"transactions", "done"} =>
         /\ r.from["all"] \in 0..Len(c)
         /\ r.listed \subseteq SolanaListed(c, r) /\ r.absent \subseteq SolanaListed(c, r) \ r.listed
         /\ r.got["all"] = (SolanaListed(c, r) \ r.listed) \ r.absent
    /\ r.at = "transactions" <=> r.listed # {}

(* The copilot: everything read is kept, and a direction ends when pages run out or nothing of
   the window is left. *)
WebRead(c, r, way) ==
    /\ InRange(c, r, way) /\ r.got[way] = ReadOf(c, r, way) /\ r.pages[way] <= PageLimit
    /\ way \in r.open => r.pages[way] < PageLimit
    /\ way \notin r.open /\ r.pages[way] < PageLimit =>
         /\ r.pages[way] # 0
         /\ \A i \in UptoIn(c, way, r.from[way]) : c[i].day >= FirstDay => i \in r.got[way]
WebInv(c, r) ==
    /\ r.at \in {"pages", "done"} => WebRead(c, r, "in") /\ WebRead(c, r, "out")
    /\ "all" \notin r.open /\ r.pages["all"] = 0
    /\ r.at = "done" => r.open = {}
    /\ r.at # "transactions"
    /\ r.at = "idle" => r.pages = [w \in Ways |-> 0]

KindInv(k, c, r) ==
    /\ k = "evm" => EvmInv(c, r)
    /\ k = "solana" => SolanaInv(c, r)
    /\ k = "web" => WebInv(c, r)

ReadInv == ReadTypes /\ KindInv(readKind, chain, read)

(* The model computes the same of its chain. *)
LEMMA OfTheChain ==
    /\ \A way, n : Upto(way, n) = UptoIn(chain, way, n)
    /\ \A S, had : Distinct(S, had) = FirstOf(chain, S, had)
    /\ \A i : Older(i) = OlderIn(chain, i) /\ Newer(i) = NewerIn(chain, i)
    /\ \A S : {i \in BeforeOlder(S) : ~Newer(i)} = WindowIn(chain, S)
<1>1. \A i : Older(i) = OlderIn(chain, i) /\ Newer(i) = NewerIn(chain, i)
  BY DEF Older, Newer, OlderIn, NewerIn
<1>2. ASSUME NEW S PROVE {i \in BeforeOlder(S) : ~Newer(i)} = WindowIn(chain, S)
  <2>1. \A i : i \in BeforeOlder(S) <=> i \in S /\ \A j \in S : j >= i => ~OlderIn(chain, j)
    BY <1>1 DEF BeforeOlder
  <2>2. \A i : i \in WindowIn(chain, S) <=> i \in S /\ ~NewerIn(chain, i) /\ \A j \in S : j >= i => ~OlderIn(chain, j)
    BY DEF WindowIn
  <2> QED
    BY <1>1, <2>1, <2>2
<1> QED
  BY <1>1, <1>2 DEF Upto, UptoIn, Distinct, FirstOf

(* What a read is at first. *)
LEMMA FreshIs ==
    ASSUME readKind \in Kinds, NEW p \in {"alchemy", "helius"}, NEW r, r = Fresh(p)
    PROVE  /\ r \in Reads /\ r.at = "pages"
           /\ \A w \in Ways : r.got[w] = {} /\ r.pages[w] = 0 /\ r.cursor[w] = 0 /\ r.from[w] = 0
           /\ r.listed = {} /\ r.absent = {}
           /\ readKind = "evm" => r.open = {"in"}
           /\ readKind = "web" => r.open = {"in", "out"}
           /\ readKind = "solana" => r.open = {"all"}
<1> DEFINE z == [w \in Ways |-> 0]
           e == [w \in Ways |-> {}]
           o == CASE readKind = "evm" -> {"in"} [] readKind = "web" -> {"in", "out"}
                  [] readKind = "solana" -> {"all"}
           s == [at |-> "pages", provider |-> p, open |-> o, cursor |-> z, from |-> z, pages |-> z,
                 got |-> e, listed |-> {}, absent |-> {}]
<1>1. readKind \in {"evm", "solana", "web"}
  BY ReadsAssumption
<1>2. /\ readKind = "evm" => o = {"in"}
      /\ readKind = "web" => o = {"in", "out"}
      /\ readKind = "solana" => o = {"all"}
  OBVIOUS
<1>3. o \in SUBSET Ways
  BY <1>1, <1>2 DEF Ways
<1>4. z \in [Ways -> Nat] /\ e \in [Ways -> SUBSET Nat]
  OBVIOUS
<1>5. (\A w \in Ways : z[w] = 0) /\ \A w \in Ways : e[w] = {}
  OBVIOUS
<1>6. Fresh(p) = s
  <2>1. NoRead = [at |-> "idle", provider |-> "none", open |-> {}, cursor |-> z, from |-> z, pages |-> z,
                  got |-> e, listed |-> {}, absent |-> {}]
    BY DEF NoRead
  <2>2. Fresh(p) = [NoRead EXCEPT !.at = "pages", !.provider = p, !.open = o]
    BY DEF Fresh
  <2> HIDE DEF z, e, o
  <2> QED
    BY <2>1, <2>2
<1> HIDE DEF z, e, o
<1>7. s \in Reads
  BY <1>3, <1>4 DEF Reads, Places
<1>8. /\ s.at = "pages" /\ s.open = o /\ s.cursor = z /\ s.from = z /\ s.pages = z /\ s.got = e
      /\ s.listed = {} /\ s.absent = {}
  OBVIOUS
<1> HIDE DEF s
<1> QED
  BY <1>2, <1>5, <1>6, <1>7, <1>8

(* No read is of the types, too. *)
LEMMA NoReadIs ==
    /\ NoRead \in Reads /\ NoRead.at = "idle" /\ NoRead.listed = {} /\ NoRead.absent = {}
    /\ NoRead.open = {} /\ NoRead.pages = [w \in Ways |-> 0]
    /\ \A w \in Ways : NoRead.got[w] = {} /\ NoRead.pages[w] = 0 /\ NoRead.cursor[w] = 0
<1> DEFINE z == [w \in Ways |-> 0]
           e == [w \in Ways |-> {}]
<1>1. z \in [Ways -> Nat] /\ e \in [Ways -> SUBSET Nat]
  OBVIOUS
<1>2. NoRead = [at |-> "idle", provider |-> "none", open |-> {}, cursor |-> z, from |-> z, pages |-> z,
                got |-> e, listed |-> {}, absent |-> {}]
  BY DEF NoRead
<1>3. (\A w \in Ways : z[w] = 0) /\ \A w \in Ways : e[w] = {}
  OBVIOUS
<1> HIDE DEF z, e
<1>4. NoRead \in Reads
  BY <1>1, <1>2 DEF Reads, Places
<1>5. /\ NoRead.at = "idle" /\ NoRead.listed = {} /\ NoRead.absent = {} /\ NoRead.open = {}
      /\ NoRead.pages = z /\ NoRead.got = e /\ NoRead.cursor = z
  BY <1>2
<1> QED
  BY <1>3, <1>4, <1>5 DEF z

(* Shares are positive, and no share is above the limit. *)
LEMMA Shares ==
    \A way \in Ways : Share(way) \in Nat \ {0} /\ Share(way) <= ReadLimit
<1>1. ReadLimit \in Nat \ {0} /\ PageSize \in Nat \ {0}
  BY ReadsAssumption
<1>2. ReadLimit # 1 =>
        /\ (ReadLimit + 1) \div 2 \in Nat \ {0} /\ (ReadLimit + 1) \div 2 <= ReadLimit
        /\ ReadLimit \div 2 \in Nat \ {0} /\ ReadLimit \div 2 <= ReadLimit
  BY <1>1
<1> QED
  BY <1>1, <1>2 DEF Share

(* A read that has not begun, and one that begins, are as they should be. *)
LEMMA ReadsBegin ==
    ASSUME readKind \in Kinds, NEW c \in Seq(Transfers), NEW r,
           r = NoRead \/ r = Fresh("alchemy") \/ r = Fresh("helius")
    PROVE  KindInv(readKind, c, r)
<1>1. readKind \in {"evm", "solana", "web"}
  BY ReadsAssumption
<1>2. Ways = {"in", "out", "all"}
  BY DEF Ways
<1>3. CASE r = NoRead
  <2>1. r.at = "idle" /\ r.listed = {} /\ r.pages = [w \in Ways |-> 0] /\ r.pages["all"] = 0 /\ r.open = {}
    BY <1>2, <1>3, NoReadIs
  <2>2. EvmInv(c, r) /\ SolanaInv(c, r) /\ WebInv(c, r)
    BY <2>1 DEF EvmInv, SolanaInv, WebInv
  <2> QED
    BY <1>1, <2>2 DEF KindInv
<1>4. CASE r = Fresh("alchemy") \/ r = Fresh("helius")
  <2>1. /\ r.at = "pages" /\ r.listed = {} /\ r.absent = {}
        /\ \A w \in Ways : r.got[w] = {} /\ r.pages[w] = 0
        /\ readKind = "evm" => r.open = {"in"}
        /\ readKind = "web" => r.open = {"in", "out"}
        /\ readKind = "solana" => r.open = {"all"}
    BY <1>4, FreshIs
  <2>2. Len(c) \in Nat
    OBVIOUS
  <2>3. ASSUME NEW w \in Ways PROVE InRange(c, r, w) /\ ReadOf(c, r, w) = {}
    <3>1. FromOf(c, r, w) = Len(c) /\ HeadOf(c, r, w) = Len(c)
      BY <2>1 DEF FromOf, HeadOf
    <3>2. UptoIn(c, w, Len(c)) \subseteq 1..Len(c)
      BY DEF UptoIn
    <3>3. \A i \in 1..Len(c) : ~(i > Len(c))
      BY <2>2
    <3> QED
      BY <2>2, <3>1, <3>2, <3>3 DEF InRange, ReadOf
  <2>4. CASE readKind = "evm"
    <3>1. r.got["in"] = FirstOf(c, ReadOf(c, r, "in"), HadOf(r, "in"))
      BY <1>2, <2>1, <2>3 DEF FirstOf
    <3>2. Cardinality(r.got["in"]) < Share("in")
      <4>1. Cardinality(r.got["in"]) = 0
        BY <1>2, <2>1, FS_EmptySet
      <4>2. Share("in") \in Nat \ {0}
        BY <1>2, Shares
      <4> QED
        BY <4>1, <4>2
    <3>3. r.pages["out"] = 0 /\ r.got["out"] = {} /\ InRange(c, r, "in")
      BY <1>2, <2>1, <2>3
    <3>4. EvmInv(c, r)
      BY <2>1, <2>4, <3>1, <3>2, <3>3 DEF EvmInv, EvmOpen
    <3> QED
      BY <2>4, <3>4 DEF KindInv
  <2>5. CASE readKind = "solana"
    <3>1. r.got["all"] = WindowIn(c, ReadOf(c, r, "all")) /\ \A i \in ReadOf(c, r, "all") : ~OlderIn(c, i)
      BY <1>2, <2>1, <2>3 DEF WindowIn
    <3>2. Cardinality(r.got["all"]) < ReadLimit
      <4>1. Cardinality(r.got["all"]) = 0
        BY <1>2, <2>1, FS_EmptySet
      <4> QED
        BY <4>1, ReadsAssumption
    <3>3. InRange(c, r, "all")
      BY <1>2, <2>3
    <3>4. SolanaInv(c, r)
      BY <2>1, <2>5, <3>1, <3>2, <3>3 DEF SolanaInv
    <3> QED
      BY <2>5, <3>4 DEF KindInv
  <2>6. CASE readKind = "web"
    <3>1. PageLimit \in Nat \ {0}
      BY ReadsAssumption
    <3>2. r.open = {"in", "out"}
      BY <2>1, <2>6
    <3>3. ASSUME NEW w \in {"in", "out"} PROVE WebRead(c, r, w)
      <4>1. r.pages[w] = 0 /\ r.got[w] = {} /\ InRange(c, r, w) /\ ReadOf(c, r, w) = {} /\ w \in r.open
        BY <1>2, <2>1, <2>3, <3>2
      <4> QED
        BY <3>1, <4>1 DEF WebRead
    <3>4. WebInv(c, r)
      BY <1>2, <2>1, <3>2, <3>3 DEF WebInv
    <3> QED
      BY <2>6, <3>4 DEF KindInv
  <2> QED
    BY <1>1, <2>4, <2>5, <2>6
<1> QED
  BY <1>3, <1>4

(* A transfer that arrives leaves what is known of a read as it is. *)
LEMMA ReadsStay ==
    ASSUME NEW k, NEW c \in Seq(Transfers), NEW d \in Seq(Transfers), Len(c) <= Len(d),
           \A i \in 1..Len(c) : d[i] = c[i],
           NEW r \in Reads, \A w \in Ways : r.got[w] \in SUBSET (1..Len(c)), KindInv(k, c, r)
    PROVE  KindInv(k, d, r)
<1> DEFINE n == Len(c)
<1>1. n \in Nat /\ Len(d) \in Nat /\ n <= Len(d) /\ \A i \in 1..n : d[i] = c[i]
  OBVIOUS
<1>2. Ways = {"in", "out", "all"}
  BY DEF Ways
<1>3. /\ \A way : \A f \in 0..n : UptoIn(d, way, f) = UptoIn(c, way, f)
      /\ \A S \in SUBSET (1..n), had \in SUBSET (1..n) : FirstOf(d, S, had) = FirstOf(c, S, had)
      /\ \A S \in SUBSET (1..n) : WindowIn(d, S) = WindowIn(c, S)
      /\ \A i \in 1..n : OlderIn(d, i) = OlderIn(c, i) /\ NewerIn(d, i) = NewerIn(c, i)
  <2> HIDE DEF n
  <2> QED
    BY ONLY <1>1, SameOfLonger
<1>4. \A way : \A f \in 0..n : UptoIn(c, way, f) \in SUBSET (1..n) /\ f \in 0..Len(d)
  <2>1. \A f \in 0..n : 1..f \subseteq 1..n /\ f \in 0..Len(d)
    BY <1>1
  <2> QED
    BY <2>1 DEF UptoIn
<1>5. ASSUME NEW w \in Ways, InRange(c, r, w)
      PROVE  /\ InRange(d, r, w) /\ ReadOf(d, r, w) = ReadOf(c, r, w)
             /\ ReadOf(c, r, w) \in SUBSET (1..n)
  <2>1. CASE r.pages[w] = 0
    <3>1. \A e \in {c, d} : /\ FromOf(e, r, w) = Len(e) /\ HeadOf(e, r, w) = Len(e)
      BY <2>1 DEF FromOf, HeadOf
    <3>2. \A e \in {c, d} : InRange(e, r, w) /\ ReadOf(e, r, w) = {}
      <4> SUFFICES ASSUME NEW e \in {c, d} PROVE InRange(e, r, w) /\ ReadOf(e, r, w) = {}
        OBVIOUS
      <4>1. Len(e) \in Nat /\ FromOf(e, r, w) = Len(e) /\ HeadOf(e, r, w) = Len(e)
        BY <3>1
      <4>2. \A i \in 1..Len(e) : ~(i > Len(e))
        BY <4>1
      <4>3. UptoIn(e, w, Len(e)) \subseteq 1..Len(e)
        BY DEF UptoIn
      <4> QED
        BY <4>1, <4>2, <4>3 DEF InRange, ReadOf
    <3> QED
      BY <3>2
  <2>2. CASE r.pages[w] # 0
    <3>1. /\ FromOf(d, r, w) = r.from[w] /\ HeadOf(d, r, w) = r.cursor[w]
          /\ FromOf(c, r, w) = r.from[w] /\ HeadOf(c, r, w) = r.cursor[w]
      BY <2>2 DEF FromOf, HeadOf
    <3>2. r.from[w] \in 0..n /\ r.cursor[w] \in 0..r.from[w]
      BY <1>5, <3>1 DEF InRange
    <3> HIDE DEF n
    <3> QED
      BY <1>3, <1>4, <3>1, <3>2 DEF InRange, ReadOf
  <2> QED
    BY <2>1, <2>2
<1>6. \A w \in Ways : HadOf(r, w) \in SUBSET (1..n)
  BY <1>2 DEF HadOf
<1> HIDE DEF n
<1>8. ASSUME NEW w \in Ways, EvmOpen(c, r, w) PROVE EvmOpen(d, r, w)
  BY <1>3, <1>5, <1>6, <1>8 DEF EvmOpen
<1>9. ASSUME NEW w \in Ways, EvmRead(c, r, w) PROVE EvmRead(d, r, w)
  <2>1. r.from[w] \in 0..n
    BY <1>9 DEF EvmRead, n
  <2>2. /\ UptoIn(d, w, r.from[w]) = UptoIn(c, w, r.from[w]) /\ r.from[w] \in 0..Len(d)
        /\ UptoIn(c, w, r.from[w]) \in SUBSET (1..n)
    BY <1>3, <1>4, <2>1
  <2>3. FirstOf(d, UptoIn(c, w, r.from[w]), HadOf(r, w)) = FirstOf(c, UptoIn(c, w, r.from[w]), HadOf(r, w))
    BY <1>3, <1>6, <2>2
  <2> QED
    BY <1>9, <2>2, <2>3 DEF EvmRead
<1>10. EvmInv(c, r) => EvmInv(d, r)
  BY <1>2, <1>8, <1>9 DEF EvmInv
<1>11. SolanaInv(c, r) => SolanaInv(d, r)
  <2> SUFFICES ASSUME SolanaInv(c, r) PROVE SolanaInv(d, r)
    OBVIOUS
  <2>1. ASSUME r.at = "pages"
        PROVE  /\ r.open = {"all"} /\ r.absent = {} /\ r.listed = {} /\ InRange(d, r, "all")
               /\ \A i \in ReadOf(d, r, "all") : ~OlderIn(d, i)
               /\ r.got["all"] = WindowIn(d, ReadOf(d, r, "all"))
               /\ Cardinality(r.got["all"]) < ReadLimit
    <3>1. InRange(c, r, "all") /\ "all" \in Ways
      BY <1>2, <2>1 DEF SolanaInv
    <3>2. /\ InRange(d, r, "all") /\ ReadOf(d, r, "all") = ReadOf(c, r, "all")
          /\ ReadOf(c, r, "all") \in SUBSET (1..n)
      BY <1>5, <3>1
    <3>3. \A i \in ReadOf(c, r, "all") : OlderIn(d, i) = OlderIn(c, i)
      BY <1>3, <3>2
    <3>4. WindowIn(d, ReadOf(c, r, "all")) = WindowIn(c, ReadOf(c, r, "all"))
      BY <1>3, <3>2
    <3> QED
      BY <2>1, <3>2, <3>3, <3>4 DEF SolanaInv
  <2>2. ASSUME r.at \in {"transactions", "done"}
        PROVE  r.from["all"] \in 0..Len(d) /\ SolanaListed(d, r) = SolanaListed(c, r)
    <3>1. r.from["all"] \in 0..n
      BY <2>2 DEF SolanaInv, n
    <3>2. /\ UptoIn(d, "all", r.from["all"]) = UptoIn(c, "all", r.from["all"])
          /\ UptoIn(c, "all", r.from["all"]) \in SUBSET (1..n) /\ r.from["all"] \in 0..Len(d)
      BY <1>3, <1>4, <3>1
    <3>3. WindowIn(d, UptoIn(c, "all", r.from["all"])) = WindowIn(c, UptoIn(c, "all", r.from["all"]))
      BY <1>3, <3>2
    <3> QED
      BY <3>2, <3>3 DEF SolanaListed
  <2> QED
    BY <2>1, <2>2 DEF SolanaInv
<1>12. WebInv(c, r) => WebInv(d, r)
  <2> SUFFICES ASSUME WebInv(c, r) PROVE WebInv(d, r)
    OBVIOUS
  <2>1. ASSUME NEW w \in {"in", "out"}, WebRead(c, r, w) PROVE WebRead(d, r, w)
    <3>1. InRange(c, r, w) /\ w \in Ways
      BY <1>2, <2>1 DEF WebRead
    <3>2. InRange(d, r, w) /\ ReadOf(d, r, w) = ReadOf(c, r, w)
      BY <1>5, <3>1
    <3>3. ASSUME r.pages[w] # 0
          PROVE  /\ UptoIn(d, w, r.from[w]) = UptoIn(c, w, r.from[w])
                 /\ \A i \in UptoIn(c, w, r.from[w]) : d[i] = c[i]
      <4>1. r.from[w] \in 0..n
        BY <3>1, <3>3 DEF InRange, FromOf, n
      <4> QED
        BY <1>1, <1>3, <1>4, <4>1
    <3> QED
      BY <2>1, <3>2, <3>3 DEF WebRead
  <2> QED
    BY <2>1 DEF WebInv
<1> QED
  BY <1>10, <1>11, <1>12 DEF KindInv

(* Chains grow as they should: a transfer arrives on no earlier day, and has a key of its own
   unless it is a twin. *)
LEMMA ArrivalGrows ==
    ASSUME ReadTypes, NEW a \in Arrivals[readKind], Arrive(a)
    PROVE  /\ chain' \in Seq(Transfers) /\ Len(chain') = Len(chain) + 1 /\ Len(chain') <= MaxChain
           /\ \A i \in 1..Len(chain) : chain'[i] = chain[i]
           /\ ChainGrows(chain')
<1> DEFINE last == Len(chain)
           days == {chain[i].day : i \in DOMAIN chain}
           day == CASE a.later = "unknown" -> 0
                    [] a.later = "no" -> Today
                    [] a.later = "yes" -> IF last = 0 THEN 1 ELSE Today + 1
           key == IF a.twin THEN chain[last].key ELSE last + 1
           t == [way |-> a.way, day |-> day, key |-> key]
<1>1. chain' = Append(chain, t) /\ last < MaxChain /\ (a.twin => last > 0 /\ chain[last].day = day)
  BY DEF Arrive
<1>2. chain \in Seq(Transfers) /\ last \in Nat /\ DOMAIN chain = 1..last /\ MaxChain \in Nat
  BY ReadsAssumption DEF ReadTypes
<1>3. a.way \in Ways \cup {"self"} /\ a.later \in Laters /\ a.twin \in BOOLEAN
  BY ReadsAssumption DEF ReadTypes
<1>4. \A i \in 1..last : /\ chain[i] \in Transfers /\ chain[i].day \in Nat /\ chain[i].key \in Nat
                         /\ chain[i].day <= i /\ chain[i].key <= i
  <2>1. \A i \in 1..last : chain[i] \in Transfers
    BY <1>2
  <2> QED
    BY <1>2, <2>1 DEF Transfers, ReadTypes, ChainGrows
<1>5. Today \in Nat /\ Today >= 1 /\ (last # 0 => Today <= last) /\ (last = 0 => Today = 1)
      /\ \A i \in 1..last : chain[i].day <= Today
  <2> DEFINE D == {1} \cup days
  <2>1. D \in SUBSET Nat /\ D # {} /\ 1 \in D /\ \A x \in D : x = 1 \/ \E i \in 1..last : x = chain[i].day
    BY <1>2, <1>4
  <2>2. \A x \in D : x <= last + 1
    <3> SUFFICES ASSUME NEW x \in D PROVE x <= last + 1
      OBVIOUS
    <3>1. CASE x = 1
      BY <1>2, <3>1
    <3>2. ASSUME NEW i \in 1..last, x = chain[i].day PROVE x <= last + 1
      BY <1>2, <1>4, <3>2
    <3> QED
      BY <2>1, <3>1, <3>2
  <2>3. Max(D) \in D /\ \A x \in D : x <= Max(D)
    <3>1. last + 1 \in Nat
      BY <1>2
    <3> HIDE DEF D
    <3> QED
      BY <2>1, <2>2, <3>1, LargestNumber
  <2>4. Today = Max(D)
    BY DEF Today
  <2>5. \A i \in 1..last : chain[i].day \in D
    BY <1>2
  <2> HIDE DEF D
  <2>6. Today \in Nat /\ 1 <= Today /\ (Today = 1 \/ \E i \in 1..last : Today = chain[i].day)
    BY <2>1, <2>3, <2>4
  <2>7. last # 0 => Today <= last
    <3>1. \A i \in 1..last : chain[i].day <= last
      BY <1>2, <1>4
    <3> QED
      BY <1>2, <2>6, <3>1
  <2>8. last = 0 => Today = 1
    BY <2>6
  <2> QED
    BY <2>3, <2>4, <2>5, <2>6, <2>7, <2>8
<1>6. day \in Nat /\ day <= last + 1 /\ (day > 0 => \A i \in 1..last : chain[i].day <= day)
  <2>1. a.later \in {"yes", "no", "unknown"}
    BY <1>3 DEF Laters
  <2>2. CASE a.later = "unknown"
    <3>1. day = 0
      BY <2>2
    <3> HIDE DEF day
    <3> QED
      BY <1>2, <3>1
  <2>3. CASE a.later = "no"
    <3>1. day = Today
      BY <2>3
    <3> HIDE DEF day
    <3> QED
      BY <1>2, <1>5, <3>1
  <2>4. CASE a.later = "yes"
    <3>1. day = IF last = 0 THEN 1 ELSE Today + 1
      BY <2>4
    <3> HIDE DEF day
    <3>2. \A i \in 1..last : chain[i].day <= Today + 1
      BY <1>4, <1>5
    <3> QED
      BY <1>2, <1>5, <3>1, <3>2
  <2> QED
    BY <2>1, <2>2, <2>3, <2>4
<1>7. key \in Nat /\ key <= last + 1 /\ (\A i \in 1..last : chain[i].key = key => chain[i].day = day)
  <2>1. CASE a.twin
    <3>0. key = chain[last].key
      BY <2>1
    <3> HIDE DEF day, key
    <3>1. last \in 1..last /\ key = chain[last].key /\ chain[last].day = day
      BY <1>1, <1>2, <2>1, <3>0
    <3>2. \A i \in 1..last : chain[i].key = chain[last].key => chain[i].day = chain[last].day
      BY <1>2, <3>1 DEF ReadTypes, ChainGrows
    <3>3. chain[last].key \in Nat /\ chain[last].key <= last
      BY <1>4, <3>1
    <3> QED
      BY <1>2, <3>1, <3>2, <3>3
  <2>2. CASE ~a.twin
    <3>1. key = last + 1
      BY <2>2
    <3>2. \A i \in 1..last : chain[i].key # last + 1
      BY <1>2, <1>4
    <3> HIDE DEF key
    <3> QED
      BY <1>2, <3>1, <3>2
  <2> QED
    BY <2>1, <2>2
<1> HIDE DEF day, key, days
<1>8. t \in Transfers /\ t.day = day /\ t.key = key
  BY <1>3, <1>6, <1>7 DEF Transfers
<1> HIDE DEF t
<1>9. /\ chain' \in Seq(Transfers) /\ Len(chain') = last + 1 /\ DOMAIN chain' = 1..(last + 1)
      /\ (\A i \in 1..last : chain'[i] = chain[i]) /\ chain'[last + 1] = t
  BY <1>1, <1>2, <1>8
<1>10. Len(chain') <= MaxChain
  BY <1>1, <1>2, <1>9
<1> DEFINE d == chain'
<1>11. \A i \in 1..(last + 1) : i \in Nat /\ (i \in 1..last \/ i = last + 1)
  BY <1>2
<1>12. ASSUME NEW i \in 1..(last + 1) PROVE d[i].key <= i /\ d[i].day <= i
  BY <1>4, <1>6, <1>7, <1>8, <1>9, <1>11
<1>13. ASSUME NEW i \in 1..(last + 1), NEW j \in 1..(last + 1), d[i].key = d[j].key
       PROVE  d[i].day = d[j].day
  <2>1. \A k, l \in 1..last : chain[k].key = chain[l].key => chain[k].day = chain[l].day
    BY <1>2 DEF ReadTypes, ChainGrows
  <2> QED
    BY <1>7, <1>8, <1>9, <1>11, <1>13, <2>1
<1>14. ASSUME NEW i \in 1..(last + 1), NEW j \in 1..(last + 1), i < j, d[i].day > 0, d[j].day > 0
       PROVE  d[i].day <= d[j].day
  <2>0. i \in 1..last
    BY <1>2, <1>14
  <2>1. CASE j \in 1..last
    <3>1. d[i] = chain[i] /\ d[j] = chain[j]
      BY <1>9, <2>0, <2>1
    <3>2. \A k, l \in 1..last : k < l /\ chain[k].day > 0 /\ chain[l].day > 0 => chain[k].day <= chain[l].day
      BY <1>2 DEF ReadTypes, ChainGrows
    <3> QED
      BY <1>14, <2>0, <2>1, <3>1, <3>2
  <2>2. CASE j = last + 1
    <3>1. d[j].day = day /\ d[i] = chain[i]
      BY <1>8, <1>9, <2>0, <2>2
    <3> QED
      BY <1>6, <1>14, <2>0, <3>1
  <2> QED
    BY <1>11, <2>1, <2>2
<1> QED
  BY <1>9, <1>10, <1>12, <1>13, <1>14 DEF ChainGrows

(* An arrival keeps what is known. *)
LEMMA ArriveKeeps ==
    ASSUME ReadInv, NEW a \in Arrivals[readKind], Arrive(a)
    PROVE  ReadInv'
<1>1. /\ chain' \in Seq(Transfers) /\ Len(chain') = Len(chain) + 1 /\ Len(chain') <= MaxChain
      /\ (\A i \in 1..Len(chain) : chain'[i] = chain[i]) /\ ChainGrows(chain')
  BY ArrivalGrows DEF ReadInv
<1>2. readKind' = readKind /\ read' = read /\ readFailures' = readFailures
  BY DEF Arrive
<1>3. /\ chain \in Seq(Transfers) /\ Len(chain) \in Nat /\ read \in Reads
      /\ \A w \in Ways : read.got[w] \in SUBSET (1..Len(chain)) /\ read.cursor[w] <= Len(chain)
  BY DEF ReadInv, ReadTypes
<1>4. Len(chain) <= Len(chain') /\ 1..Len(chain) \subseteq 1..Len(chain')
  BY <1>1, <1>3
<1>5. KindInv(readKind, chain', read)
  BY <1>1, <1>3, <1>4, ReadsStay DEF ReadInv
<1>6. \A w \in Ways : read.got[w] \in SUBSET (1..Len(chain')) /\ read.cursor[w] <= Len(chain')
  <2>1. \A w \in Ways : read.cursor[w] \in Nat
    BY <1>3 DEF Reads
  <2> QED
    BY <1>1, <1>3, <1>4, <2>1
<1>7. ReadTypes'
  BY <1>1, <1>2, <1>3, <1>6 DEF ReadInv, ReadTypes
<1> QED
  BY <1>2, <1>5, <1>7 DEF ReadInv

(* A page is taken: the newest of what is left, as much as there is room for; s is what the read
   becomes before it goes over to its next stage. *)
PageTaken(way, n, more, page, s) ==
    LET rest == UptoIn(chain, way, HeadOf(chain, read, way))
        got == read.got[way] \cup Kept(way, page)
        pages == read.pages[way] + 1
    IN  /\ read.at = "pages" /\ way \in read.open
        /\ n \in 0..Room(way) /\ page = Newest(rest, n)
        /\ more \in BOOLEAN /\ (page # rest => more) /\ (n = 0 <=> rest = {})
        /\ s \in Reads /\ s.at = "pages" /\ s.listed = read.listed /\ s.absent = read.absent
        /\ s.cursor = [read.cursor EXCEPT ![way] = After(page, HeadOf(chain, read, way))]
        /\ s.from = [read.from EXCEPT ![way] = FromOf(chain, read, way)]
        /\ s.pages = [read.pages EXCEPT ![way] = pages]
        /\ s.got = [read.got EXCEPT ![way] = got]
        /\ s.open = IF GoesOn(way, page, more, got, pages) THEN read.open ELSE read.open \ {way}
        /\ read' = Staged(s)

(* Every page that is read is taken so. *)
LEMMA PageIsTaken ==
    ASSUME ReadInv, NEW way \in Ways, ReadPage(way)
    PROVE  \E n \in Nat, more \in BOOLEAN, page \in SUBSET (1..Len(chain)), s \in Reads :
              PageTaken(way, n, more, page, s)
<1> DEFINE head == IF read.pages[way] = 0 THEN Len(chain) ELSE read.cursor[way]
           rest == Upto(way, head)
           X(page) == After(page, head)
           Y == IF read.pages[way] = 0 THEN Len(chain) ELSE read.from[way]
           P == read.pages[way] + 1
           G(page) == read.got[way] \cup Kept(way, page)
           O(page, more) == IF GoesOn(way, page, more, G(page), P) THEN read.open ELSE read.open \ {way}
           s(page, more) == [read EXCEPT !.cursor[way] = X(page), !.from[way] = Y, !.pages[way] = P,
                                         !.got[way] = G(page), !.open = O(page, more)]
<1>1. PICK n \in 0..Room(way), more \in BOOLEAN :
         /\ n <= Cardinality(rest) /\ (n = 0 <=> rest = {})
         /\ Newest(rest, n) # rest => more
         /\ read' = Staged(s(Newest(rest, n), more))
  BY DEF ReadPage
<1>2. read.at = "pages" /\ way \in read.open
  BY DEF ReadPage
<1>3. head = HeadOf(chain, read, way) /\ Y = FromOf(chain, read, way)
  BY DEF HeadOf, FromOf
<1>4. rest = UptoIn(chain, way, head)
  BY OfTheChain
<1>5. /\ read \in Reads /\ chain \in Seq(Transfers) /\ Len(chain) \in Nat
      /\ \A w \in Ways : read.got[w] \in SUBSET (1..Len(chain)) /\ read.cursor[w] <= Len(chain)
  BY DEF ReadInv, ReadTypes
<1>6. /\ read.cursor \in [Ways -> Nat] /\ read.from \in [Ways -> Nat] /\ read.pages \in [Ways -> Nat]
      /\ read.got \in [Ways -> SUBSET Nat] /\ read.open \in SUBSET Ways
      /\ read.listed \in SUBSET Nat /\ read.absent \in SUBSET Nat
      /\ read.provider \in {"none", "alchemy", "helius"}
  BY <1>5 DEF Reads
<1>7. n \in Nat /\ head \in Nat /\ Y \in Nat /\ P \in Nat /\ head <= Len(chain)
  BY <1>5, <1>6
<1> DEFINE page == Newest(rest, n)
<1>8. page \in SUBSET (1..Len(chain)) /\ page \subseteq rest
  <2>1. \A i \in 1..head : i \in 1..Len(chain)
    BY <1>5, <1>7
  <2> HIDE DEF head
  <2> QED
    BY <1>4, <2>1 DEF Newest, UptoIn
<1>9. X(page) \in Nat
  <2>1. CASE page = {}
    BY <1>7, <2>1 DEF After
  <2>2. CASE page # {}
    <3>1. page \in SUBSET Nat /\ \A x \in page : x >= 1
      BY <1>8
    <3> HIDE DEF page
    <3>2. \E x \in page : \A y \in page : x <= y
      BY <2>2, <3>1, LeastNumber
    <3>3. Min(page) \in page
      BY <3>2 DEF Min
    <3>4. Min(page) \in Nat /\ Min(page) >= 1
      BY <3>1, <3>3
    <3>5. X(page) = Min(page) - 1
      BY <2>2 DEF After
    <3> QED
      BY <3>4, <3>5
  <2> QED
    BY <2>1, <2>2
<1>10. G(page) \in SUBSET Nat
  <2>1. Kept(way, page) \subseteq page
    <3>1. readKind \in {"evm", "solana", "web"}
      BY ReadsAssumption DEF ReadInv, ReadTypes
    <3> HIDE DEF page
    <3> QED
      BY <3>1 DEF Kept, Distinct, BeforeOlder
  <2>2. read.got[way] \subseteq Nat
    BY <1>6
  <2>3. \A i \in page : i \in Nat
    BY <1>8
  <2> HIDE DEF page
  <2>4. Kept(way, page) \subseteq Nat
    BY <2>1, <2>3
  <2> QED
    BY ONLY <2>2, <2>4
<1> HIDE DEF page
<1> DEFINE x == X(page)
           g == G(page)
           o == O(page, more)
           t == [at |-> "pages", provider |-> read.provider, open |-> o,
                 cursor |-> [read.cursor EXCEPT ![way] = x], from |-> [read.from EXCEPT ![way] = Y],
                 pages |-> [read.pages EXCEPT ![way] = P], got |-> [read.got EXCEPT ![way] = g],
                 listed |-> read.listed, absent |-> read.absent]
<1>11. o \in SUBSET Ways
  BY <1>6
<1>12. s(page, more) = t
  <2>1. s(page, more) = [read EXCEPT !.cursor[way] = x, !.from[way] = Y, !.pages[way] = P,
                                     !.got[way] = g, !.open = o]
    OBVIOUS
  <2> HIDE DEF x, Y, P, g, o, head, rest
  <2> DEFINE c == [read.cursor EXCEPT ![way] = x]
             f == [read.from EXCEPT ![way] = Y]
             p == [read.pages EXCEPT ![way] = P]
             e == [read.got EXCEPT ![way] = g]
             t1 == [read EXCEPT !.cursor = c]
             t2 == [t1 EXCEPT !.from = f]
             t3 == [t2 EXCEPT !.pages = p]
             t4 == [t3 EXCEPT !.got = e]
             t5 == [t4 EXCEPT !.open = o]
  <2>2. s(page, more) = t5
    BY <2>1
  <2>3. read = [at |-> read.at, provider |-> read.provider, open |-> read.open, cursor |-> read.cursor,
                from |-> read.from, pages |-> read.pages, got |-> read.got, listed |-> read.listed,
                absent |-> read.absent]
    BY <1>5 DEF Reads
  <2> HIDE DEF c, f, p, e
  <2>4. t1 = [at |-> read.at, provider |-> read.provider, open |-> read.open, cursor |-> c,
              from |-> read.from, pages |-> read.pages, got |-> read.got, listed |-> read.listed, absent |-> read.absent]
    BY <2>3
  <2> HIDE DEF t1
  <2>5. t2 = [at |-> read.at, provider |-> read.provider, open |-> read.open, cursor |-> c,
              from |-> f, pages |-> read.pages, got |-> read.got, listed |-> read.listed, absent |-> read.absent]
    BY <2>4
  <2> HIDE DEF t2
  <2>6. t3 = [at |-> read.at, provider |-> read.provider, open |-> read.open, cursor |-> c,
              from |-> f, pages |-> p, got |-> read.got, listed |-> read.listed, absent |-> read.absent]
    BY <2>5
  <2> HIDE DEF t3
  <2>7. t4 = [at |-> read.at, provider |-> read.provider, open |-> read.open, cursor |-> c,
              from |-> f, pages |-> p, got |-> e, listed |-> read.listed, absent |-> read.absent]
    BY <2>6
  <2> HIDE DEF t4
  <2>8. t5 = [at |-> read.at, provider |-> read.provider, open |-> o, cursor |-> c,
              from |-> f, pages |-> p, got |-> e, listed |-> read.listed, absent |-> read.absent]
    BY <2>7
  <2> HIDE DEF t5
  <2> QED
    BY <1>2, <2>2, <2>8 DEF c, f, p, e
<1> HIDE DEF x, Y, P, g, o, head, rest
<1>13. t \in Reads
  BY <1>2, <1>6, <1>7, <1>9, <1>10, <1>11 DEF Reads, Places, x, g
<1>14. /\ t.at = "pages" /\ t.listed = read.listed /\ t.absent = read.absent /\ t.open = o
       /\ t.cursor = [read.cursor EXCEPT ![way] = x] /\ t.from = [read.from EXCEPT ![way] = Y]
       /\ t.pages = [read.pages EXCEPT ![way] = P] /\ t.got = [read.got EXCEPT ![way] = g]
  OBVIOUS
<1>15. read' = Staged(t)
  BY <1>1, <1>12 DEF page
<1> HIDE DEF t
<1>16. PageTaken(way, n, more, page, t)
  BY <1>1, <1>2, <1>3, <1>4, <1>13, <1>14, <1>15 DEF PageTaken, page, x, P, g, o
<1> QED
  BY <1>1, <1>7, <1>8, <1>13, <1>16

(* What a read becomes after a page: it goes on, asks for the other direction, goes over to the
   transactions, or is done. *)
LEMMA StagedIs ==
    ASSUME NEW s \in Reads
    PROVE  LET r == Staged(s)
               other == readKind = "evm" /\ s.pages["out"] = 0 /\ Cardinality(s.got["in"]) < ReadLimit
               listed == readKind = "solana" /\ s.got["all"] # {}
           IN  /\ r \in Reads /\ r.cursor = s.cursor /\ r.from = s.from /\ r.pages = s.pages
               /\ r.absent = s.absent /\ \A w \in Ways : r.got[w] \subseteq s.got[w]
               /\ s.open # {} => r = s
               /\ s.open = {} /\ other =>
                    r.at = s.at /\ r.open = {"out"} /\ r.got = s.got /\ r.listed = s.listed
               /\ s.open = {} /\ listed =>
                    /\ r.at = "transactions" /\ r.open = {} /\ r.listed = s.got["all"]
                    /\ r.got["all"] = {} 
               /\ s.open = {} /\ ~other /\ ~listed =>
                    r.at = "done" /\ r.open = {} /\ r.got = s.got /\ r.listed = s.listed
<1> DEFINE r == Staged(s)
           other == readKind = "evm" /\ s.pages["out"] = 0 /\ Cardinality(s.got["in"]) < ReadLimit
           listed == readKind = "solana" /\ s.got["all"] # {}
<1>0. "all" \in Ways /\ "out" \in Ways
  BY DEF Ways
<1>1. s = [at |-> s.at, provider |-> s.provider, open |-> s.open, cursor |-> s.cursor,
           from |-> s.from, pages |-> s.pages, got |-> s.got, listed |-> s.listed, absent |-> s.absent]
  BY DEF Reads
<1>2. /\ s.at \in Places /\ s.provider \in {"none", "alchemy", "helius"} /\ s.open \in SUBSET Ways
      /\ s.cursor \in [Ways -> Nat] /\ s.from \in [Ways -> Nat] /\ s.pages \in [Ways -> Nat]
      /\ s.got \in [Ways -> SUBSET Nat] /\ s.listed \in SUBSET Nat /\ s.absent \in SUBSET Nat
  BY DEF Reads
<1>3. CASE s.open # {}
  <2>1. r = s
    BY <1>3 DEF Staged
  <2> HIDE DEF r, other, listed
  <2> QED
    BY <1>3, <2>1 DEF r, other, listed
<1>4. CASE s.open = {} /\ other
  <2>1. r = [s EXCEPT !.open = {"out"}]
    BY <1>4 DEF Staged
  <2> HIDE DEF r
  <2>2. r = [at |-> s.at, provider |-> s.provider, open |-> {"out"}, cursor |-> s.cursor,
             from |-> s.from, pages |-> s.pages, got |-> s.got, listed |-> s.listed, absent |-> s.absent]
    BY <1>1, <2>1
  <2>3. r \in Reads
    BY <1>0, <1>2, <2>2 DEF Reads
  <2>4. /\ r.at = s.at /\ r.open = {"out"} /\ r.cursor = s.cursor /\ r.from = s.from /\ r.pages = s.pages
        /\ r.got = s.got /\ r.listed = s.listed /\ r.absent = s.absent
    BY <2>2
  <2>5. other /\ ~listed
    BY <1>4
  <2> HIDE DEF other, listed
  <2> QED
    BY <1>4, <2>3, <2>4, <2>5 DEF r, other, listed
<1>5. CASE s.open = {} /\ listed
  <2>1. r = [s EXCEPT !.at = "transactions", !.listed = s.got["all"], !.got["all"] = {}]
    BY <1>5 DEF Staged
  <2> DEFINE e == [s.got EXCEPT !["all"] = {}]
             l == s.got["all"]
             t1 == [s EXCEPT !.at = "transactions"]
             t2 == [t1 EXCEPT !.listed = l]
             t3 == [t2 EXCEPT !.got = e]
  <2>2. r = t3
    BY <2>1
  <2> HIDE DEF r, e, l
  <2>3. t1 = [at |-> "transactions", provider |-> s.provider, open |-> s.open, cursor |-> s.cursor,
              from |-> s.from, pages |-> s.pages, got |-> s.got, listed |-> s.listed, absent |-> s.absent]
    BY <1>1
  <2> HIDE DEF t1
  <2>4. t2 = [at |-> "transactions", provider |-> s.provider, open |-> s.open, cursor |-> s.cursor,
              from |-> s.from, pages |-> s.pages, got |-> s.got, listed |-> l, absent |-> s.absent]
    BY <2>3
  <2> HIDE DEF t2
  <2>5. t3 = [at |-> "transactions", provider |-> s.provider, open |-> s.open, cursor |-> s.cursor,
              from |-> s.from, pages |-> s.pages, got |-> e, listed |-> l, absent |-> s.absent]
    BY <2>4
  <2> HIDE DEF t3
  <2>6. e \in [Ways -> SUBSET Nat] /\ e["all"] = {} /\ \A w \in Ways : e[w] \subseteq s.got[w]
    BY <1>0, <1>2 DEF e
  <2>7. l \in SUBSET Nat
    BY <1>0, <1>2 DEF l
  <2>8. r \in Reads
    BY <1>2, <2>2, <2>5, <2>6, <2>7 DEF Reads, Places
  <2>9. /\ r.at = "transactions" /\ r.open = s.open /\ r.cursor = s.cursor /\ r.from = s.from
        /\ r.pages = s.pages /\ r.got = e /\ r.listed = l /\ r.absent = s.absent
    BY <2>2, <2>5
  <2>10. listed /\ ~other
    BY <1>5
  <2> HIDE DEF other, listed
  <2> QED
    BY <1>5, <2>6, <2>8, <2>9, <2>10 DEF r, l, other, listed
<1>6. CASE s.open = {} /\ ~other /\ ~listed
  <2>1. r = [s EXCEPT !.at = "done"]
    BY <1>6 DEF Staged
  <2> HIDE DEF r
  <2>2. r = [at |-> "done", provider |-> s.provider, open |-> s.open, cursor |-> s.cursor,
             from |-> s.from, pages |-> s.pages, got |-> s.got, listed |-> s.listed, absent |-> s.absent]
    BY <1>1, <2>1
  <2>3. r \in Reads
    BY <1>2, <2>2 DEF Reads, Places
  <2>4. /\ r.at = "done" /\ r.open = s.open /\ r.cursor = s.cursor /\ r.from = s.from /\ r.pages = s.pages
        /\ r.got = s.got /\ r.listed = s.listed /\ r.absent = s.absent
    BY <2>2
  <2>5. ~other /\ ~listed
    BY <1>6
  <2> HIDE DEF other, listed
  <2> QED
    BY <1>6, <2>3, <2>4, <2>5 DEF r, other, listed
<1> QED
  BY <1>3, <1>4, <1>5, <1>6

(* What a page changes of the direction that took it. *)
PageRead(way, page, s) ==
    LET c == chain
        f == FromOf(c, read, way)
    IN  /\ f \in 0..Len(c) /\ s.pages[way] # 0 /\ s.from[way] = f
        /\ FromOf(c, s, way) = f /\ InRange(c, s, way)
        /\ ReadOf(c, read, way) \in SUBSET (1..Len(c))
        /\ ReadOf(c, s, way) = ReadOf(c, read, way) \cup page
        /\ \A i \in ReadOf(c, read, way), j \in page : i > j
        /\ UptoIn(c, way, f) \in SUBSET (1..Len(c))
        /\ ClosedUp(ReadOf(c, s, way), UptoIn(c, way, f))
        /\ page = UptoIn(c, way, HeadOf(c, read, way)) => ReadOf(c, s, way) = UptoIn(c, way, f)
        /\ \A w \in Ways : /\ w # way => /\ s.pages[w] = read.pages[w] /\ s.from[w] = read.from[w]
                                         /\ s.cursor[w] = read.cursor[w] /\ s.got[w] = read.got[w]
                           /\ s.cursor[w] <= Len(c)

(* A page that is taken changes its direction so, and no other. *)
LEMMA PageIsRead ==
    ASSUME ReadTypes, NEW way \in Ways, NEW n \in Nat, NEW more, NEW page, NEW s,
           PageTaken(way, n, more, page, s), InRange(chain, read, way)
    PROVE  PageRead(way, page, s)
<1> DEFINE c == chain
           f == FromOf(c, read, way)
           h == HeadOf(c, read, way)
           g == After(page, h)
           U == UptoIn(c, way, f)
<1>1. /\ s.cursor = [read.cursor EXCEPT ![way] = g] /\ s.from = [read.from EXCEPT ![way] = f]
      /\ s.pages = [read.pages EXCEPT ![way] = read.pages[way] + 1]
      /\ \A w \in Ways : w # way => s.got[w] = read.got[w]
  <2>1. /\ s.cursor = [read.cursor EXCEPT ![way] = g] /\ s.from = [read.from EXCEPT ![way] = f]
        /\ s.pages = [read.pages EXCEPT ![way] = read.pages[way] + 1]
        /\ s.got = [read.got EXCEPT ![way] = read.got[way] \cup Kept(way, page)]
    BY DEF PageTaken
  <2>2. read.got \in [Ways -> SUBSET Nat]
    BY DEF ReadTypes, Reads
  <2> QED
    BY <2>1, <2>2
<1>2. /\ read.cursor \in [Ways -> Nat] /\ read.from \in [Ways -> Nat] /\ read.pages \in [Ways -> Nat]
      /\ \A w \in Ways : read.cursor[w] <= Len(c)
  BY DEF ReadTypes, Reads
<1>3. Len(c) \in Nat
  BY DEF ReadTypes
<1>4. f \in 0..Len(c) /\ h \in 0..f
  BY DEF InRange
<1>5. page = Newest(UptoIn(c, way, h), n)
  BY DEF PageTaken
<1>6. /\ U \in SUBSET (1..Len(c)) /\ g \in 0..h
      /\ {i \in U : i > g} = {i \in U : i > h} \cup page
      /\ \A i \in {i \in U : i > h}, j \in page : i > j
      /\ page = UptoIn(c, way, h) => {i \in U : i > g} = U
      /\ ClosedUp({i \in U : i > g}, U)
  <2> DEFINE m == Len(c)
             rest == UptoIn(c, way, h)
  <2>1. U = UptoIn(c, way, f) /\ g = After(page, h) /\ rest = UptoIn(c, way, h) /\ page = Newest(rest, n)
    BY <1>5
  <2>2. m \in Nat /\ f \in 0..m /\ h \in 0..f /\ n \in Nat
    BY <1>3, <1>4
  <2> HIDE DEF c, f, h, U, g, m, rest
  <2>3. /\ U \in SUBSET (1..m) /\ g \in 0..h
        /\ {i \in U : i > g} = {i \in U : i > h} \cup page
        /\ \A i \in {i \in U : i > h}, j \in page : i > j
        /\ page = rest => {i \in U : i > g} = U
        /\ ClosedUp({i \in U : i > g}, U)
    BY ONLY <2>1, <2>2, PageFollows
  <2> QED
    BY <2>3 DEF m, rest
<1>7. ReadOf(c, read, way) = {i \in U : i > h}
  BY DEF ReadOf
<1> HIDE DEF c, f, h, g, U
<1>8. /\ s.pages[way] = read.pages[way] + 1 /\ s.from[way] = f /\ s.cursor[way] = g
      /\ \A w \in Ways : w # way => /\ s.pages[w] = read.pages[w] /\ s.from[w] = read.from[w]
                                    /\ s.cursor[w] = read.cursor[w]
  BY <1>1, <1>2
<1>9. read.pages[way] \in Nat /\ s.pages[way] # 0
  BY <1>2, <1>8
<1>10. FromOf(c, s, way) = f /\ HeadOf(c, s, way) = g
  BY <1>8, <1>9 DEF FromOf, HeadOf
<1>11. ReadOf(c, s, way) = {i \in U : i > g}
  BY <1>10 DEF ReadOf, U
<1>12. InRange(c, s, way) /\ g <= Len(c)
  <2>1. g \in 0..f /\ g <= Len(c)
    BY <1>3, <1>4, <1>6
  <2> QED
    BY <1>4, <1>10, <2>1 DEF InRange
<1>13. \A w \in Ways : s.cursor[w] <= Len(c)
  BY <1>2, <1>8, <1>12
<1> QED
  BY <1>1, <1>4, <1>6, <1>7, <1>8, <1>9, <1>10, <1>11, <1>12, <1>13 DEF PageRead, c, f, h, g, U

(* There is room for what a page brings. *)
LEMMA PageFits ==
    ASSUME ReadTypes, readKind # "web", NEW way \in Ways, NEW n \in Nat, NEW more, NEW page, NEW s,
           PageTaken(way, n, more, page, s), InRange(chain, read, way),
           NEW kept \in SUBSET page, NEW t \in Nat, t = Target(way),
           Cardinality(read.got[way]) < t
    PROVE  /\ Cardinality(read.got[way] \cup kept) <= t
           /\ IsFiniteSet(read.got[way] \cup kept) /\ Cardinality(read.got[way] \cup kept) \in Nat
<1>1. Len(chain) \in Nat /\ read.got[way] \in SUBSET (1..Len(chain))
  BY DEF ReadTypes
<1>2. page = Newest(UptoIn(chain, way, HeadOf(chain, read, way)), n)
  BY DEF PageTaken
<1>3. HeadOf(chain, read, way) \in 0..Len(chain)
  BY <1>1 DEF InRange
<1>4. UptoIn(chain, way, HeadOf(chain, read, way)) \in SUBSET (1..Len(chain))
  <2>1. \A i \in 1..HeadOf(chain, read, way) : i \in 1..Len(chain)
    BY <1>1, <1>3
  <2> QED
    BY <2>1 DEF UptoIn
<1>5. Cardinality(page) \in Nat /\ Cardinality(page) <= n /\ page \in SUBSET (1..Len(chain))
  <2>1. page \subseteq UptoIn(chain, way, HeadOf(chain, read, way))
    BY <1>2 DEF Newest
  <2> QED
    BY <1>1, <1>2, <1>4, <2>1, NewestCount
<1>6. /\ IsFiniteSet(read.got[way]) /\ Cardinality(read.got[way]) \in Nat
      /\ IsFiniteSet(page) /\ IsFiniteSet(kept) /\ Cardinality(kept) \in Nat
  <2>1. kept \in SUBSET (1..Len(chain))
    BY <1>5
  <2> QED
    BY <1>1, <1>5, <2>1, NewerAreFinite
<1>7. Cardinality(kept) <= Cardinality(page)
  BY <1>6, FS_Subset
<1>8. n <= t - Cardinality(read.got[way])
  <2>1. n \in 0..Room(way) /\ PageSize \in Nat
    BY ReadsAssumption DEF PageTaken
  <2>2. Room(way) = IF PageSize < t - Cardinality(read.got[way]) THEN PageSize
                    ELSE t - Cardinality(read.got[way])
    BY DEF Room
  <2> QED
    BY <1>6, <2>1, <2>2
<1>9. /\ IsFiniteSet(read.got[way] \cup kept)
      /\ Cardinality(read.got[way] \cup kept) = Cardinality(read.got[way]) + Cardinality(kept)
                                                 - Cardinality(read.got[way] \cap kept)
      /\ Cardinality(read.got[way] \cap kept) \in Nat
  <2>1. IsFiniteSet(read.got[way] \cap kept)
    BY <1>6, FS_Subset
  <2> QED
    BY <1>6, <2>1, FS_Union, FS_CardinalityType
<1>10. Cardinality(read.got[way] \cup kept) \in Nat
  BY <1>9, FS_CardinalityType
<1> QED
  BY <1>5, <1>6, <1>7, <1>8, <1>9, <1>10

(* EVM: after a page of a direction, what is kept of it is of each key the newest that was read,
   and the direction is over when it has its share or nothing is left. *)
LEMMA EvmWay ==
    ASSUME ReadTypes, readKind = "evm", NEW way \in {"in", "out"}, NEW n \in Nat, NEW more \in BOOLEAN,
           NEW page, NEW s, PageTaken(way, n, more, page, s), EvmOpen(chain, read, way),
           read.got["in"] \cup read.got["out"] = HadOf(read, way) \cup read.got[way]
    PROVE  /\ PageRead(way, page, s)
           /\ s.got[way] \in SUBSET (1..Len(chain))
           /\ Cardinality(s.got[way]) \in Nat /\ Cardinality(s.got[way]) <= Share(way)
           /\ \/ s.open = {way} /\ EvmOpen(chain, s, way)
              \/ s.open = {} /\ EvmRead(chain, s, way)
<1> DEFINE c == chain
           f == FromOf(c, read, way)
           had == HadOf(read, way)
           old == ReadOf(c, read, way)
           new == ReadOf(c, s, way)
           U == UptoIn(c, way, f)
           t == Share(way)
<1>0. way \in Ways /\ "in" \in Ways /\ "out" \in Ways /\ Ways = {"in", "out", "all"}
  BY DEF Ways
<1>1. InRange(c, read, way) /\ read.open = {way} /\ read.got[way] = FirstOf(c, old, had)
      /\ Cardinality(read.got[way]) < t
  BY DEF EvmOpen
<1>2. PageRead(way, page, s)
  BY <1>0, <1>1, PageIsRead
<1>3. /\ f \in 0..Len(c) /\ s.pages[way] # 0 /\ s.from[way] = f /\ InRange(c, s, way) /\ FromOf(c, s, way) = f
      /\ old \in SUBSET (1..Len(c)) /\ new = old \cup page /\ (\A i \in old, j \in page : i > j)
      /\ U \in SUBSET (1..Len(c)) /\ ClosedUp(new, U)
      /\ (page = UptoIn(c, way, HeadOf(c, read, way)) => new = U)
      /\ \A w \in Ways : w # way => s.got[w] = read.got[w]
  BY <1>2 DEF PageRead
<1>4. t \in Nat \ {0} /\ Target(way) = t
  <2>1. Target(way) = t
    BY DEF Target, Share
  <2> QED
    BY <1>0, <2>1, Shares
<1>5. Len(c) \in Nat /\ read.got \in [Ways -> SUBSET Nat]
  BY DEF ReadTypes, Reads
<1>6. /\ s.got = [read.got EXCEPT ![way] = read.got[way] \cup Kept(way, page)]
      /\ page \subseteq UptoIn(c, way, HeadOf(c, read, way)) /\ (page # UptoIn(c, way, HeadOf(c, read, way)) => more)
      /\ s.open = IF GoesOn(way, page, more, read.got[way] \cup Kept(way, page), read.pages[way] + 1)
                  THEN read.open ELSE read.open \ {way}
  BY DEF PageTaken, Newest
<1>7. s.got[way] = read.got[way] \cup Kept(way, page)
  BY <1>0, <1>5, <1>6
<1>8. HadOf(s, way) = had
  BY <1>0, <1>3 DEF HadOf
<1>9. page \in SUBSET (1..Len(c)) /\ new \in SUBSET (1..Len(c))
  BY <1>3 DEF ClosedUp
<1>10. Kept(way, page) = FirstOf(c, page, had \cup read.got[way])
  <2>1. Kept(way, page) = Distinct(page, read.got["in"] \cup read.got["out"])
    BY DEF Kept
  <2> QED
    BY <2>1, OfTheChain
<1>11. Kept(way, page) \subseteq page
  BY <1>10 DEF FirstOf
<1> HIDE DEF c, f, had, old, new, U, t
<1>12. s.got[way] = FirstOf(c, new, had)
  <2>1. FirstOf(c, old \cup page, had) = FirstOf(c, old, had) \cup FirstOf(c, page, had \cup FirstOf(c, old, had))
    <3> DEFINE m == Len(c)
           both == old \cup page
           kept == FirstOf(c, old, had)
           last == FirstOf(c, page, had \cup kept)
    <3>1. m \in Nat /\ old \in SUBSET (1..m) /\ page \in SUBSET (1..m) /\ \A i \in old, j \in page : i > j
      BY <1>3, <1>5, <1>9
    <3>4. both \subseteq Nat /\ \E b \in Nat : \A i \in both : i <= b
      <4>1. \A i \in both : i \in Nat /\ i <= m
        BY <3>1
      <4> QED
        BY <3>1, <4>1
    <3>2. both = old \cup page /\ kept = FirstOf(c, old, had) /\ last = FirstOf(c, page, had \cup kept)
      OBVIOUS
    <3> HIDE DEF m, both, kept, last
    <3>5. \A i \in old, j \in page : i > j
      BY <3>1
    <3>6. /\ both = old \cup page /\ kept = FirstOf(c, old, had) /\ last = FirstOf(c, page, had \cup kept)
          /\ both \subseteq Nat /\ (\E b \in Nat : \A i \in both : i <= b)
          /\ \A i \in old, j \in page : i > j
      BY ONLY <3>2, <3>4, <3>5
    <3>3. FirstOf(c, both, had) = kept \cup last
      <4>1. \A cc, o, p, h, b, k, l :
              /\ b = o \cup p /\ k = FirstOf(cc, o, h) /\ l = FirstOf(cc, p, h \cup k)
              /\ b \subseteq Nat /\ (\E x \in Nat : \A i \in b : i <= x)
              /\ \A i \in o, j \in p : i > j
              => FirstOf(cc, b, h) = k \cup l
        BY ONLY KeptByPages
      <4> QED
        BY ONLY <3>6, <4>1
    <3> QED
      BY <3>3 DEF both, kept, last
  <2> QED
    BY <1>1, <1>3, <1>7, <1>10, <2>1
<1>13. Cardinality(s.got[way]) \in Nat /\ Cardinality(s.got[way]) <= t
  <2> DEFINE kept == Kept(way, page)
  <2>1. kept \in SUBSET page
    BY <1>11
  <2>2. t = Target(way) /\ t \in Nat /\ Cardinality(read.got[way]) < t
    BY <1>1, <1>4
  <2>3. readKind # "web" /\ InRange(chain, read, way)
    BY <1>1 DEF c
  <2> HIDE DEF kept
  <2>4. Cardinality(read.got[way] \cup kept) <= t /\ Cardinality(read.got[way] \cup kept) \in Nat
    BY <1>0, <2>1, <2>2, <2>3, PageFits
  <2> QED
    BY <1>7, <2>4 DEF kept
<1>14. s.got[way] \in SUBSET (1..Len(c))
  BY <1>9, <1>12 DEF FirstOf
<1>15. GoesOn(way, page, more, read.got[way] \cup Kept(way, page), read.pages[way] + 1)
         <=> more /\ Cardinality(s.got[way]) < t
  BY <1>4, <1>7 DEF GoesOn
<1>16. CASE more /\ Cardinality(s.got[way]) < t
  <2>1. s.open = {way}
    BY <1>1, <1>6, <1>15, <1>16
  <2>2. s.got[way] = FirstOf(chain, ReadOf(chain, s, way), HadOf(s, way))
    BY <1>8, <1>12 DEF c, new
  <2>3. EvmOpen(chain, s, way)
    BY <1>3, <1>16, <2>1, <2>2 DEF EvmOpen, c, t
  <2> QED
    BY <1>2, <1>13, <1>14, <2>1, <2>3 DEF c, t
<1>17. CASE ~(more /\ Cardinality(s.got[way]) < t)
  <2>1. s.open = {}
    BY <1>1, <1>6, <1>15, <1>17
  <2> DEFINE all == FirstOf(c, U, had)
  <2>2. all \in SUBSET (1..Len(c))
    BY <1>3 DEF FirstOf
  <2>3. ClosedUp(s.got[way], all)
    BY <1>3, <1>12, KeptUp
  <2>4. Cardinality(s.got[way]) = t \/ (s.got[way] = all /\ Cardinality(all) <= t)
    <3>1. CASE ~more
      <4>1. new = U
        BY <1>3, <1>6, <3>1 DEF c
      <4> QED
        BY <1>12, <1>13, <4>1
    <3>2. CASE more
      BY <1>4, <1>13, <1>17, <3>2
    <3> QED
      BY <3>1, <3>2
  <2> HIDE DEF all
  <2> DEFINE A == s.got[way]
  <2>5. ClosedUp(A, all) /\ (Cardinality(A) = t \/ (A = all /\ Cardinality(all) <= t))
    BY <2>3, <2>4
  <2> HIDE DEF A
  <2>6. Newest(all, t) = A
    BY ONLY <1>4, <1>5, <2>2, <2>5, NewestIs
  <2>7. s.got[way] = Newest(FirstOf(chain, UptoIn(chain, way, s.from[way]), HadOf(s, way)), Share(way))
    BY <1>3, <1>8, <2>6 DEF A, all, c, t, U
  <2>8. s.from[way] \in 0..Len(chain)
    BY <1>3 DEF c
  <2>9. EvmRead(chain, s, way)
    BY <1>3, <2>7, <2>8 DEF EvmRead
  <2> QED
    BY <1>2, <1>13, <1>14, <2>1, <2>9 DEF c, t
<1> QED
  BY <1>16, <1>17

(* EVM: one direction is read after the other. *)
LEMMA EvmPage ==
    ASSUME ReadInv, readKind = "evm", NEW way \in Ways, NEW n \in Nat, NEW more \in BOOLEAN,
           NEW page, NEW s, PageTaken(way, n, more, page, s), NEW r, r = Staged(s)
    PROVE  EvmInv(chain, r) /\ PageRead(way, page, s) /\ s.got[way] \in SUBSET (1..Len(chain))
<1>0. "in" \in Ways /\ "out" \in Ways /\ "in" # "out"
  BY DEF Ways
<1>1. ReadTypes /\ EvmInv(chain, read) /\ read.at = "pages" /\ way \in read.open
  BY DEF ReadInv, KindInv, PageTaken
<1>2. /\ s \in Reads /\ s.at = "pages"
      /\ read \in Reads /\ ReadLimit \in Nat \ {0} /\ Len(chain) \in Nat
  BY <1>1, ReadsAssumption DEF PageTaken, ReadTypes
<1>3. /\ r.pages = s.pages /\ r.from = s.from /\ r.cursor = s.cursor
      /\ s.open # {} => r = s
      /\ s.open = {} /\ s.pages["out"] = 0 /\ Cardinality(s.got["in"]) < ReadLimit =>
           r.at = "pages" /\ r.open = {"out"} /\ r.got = s.got
      /\ s.open = {} /\ ~(s.pages["out"] = 0 /\ Cardinality(s.got["in"]) < ReadLimit) =>
           r.at = "done" /\ r.open = {} /\ r.got = s.got
  <2>1. readKind # "solana"
    OBVIOUS
  <2> QED
    BY <1>2, <2>1, StagedIs
<1>4. CASE EvmOpen(chain, read, "in") /\ read.pages["out"] = 0 /\ read.got["out"] = {}
  <2>1. way = "in"
    BY <1>1, <1>4 DEF EvmOpen
  <2>2. read.got["in"] \cup read.got["out"] = HadOf(read, way) \cup read.got[way]
    BY <1>4, <2>1 DEF HadOf
  <2>3. /\ PageRead(way, page, s) /\ s.got[way] \in SUBSET (1..Len(chain))
        /\ Cardinality(s.got[way]) \in Nat /\ Cardinality(s.got[way]) <= Share(way)
        /\ \/ s.open = {way} /\ EvmOpen(chain, s, way)
           \/ s.open = {} /\ EvmRead(chain, s, way)
    <3>1. way \in {"in", "out"} /\ EvmOpen(chain, read, way)
      BY <1>4, <2>1
    <3> QED
      BY <1>1, <2>2, <3>1, EvmWay
  <2>4. s.pages["out"] = 0 /\ s.got["out"] = {}
    <3>1. /\ s.pages = [read.pages EXCEPT ![way] = read.pages[way] + 1]
          /\ s.got = [read.got EXCEPT ![way] = read.got[way] \cup Kept(way, page)]
      BY DEF PageTaken
    <3>2. read.pages \in [Ways -> Nat] /\ read.got \in [Ways -> SUBSET Nat]
      BY <1>2 DEF Reads
    <3> QED
      BY <1>0, <1>4, <2>1, <3>1, <3>2
  <2>5. CASE s.open = {way} /\ EvmOpen(chain, s, way)
    <3>1. r = s
      BY <1>3, <2>5
    <3>2. EvmInv(chain, r)
      BY <1>2, <2>1, <2>4, <2>5, <3>1 DEF EvmInv
    <3> QED
      BY <2>3, <3>2
  <2>6. CASE s.open = {} /\ EvmRead(chain, s, way)
    <3>1. ASSUME r.got = s.got PROVE EvmRead(chain, r, "in") /\ r.got["out"] = {} /\ r.pages["out"] = 0
      BY <1>3, <2>1, <2>4, <2>6, <3>1 DEF EvmRead, HadOf
    <3>2. CASE Cardinality(s.got["in"]) < ReadLimit
      <4>1. r.at = "pages" /\ r.open = {"out"} /\ r.got = s.got
        BY <1>3, <2>4, <2>6, <3>2
      <4>2. EvmRead(chain, r, "in") /\ r.got["out"] = {} /\ r.pages["out"] = 0
        BY <3>1, <4>1
      <4>3. InRange(chain, r, "out") /\ ReadOf(chain, r, "out") = {}
        <5>1. FromOf(chain, r, "out") = Len(chain) /\ HeadOf(chain, r, "out") = Len(chain)
          BY <4>2 DEF FromOf, HeadOf
        <5>2. UptoIn(chain, "out", Len(chain)) \subseteq 1..Len(chain)
          BY DEF UptoIn
        <5>3. \A i \in 1..Len(chain) : ~(i > Len(chain))
          BY <1>2
        <5> QED
          BY <1>2, <5>1, <5>2, <5>3 DEF InRange, ReadOf
      <4>4. r.got["out"] = FirstOf(chain, ReadOf(chain, r, "out"), HadOf(r, "out"))
        BY <4>2, <4>3 DEF FirstOf
      <4>5. Cardinality(r.got["out"]) < Share("out")
        <5>1. Cardinality(r.got["out"]) = 0
          BY <4>2, FS_EmptySet
        <5>2. Share("out") \in Nat \ {0}
          BY <1>0, Shares
        <5> QED
          BY <5>1, <5>2
      <4>6. EvmOpen(chain, r, "out")
        BY <4>1, <4>3, <4>4, <4>5 DEF EvmOpen
      <4>7. EvmInv(chain, r)
        BY <3>2, <4>1, <4>2, <4>6 DEF EvmInv
      <4> QED
        BY <2>3, <4>7
    <3>3. CASE ~(Cardinality(s.got["in"]) < ReadLimit)
      <4>1. r.at = "done" /\ r.open = {} /\ r.got = s.got
        BY <1>3, <2>4, <2>6, <3>3
      <4>2. EvmRead(chain, r, "in") /\ r.got["out"] = {}
        BY <3>1, <4>1
      <4>3. Cardinality(r.got["in"]) = ReadLimit
        <5>1. Share("in") \in Nat /\ Share("in") <= ReadLimit
          BY <1>0, Shares
        <5> QED
          BY <1>2, <2>1, <2>3, <3>3, <4>1, <5>1
      <4>4. EvmInv(chain, r)
        BY <4>1, <4>2, <4>3 DEF EvmInv
      <4> QED
        BY <2>3, <4>4
    <3> QED
      BY <3>2, <3>3
  <2> QED
    BY <2>3, <2>5, <2>6
<1>5. CASE EvmOpen(chain, read, "out") /\ EvmRead(chain, read, "in") /\ Cardinality(read.got["in"]) < ReadLimit
  <2>1. way = "out"
    BY <1>1, <1>5 DEF EvmOpen
  <2>2. read.got["in"] \cup read.got["out"] = HadOf(read, way) \cup read.got[way]
    BY <2>1 DEF HadOf
  <2>3. /\ PageRead(way, page, s) /\ s.got[way] \in SUBSET (1..Len(chain))
        /\ \/ s.open = {way} /\ EvmOpen(chain, s, way)
           \/ s.open = {} /\ EvmRead(chain, s, way)
    <3>1. way \in {"in", "out"} /\ EvmOpen(chain, read, way)
      BY <1>5, <2>1
    <3> QED
      BY <1>1, <2>2, <3>1, EvmWay
  <2>4. /\ s.pages["in"] = read.pages["in"] /\ s.from["in"] = read.from["in"] /\ s.got["in"] = read.got["in"]
        /\ s.pages["out"] # 0
    BY <1>0, <2>1, <2>3 DEF PageRead
  <2>5. EvmRead(chain, s, "in")
    BY <1>0, <1>5, <2>4 DEF EvmRead, HadOf
  <2>6. CASE s.open = {way} /\ EvmOpen(chain, s, way)
    <3>1. r = s
      BY <1>3, <2>6
    <3>2. EvmInv(chain, r)
      BY <1>2, <1>5, <2>1, <2>4, <2>5, <2>6, <3>1 DEF EvmInv
    <3> QED
      BY <2>3, <3>2
  <2>7. CASE s.open = {} /\ EvmRead(chain, s, way)
    <3>1. r.at = "done" /\ r.open = {} /\ r.got = s.got
      BY <1>3, <2>4, <2>7
    <3>2. EvmRead(chain, r, "in") /\ EvmRead(chain, r, "out")
      BY <1>3, <2>1, <2>5, <2>7, <3>1 DEF EvmRead, HadOf
    <3>3. Cardinality(r.got["in"]) # ReadLimit
      <4>1. Cardinality(r.got["in"]) < ReadLimit
        BY <1>5, <2>4, <3>1
      <4>2. Cardinality(read.got["in"]) \in Nat
        <5>1. read.got["in"] \in SUBSET (1..Len(chain))
          BY <1>0, <1>1 DEF ReadTypes
        <5> QED
          BY <1>2, <5>1, NewerAreFinite
      <4> QED
        BY <1>2, <2>4, <3>1, <4>1, <4>2
    <3>4. EvmInv(chain, r)
      BY <3>1, <3>2, <3>3 DEF EvmInv
    <3> QED
      BY <2>3, <3>4
  <2> QED
    BY <2>3, <2>6, <2>7
<1> QED
  BY <1>1, <1>4, <1>5 DEF EvmInv

(* Nothing older was met before: page by page the same of the window is kept as of all at once. *)
LEMMA WindowByPages ==
    ASSUME NEW c, NEW S \in SUBSET Nat, NEW page \in SUBSET Nat, \A i \in S, j \in page : i > j,
           \A i \in S : ~OlderIn(c, i), NEW both, both = S \cup page
    PROVE  WindowIn(c, both) = WindowIn(c, S) \cup WindowIn(c, page)
<1>1. ASSUME NEW i \in S PROVE i \in WindowIn(c, both) <=> i \in WindowIn(c, S)
  <2>1. \A j \in both : j >= i => j \in S
    BY <1>1
  <2> QED
    BY <2>1 DEF WindowIn
<1>2. ASSUME NEW i \in page PROVE i \in WindowIn(c, both) <=> i \in WindowIn(c, page)
  BY <1>2 DEF WindowIn
<1>3. \A i \in S : i \notin page
  BY SMT
<1>4. WindowIn(c, both) \subseteq both /\ WindowIn(c, S) \subseteq S /\ WindowIn(c, page) \subseteq page
  BY DEF WindowIn
<1> QED
  BY <1>1, <1>2, <1>3, <1>4

(* Once an older entry was met, nothing that is left is of the window. *)
LEMMA NoneIsLeft ==
    ASSUME NEW c, NEW U \in SUBSET Nat, NEW S, ClosedUp(S, U), NEW x \in S, OlderIn(c, x)
    PROVE  WindowIn(c, U) = WindowIn(c, S)
<1>1. S \subseteq U
  BY DEF ClosedUp
<1>2. ASSUME NEW i \in WindowIn(c, U) PROVE i \in S
  <2>1. i \in U /\ i \in Nat /\ x \in Nat /\ \A j \in U : j >= i => ~OlderIn(c, j)
    BY <1>1 DEF WindowIn
  <2>2. ~(x >= i)
    BY <1>1, <2>1
  <2>3. i > x
    BY <2>1, <2>2
  <2> QED
    BY <2>1, <2>3 DEF ClosedUp
<1>3. ASSUME NEW i \in WindowIn(c, U) PROVE i \in WindowIn(c, S)
  BY <1>1, <1>2, <1>3 DEF WindowIn
<1>4. WindowIn(c, S) \subseteq WindowIn(c, U)
  BY WindowUp DEF ClosedUp
<1> QED
  BY <1>3, <1>4

(* Solana: after a page, what is kept is of the window of what was read; once there is enough of
   it, or nothing older can be of it, the transactions are read. *)
LEMMA SolanaPage ==
    ASSUME ReadInv, readKind = "solana", NEW way \in Ways, NEW n \in Nat, NEW more \in BOOLEAN,
           NEW page, NEW s, PageTaken(way, n, more, page, s), NEW r, r = Staged(s)
    PROVE  SolanaInv(chain, r) /\ PageRead(way, page, s) /\ s.got[way] \in SUBSET (1..Len(chain))
<1> DEFINE c == chain
           f == FromOf(c, read, way)
           h == HeadOf(c, read, way)
           old == ReadOf(c, read, way)
           new == ReadOf(c, s, way)
           U == UptoIn(c, way, f)
           rest == UptoIn(c, way, h)
           t == ReadLimit
<1>0. "all" \in Ways /\ t \in Nat \ {0}
  BY ReadsAssumption DEF Ways
<1>1. ReadTypes /\ SolanaInv(c, read) /\ read.at = "pages" /\ way \in read.open
  BY DEF ReadInv, KindInv, PageTaken
<1>2. way = "all" /\ read.open = {"all"}
  BY <1>1 DEF SolanaInv
<1>3. /\ read.absent = {} /\ read.listed = {} /\ InRange(c, read, way)
      /\ \A i \in old : ~OlderIn(c, i)
      /\ read.got[way] = WindowIn(c, old) /\ Cardinality(read.got[way]) < t
  BY <1>1, <1>2 DEF SolanaInv
<1>4. Len(c) \in Nat /\ read.got \in [Ways -> SUBSET Nat]
  BY <1>1 DEF ReadTypes, Reads
<1>5. PageRead(way, page, s)
  BY <1>1, <1>3, PageIsRead
<1>6. /\ f \in 0..Len(c) /\ s.pages[way] # 0 /\ s.from[way] = f /\ InRange(c, s, way)
      /\ old \in SUBSET (1..Len(c)) /\ new = old \cup page /\ (\A i \in old, j \in page : i > j)
      /\ U \in SUBSET (1..Len(c)) /\ ClosedUp(new, U) /\ (page = rest => new = U)
  BY <1>5 DEF PageRead
<1>7. /\ s \in Reads /\ s.at = "pages" /\ s.listed = {} /\ s.absent = {}
      /\ s.got = [read.got EXCEPT ![way] = read.got[way] \cup Kept(way, page)]
      /\ page = Newest(rest, n) /\ (n = 0 <=> rest = {})
      /\ s.open = IF GoesOn(way, page, more, read.got[way] \cup Kept(way, page), read.pages[way] + 1)
                  THEN read.open ELSE read.open \ {way}
  BY <1>3 DEF PageTaken
<1>8. s.got[way] = read.got[way] \cup Kept(way, page)
  BY <1>4, <1>7
<1>9. Kept(way, page) = WindowIn(c, page)
  <2>1. Kept(way, page) = {i \in BeforeOlder(page) : ~Newer(i)}
    BY DEF Kept
  <2> QED
    BY <2>1, OfTheChain
<1>10. Target(way) = t
  BY DEF Target
<1>11. GoesOn(way, page, more, read.got[way] \cup Kept(way, page), read.pages[way] + 1)
         <=> page # {} /\ Cardinality(s.got[way]) < t /\ \A i \in page : ~OlderIn(c, i)
  BY <1>8, <1>10, OfTheChain DEF GoesOn
<1>12. page \in SUBSET (1..Len(c)) /\ new \in SUBSET (1..Len(c)) /\ rest \in SUBSET (1..Len(c))
  <2>1. h \in 0..Len(c)
    BY <1>3, <1>4 DEF InRange
  <2>2. rest \subseteq 1..h
    BY DEF UptoIn
  <2> HIDE DEF rest, h, new, U
  <2>3. rest \subseteq 1..Len(c)
    BY <1>4, <2>1, <2>2
  <2> QED
    BY <1>6, <2>3 DEF ClosedUp
<1>13. page = {} => page = rest
  <2>1. rest \in SUBSET (1..Len(c))
    BY <1>12
  <2>2. page = rest \/ Cardinality(page) = n
    BY ONLY <1>4, <1>7, <2>1, NewestCount
  <2>3. Cardinality({}) = 0
    BY FS_EmptySet
  <2> HIDE DEF rest
  <2> QED
    BY <1>7, <2>2, <2>3
<1> HIDE DEF c, f, h, old, new, U, rest, t
<1>14. s.got[way] = WindowIn(c, new)
  <2>1. old \in SUBSET Nat /\ page \in SUBSET Nat
    BY <1>4, <1>6, <1>12
  <2>2. WindowIn(c, new) = WindowIn(c, old) \cup WindowIn(c, page)
    BY ONLY <1>3, <1>6, <2>1, WindowByPages
  <2> QED
    BY <1>3, <1>8, <1>9, <2>2
<1>15. Cardinality(s.got[way]) \in Nat /\ Cardinality(s.got[way]) <= t
  <2> DEFINE kept == Kept(way, page)
  <2>1. kept \in SUBSET page
    BY <1>9 DEF WindowIn
  <2>2. t = Target(way) /\ t \in Nat /\ Cardinality(read.got[way]) < t
    BY <1>0, <1>3, <1>10
  <2>3. readKind # "web" /\ InRange(chain, read, way)
    BY <1>3 DEF c
  <2> HIDE DEF kept
  <2>4. Cardinality(read.got[way] \cup kept) <= t /\ Cardinality(read.got[way] \cup kept) \in Nat
    BY <1>1, <2>1, <2>2, <2>3, PageFits
  <2> QED
    BY <1>8, <2>4 DEF kept
<1>16. s.got[way] \in SUBSET (1..Len(c))
  BY <1>12, <1>14 DEF WindowIn
<1>17. /\ r.pages = s.pages /\ r.from = s.from /\ r.cursor = s.cursor /\ r.absent = s.absent
       /\ s.open # {} => r = s
       /\ s.open = {} /\ s.got["all"] # {} =>
            r.at = "transactions" /\ r.listed = s.got["all"] /\ r.got["all"] = {}
       /\ s.open = {} /\ s.got["all"] = {} =>
            r.at = "done" /\ r.got = s.got /\ r.listed = s.listed
  <2>1. readKind # "evm"
    OBVIOUS
  <2> QED
    BY <1>7, <2>1, StagedIs
<1>18. CASE page # {} /\ Cardinality(s.got[way]) < t /\ \A i \in page : ~OlderIn(c, i)
  <2>1. s.open = {"all"} /\ r = s
    BY <1>2, <1>7, <1>11, <1>17, <1>18
  <2>2. \A i \in new : ~OlderIn(c, i)
    BY <1>3, <1>6, <1>18
  <2>3. SolanaInv(c, s)
    BY <1>2, <1>6, <1>7, <1>14, <1>18, <2>1, <2>2 DEF SolanaInv, new, t
  <2> QED
    BY <1>5, <1>16, <2>1, <2>3 DEF c
<1>19. CASE ~(page # {} /\ Cardinality(s.got[way]) < t /\ \A i \in page : ~OlderIn(c, i))
  <2>1. s.open = {}
    BY <1>2, <1>7, <1>11, <1>19
  <2> DEFINE all == WindowIn(c, U)
             A == s.got[way]
  <2>2. all \in SUBSET (1..Len(c))
    BY <1>6 DEF WindowIn
  <2>3. U \in SUBSET Nat
    BY <1>4, <1>6
  <2>4. ClosedUp(A, all)
    BY <1>6, <1>14, <2>3, WindowUp
  <2>5. Cardinality(A) = t \/ (A = all /\ Cardinality(all) <= t)
    <3>1. CASE page = {}
      BY <1>6, <1>13, <1>14, <1>15, <3>1
    <3>2. CASE ~(Cardinality(s.got[way]) < t)
      BY <1>0, <1>15, <3>2
    <3>3. CASE \E i \in page : OlderIn(c, i)
      <4>1. PICK x \in new : OlderIn(c, x)
        BY <1>6, <3>3
      <4>2. all = WindowIn(c, new)
        BY <1>6, <2>3, <4>1, NoneIsLeft
      <4> QED
        BY <1>14, <1>15, <4>2
    <3> QED
      BY <1>19, <3>1, <3>2, <3>3
  <2>6. t \in Nat
    BY <1>0
  <2> HIDE DEF all, A
  <2>7. Newest(all, t) = A
    BY ONLY <1>4, <2>2, <2>4, <2>5, <2>6, NewestIs
  <2>8. SolanaListed(c, r) = A
    BY <1>2, <1>6, <1>17, <2>7 DEF SolanaListed, all, t, U
  <2>9. r.from["all"] \in 0..Len(c)
    BY <1>2, <1>6, <1>17
  <2>10. CASE A # {}
    <3>1. r.at = "transactions" /\ r.listed = A /\ r.got["all"] = {} /\ r.absent = {}
      BY <1>2, <1>7, <1>17, <2>1, <2>10 DEF A
    <3>2. SolanaInv(c, r)
      BY <2>8, <2>9, <2>10, <3>1 DEF SolanaInv
    <3> QED
      BY <1>5, <1>16, <3>2 DEF c
  <2>11. CASE A = {}
    <3>1. r.at = "done" /\ r.listed = {} /\ r.got["all"] = {} /\ r.absent = {}
      BY <1>2, <1>7, <1>17, <2>1, <2>11 DEF A
    <3>2. SolanaInv(c, r)
      BY <2>8, <2>9, <2>11, <3>1 DEF SolanaInv
    <3> QED
      BY <1>5, <1>16, <3>2 DEF c
  <2> QED
    BY <2>10, <2>11
<1> QED
  BY <1>18, <1>19

(* The copilot: everything of a page is kept; a direction ends when the pages run out, when
   nothing is left, or when an entry is older than the window, as then is all that is left. *)
LEMMA WebWay ==
    ASSUME ReadTypes, readKind = "web", NEW way \in {"in", "out"}, NEW n \in Nat, NEW more \in BOOLEAN,
           NEW page, NEW s, PageTaken(way, n, more, page, s), WebRead(chain, read, way)
    PROVE  /\ WebRead(chain, s, way) /\ PageRead(way, page, s)
           /\ s.open \subseteq read.open /\ s.got[way] \in SUBSET (1..Len(chain))
           /\ \A w \in Ways : w # way => (w \in s.open <=> w \in read.open)
<1> DEFINE c == chain
           f == FromOf(c, read, way)
           h == HeadOf(c, read, way)
           old == ReadOf(c, read, way)
           new == ReadOf(c, s, way)
           U == UptoIn(c, way, f)
           rest == UptoIn(c, way, h)
           P == read.pages[way] + 1
<1>0. way \in Ways /\ PageLimit \in Nat \ {0} /\ FirstDay \in Nat \ {0}
  BY ReadsAssumption DEF Ways
<1>1. InRange(c, read, way) /\ read.got[way] = old /\ (way \in read.open => read.pages[way] < PageLimit)
  BY DEF WebRead
<1>2. /\ Len(c) \in Nat /\ read.got \in [Ways -> SUBSET Nat] /\ read.pages \in [Ways -> Nat]
      /\ c \in Seq(Transfers) /\ ChainGrows(c)
  BY DEF ReadTypes, Reads
<1>3. PageRead(way, page, s)
  BY <1>0, <1>1, PageIsRead
<1>4. /\ f \in 0..Len(c) /\ s.pages[way] # 0 /\ s.from[way] = f /\ InRange(c, s, way)
      /\ old \in SUBSET (1..Len(c)) /\ new = old \cup page
      /\ U \in SUBSET (1..Len(c)) /\ ClosedUp(new, U) /\ (page = rest => new = U)
  BY <1>3 DEF PageRead
<1>5. /\ way \in read.open /\ page = Newest(rest, n) /\ (n = 0 <=> rest = {}) /\ (page # rest => more)
      /\ s.pages = [read.pages EXCEPT ![way] = P]
      /\ s.got = [read.got EXCEPT ![way] = read.got[way] \cup Kept(way, page)]
      /\ s.open = IF GoesOn(way, page, more, read.got[way] \cup Kept(way, page), P)
                  THEN read.open ELSE read.open \ {way}
  BY DEF PageTaken
<1>6. s.got[way] = new /\ s.pages[way] = P
  <2>1. Kept(way, page) = page
    BY DEF Kept
  <2> QED
    BY <1>0, <1>1, <1>2, <1>4, <1>5, <2>1
<1>7. GoesOn(way, page, more, read.got[way] \cup Kept(way, page), P)
        <=> more /\ page # {} /\ P < PageLimit /\ \A i \in page : ~OlderIn(c, i)
  BY OfTheChain DEF GoesOn
<1>8. page \in SUBSET (1..Len(c)) /\ rest \in SUBSET (1..Len(c)) /\ new \in SUBSET (1..Len(c))
  <2>1. h \in 0..Len(c)
    BY <1>1, <1>2 DEF InRange
  <2>2. rest \subseteq 1..h
    BY DEF UptoIn
  <2> HIDE DEF rest, h, new, U
  <2>3. rest \subseteq 1..Len(c)
    BY <1>2, <2>1, <2>2
  <2> QED
    BY <1>4, <2>3 DEF ClosedUp
<1>9. page = {} => page = rest
  <2>1. rest \in SUBSET (1..Len(c))
    BY <1>8
  <2>2. page = rest \/ Cardinality(page) = n
    BY ONLY <1>2, <1>5, <2>1, NewestCount
  <2>3. Cardinality({}) = 0
    BY FS_EmptySet
  <2> HIDE DEF rest
  <2> QED
    BY <1>5, <2>2, <2>3
<1> HIDE DEF c, f, h, old, new, U, rest, P
<1>10. P \in Nat /\ P <= PageLimit
  <2>1. read.pages[way] \in Nat /\ read.pages[way] < PageLimit
    BY <1>0, <1>1, <1>2, <1>5
  <2> QED
    BY <1>0, <2>1 DEF P
<1>11. way \in s.open => P < PageLimit
  BY <1>5, <1>7
<1>12. ASSUME way \notin s.open, P < PageLimit, NEW i \in U, c[i].day >= FirstDay PROVE i \in new
  <2>1. ~(more /\ page # {} /\ P < PageLimit /\ \A j \in page : ~OlderIn(c, j))
    BY <1>5, <1>7, <1>12
  <2>2. CASE page = rest
    BY <1>4, <1>12, <2>2
  <2>3. CASE \E j \in page : OlderIn(c, j)
    <3>1. PICK x \in new : OlderIn(c, x)
      BY <1>4, <2>3
    <3>2. x \in U /\ i \in 1..Len(c) /\ x \in 1..Len(c)
      BY <1>4, <1>12, <3>1 DEF ClosedUp
    <3>3. c[x].day > 0 /\ c[x].day < FirstDay
      BY <3>1 DEF OlderIn
    <3>4. c[x].day \in Nat /\ c[i].day \in Nat
      <4>1. c[x] \in Transfers /\ c[i] \in Transfers
        BY <1>2, <3>2
      <4> QED
        BY <4>1 DEF Transfers
    <3>5. c[i].day > 0 /\ ~(c[i].day <= c[x].day)
      BY <1>0, <1>12, <3>3, <3>4
    <3>6. ~(i < x)
      BY <1>2, <3>2, <3>3, <3>5 DEF ChainGrows
    <3>7. i = x \/ i > x
      <4>1. i \in Nat /\ x \in Nat
        BY <3>2
      <4> QED
        BY <3>6, <4>1
    <3> QED
      BY <1>4, <1>12, <3>1, <3>7 DEF ClosedUp
  <2> QED
    BY <1>5, <1>9, <1>12, <2>1, <2>2, <2>3
<1>13. WebRead(chain, s, way)
  BY <1>4, <1>6, <1>10, <1>11, <1>12 DEF WebRead, c, new, U
<1>14. s.open \subseteq read.open /\ \A w \in Ways : w # way => (w \in s.open <=> w \in read.open)
  BY <1>5
<1> QED
  BY <1>3, <1>6, <1>8, <1>13, <1>14 DEF c

(* The copilot: both directions are read at once. *)
LEMMA WebPage ==
    ASSUME ReadInv, readKind = "web", NEW way \in Ways, NEW n \in Nat, NEW more \in BOOLEAN,
           NEW page, NEW s, PageTaken(way, n, more, page, s), NEW r, r = Staged(s)
    PROVE  WebInv(chain, r) /\ PageRead(way, page, s) /\ s.got[way] \in SUBSET (1..Len(chain))
<1>0. Ways = {"in", "out", "all"}
  BY DEF Ways
<1>1. ReadTypes /\ WebInv(chain, read) /\ read.at = "pages" /\ way \in read.open /\ s \in Reads /\ s.at = "pages"
  BY DEF ReadInv, KindInv, PageTaken
<1>2. /\ way \in {"in", "out"} /\ WebRead(chain, read, "in") /\ WebRead(chain, read, "out")
      /\ "all" \notin read.open /\ read.pages["all"] = 0
  BY <1>0, <1>1 DEF WebInv
<1>3. /\ WebRead(chain, s, way) /\ PageRead(way, page, s)
      /\ s.open \subseteq read.open /\ s.got[way] \in SUBSET (1..Len(chain))
      /\ \A w \in Ways : w # way => (w \in s.open <=> w \in read.open)
  BY <1>1, <1>2, WebWay
<1>4. \A w \in Ways : w # way => /\ s.pages[w] = read.pages[w] /\ s.from[w] = read.from[w]
                                 /\ s.cursor[w] = read.cursor[w] /\ s.got[w] = read.got[w]
  BY <1>3 DEF PageRead
<1>5. ASSUME NEW w \in {"in", "out"}, w # way PROVE WebRead(chain, s, w)
  <2>1. WebRead(chain, read, w) /\ w \in Ways
    BY <1>0, <1>2
  <2>2. /\ s.pages[w] = read.pages[w] /\ s.from[w] = read.from[w] /\ s.cursor[w] = read.cursor[w]
        /\ s.got[w] = read.got[w] /\ (w \in s.open <=> w \in read.open)
    BY <1>3, <1>4, <1>5, <2>1
  <2>3. FromOf(chain, s, w) = FromOf(chain, read, w) /\ HeadOf(chain, s, w) = HeadOf(chain, read, w)
    BY <2>2 DEF FromOf, HeadOf
  <2>4. ReadOf(chain, s, w) = ReadOf(chain, read, w) /\ (InRange(chain, s, w) <=> InRange(chain, read, w))
    BY <2>3 DEF ReadOf, InRange
  <2> QED
    BY <2>1, <2>2, <2>4 DEF WebRead
<1>6. WebRead(chain, s, "in") /\ WebRead(chain, s, "out")
  BY <1>2, <1>3, <1>5
<1>7. /\ r.pages = s.pages /\ r.from = s.from /\ r.cursor = s.cursor
      /\ s.open # {} => r = s
      /\ s.open = {} => r.at = "done" /\ r.open = {} /\ r.got = s.got
  <2>1. readKind # "evm" /\ readKind # "solana"
    OBVIOUS
  <2> QED
    BY <1>1, <2>1, StagedIs
<1>8. r.open = s.open /\ r.got = s.got /\ r.at \in {"pages", "done"} /\ (r.at = "done" => r.open = {})
  BY <1>1, <1>7
<1>9. ASSUME NEW w \in {"in", "out"}, WebRead(chain, s, w) PROVE WebRead(chain, r, w)
  <2>1. FromOf(chain, r, w) = FromOf(chain, s, w) /\ HeadOf(chain, r, w) = HeadOf(chain, s, w)
    BY <1>7 DEF FromOf, HeadOf
  <2>2. ReadOf(chain, r, w) = ReadOf(chain, s, w) /\ (InRange(chain, r, w) <=> InRange(chain, s, w))
    BY <2>1 DEF ReadOf, InRange
  <2> QED
    BY <1>7, <1>8, <1>9, <2>2 DEF WebRead
<1>10. "all" \notin r.open /\ r.pages["all"] = 0
  BY <1>0, <1>2, <1>3, <1>4, <1>7, <1>8
<1>11. WebInv(chain, r)
  BY <1>6, <1>8, <1>9, <1>10 DEF WebInv
<1> QED
  BY <1>3, <1>11

(* A page leaves a read as it should be. *)
LEMMA PageKeeps ==
    ASSUME ReadInv, NEW way \in Ways, ReadPage(way)
    PROVE  ReadInv'
<1>1. PICK n \in Nat, more \in BOOLEAN, page \in SUBSET (1..Len(chain)), s \in Reads :
         PageTaken(way, n, more, page, s)
  BY PageIsTaken
<1>2. read' = Staged(s)
  BY <1>1 DEF PageTaken
<1>3. readKind' = readKind /\ chain' = chain /\ readFailures' = readFailures
  BY DEF ReadPage
<1>4. readKind \in {"evm", "solana", "web"}
  BY ReadsAssumption DEF ReadInv, ReadTypes
<1> DEFINE r == Staged(s)
<1>5. KindInv(readKind, chain, r) /\ PageRead(way, page, s) /\ s.got[way] \in SUBSET (1..Len(chain))
  <2>0. r = Staged(s)
    OBVIOUS
  <2> HIDE DEF r
  <2>1. CASE readKind = "evm"
    <3>1. EvmInv(chain, r) /\ PageRead(way, page, s) /\ s.got[way] \in SUBSET (1..Len(chain))
      BY <1>1, <2>0, <2>1, EvmPage
    <3> QED
      BY <2>1, <3>1 DEF KindInv
  <2>2. CASE readKind = "solana"
    <3>1. SolanaInv(chain, r) /\ PageRead(way, page, s) /\ s.got[way] \in SUBSET (1..Len(chain))
      BY <1>1, <2>0, <2>2, SolanaPage
    <3> QED
      BY <2>2, <3>1 DEF KindInv
  <2>3. CASE readKind = "web"
    <3>1. WebInv(chain, r) /\ PageRead(way, page, s) /\ s.got[way] \in SUBSET (1..Len(chain))
      BY <1>1, <2>0, <2>3, WebPage
    <3> QED
      BY <2>3, <3>1 DEF KindInv
  <2> QED
    BY <1>4, <2>1, <2>2, <2>3
<1>6. r \in Reads /\ r.cursor = s.cursor /\ \A w \in Ways : r.got[w] \subseteq s.got[w]
  BY StagedIs
<1> HIDE DEF r
<1>7. ReadTypes
  BY DEF ReadInv
<1>8. \A w \in Ways : s.got[w] \in SUBSET (1..Len(chain)) /\ s.cursor[w] <= Len(chain)
  BY <1>5, <1>7 DEF ReadTypes, PageRead
<1>9. \A w \in Ways : r.got[w] \in SUBSET (1..Len(chain)) /\ r.cursor[w] <= Len(chain)
  BY <1>6, <1>8
<1>10. read' = r
  BY <1>2 DEF r
<1>11. ReadTypes'
  BY <1>3, <1>6, <1>7, <1>9, <1>10 DEF ReadTypes
<1>12. KindInv(readKind', chain', read')
  BY <1>3, <1>5, <1>10
<1> QED
  BY <1>11, <1>12 DEF ReadInv

(* A transaction goes over from those that are listed to those that were got or are gone. *)
LEMMA TransactionKeeps ==
    ASSUME ReadInv, NEW found \in BOOLEAN, ReadTransaction(found)
    PROVE  ReadInv'
<1> DEFINE i == Max(read.listed)
           rest == read.listed \ {i}
           place == IF rest = {} THEN "done" ELSE read.at
           all == IF found THEN read.got["all"] \cup {i} ELSE read.got["all"]
           got == [read.got EXCEPT !["all"] = all]
           absent == IF found THEN read.absent ELSE read.absent \cup {i}
           L == SolanaListed(chain, read)
           r == [at |-> place, provider |-> read.provider, open |-> read.open, cursor |-> read.cursor,
                 from |-> read.from, pages |-> read.pages, got |-> got, listed |-> rest, absent |-> absent]
<1>0. "all" \in Ways
  BY DEF Ways
<1>1. read.at = "transactions" /\ readKind' = readKind /\ chain' = chain /\ readFailures' = readFailures
  BY DEF ReadTransaction
<1>2. ReadTypes /\ readKind = "solana" /\ SolanaInv(chain, read)
  <2>1. readKind \in {"evm", "solana", "web"}
    BY ReadsAssumption DEF ReadInv, ReadTypes
  <2> QED
    BY <1>1, <2>1 DEF ReadInv, KindInv, EvmInv, WebInv
<1>3. /\ read \in Reads /\ Len(chain) \in Nat
      /\ \A w \in Ways : read.got[w] \in SUBSET (1..Len(chain)) /\ read.cursor[w] <= Len(chain)
  BY <1>2 DEF ReadTypes
<1>4. /\ read.at \in Places /\ read.provider \in {"none", "alchemy", "helius"} /\ read.open \in SUBSET Ways
      /\ read.cursor \in [Ways -> Nat] /\ read.from \in [Ways -> Nat] /\ read.pages \in [Ways -> Nat]
      /\ read.got \in [Ways -> SUBSET Nat] /\ read.listed \in SUBSET Nat /\ read.absent \in SUBSET Nat
      /\ read = [at |-> read.at, provider |-> read.provider, open |-> read.open, cursor |-> read.cursor,
                 from |-> read.from, pages |-> read.pages, got |-> read.got, listed |-> read.listed,
                 absent |-> read.absent]
  BY <1>3 DEF Reads
<1>5. /\ read.from["all"] \in 0..Len(chain) /\ read.listed # {}
      /\ read.listed \subseteq L /\ read.absent \subseteq L \ read.listed
      /\ read.got["all"] = (L \ read.listed) \ read.absent
  BY <1>1, <1>2 DEF SolanaInv
<1>6. L \in SUBSET (1..Len(chain))
  <2>1. L \subseteq 1..read.from["all"]
    BY DEF SolanaListed, Newest, WindowIn, UptoIn
  <2> HIDE DEF L
  <2> QED
    BY <1>3, <1>5, <2>1
<1>7. i \in read.listed
  <2>1. \A x \in read.listed : x <= Len(chain)
    BY <1>3, <1>5, <1>6
  <2> QED
    BY <1>3, <1>4, <1>5, <2>1, LargestNumber
<1>8. read' = r
  <2>1. read' = [read EXCEPT !.listed = rest, !.at = place, !.got = got, !.absent = absent]
    <3>1. read' = [read EXCEPT !.listed = read.listed \ {i},
                               !.at = IF read.listed \ {i} = {} THEN "done" ELSE @,
                               !.got["all"] = IF found THEN @ \cup {i} ELSE @,
                               !.absent = IF found THEN @ ELSE @ \cup {i}]
      BY DEF ReadTransaction
    <3> DEFINE t1 == [read EXCEPT !.listed = rest]
               t2 == [t1 EXCEPT !.at = place]
               t3 == [t2 EXCEPT !.got = got]
    <3>2. t1.at = read.at /\ t2.got = read.got /\ t3.absent = read.absent
      BY <1>4
    <3>3. read' = [t3 EXCEPT !.absent = absent]
      BY <3>1, <3>2
    <3> QED
      BY <3>3
  <2> HIDE DEF i, rest, place, got, absent
  <2> DEFINE t1 == [read EXCEPT !.listed = rest]
             t2 == [t1 EXCEPT !.at = place]
             t3 == [t2 EXCEPT !.got = got]
  <2>2. read' = [t3 EXCEPT !.absent = absent]
    BY <2>1
  <2>3. t1 = [at |-> read.at, provider |-> read.provider, open |-> read.open, cursor |-> read.cursor,
              from |-> read.from, pages |-> read.pages, got |-> read.got, listed |-> rest, absent |-> read.absent]
    BY <1>4
  <2> HIDE DEF t1
  <2>4. t2 = [at |-> place, provider |-> read.provider, open |-> read.open, cursor |-> read.cursor,
              from |-> read.from, pages |-> read.pages, got |-> read.got, listed |-> rest, absent |-> read.absent]
    BY <2>3
  <2> HIDE DEF t2
  <2>5. t3 = [at |-> place, provider |-> read.provider, open |-> read.open, cursor |-> read.cursor,
              from |-> read.from, pages |-> read.pages, got |-> got, listed |-> rest, absent |-> read.absent]
    BY <2>4
  <2> HIDE DEF t3
  <2> QED
    BY <2>2, <2>5
<1>9. place \in {"transactions", "done"} /\ (place = "transactions" <=> rest # {})
  BY <1>1
<1>10. all \in SUBSET (1..Len(chain)) /\ rest \subseteq L /\ absent \subseteq L \ rest /\ all = (L \ rest) \ absent
  <2> HIDE DEF L, i
  <2> QED
    BY <1>0, <1>3, <1>5, <1>6, <1>7
<1>11. got \in [Ways -> SUBSET Nat] /\ got["all"] = all /\ \A w \in Ways : got[w] \in SUBSET (1..Len(chain))
  <2>1. all \in SUBSET Nat
    BY <1>10
  <2> HIDE DEF all
  <2> QED
    BY <1>0, <1>3, <1>4, <1>10, <2>1
<1>12. rest \in SUBSET Nat /\ absent \in SUBSET Nat
  BY <1>4, <1>7
<1> HIDE DEF i, rest, place, all, got, absent, L
<1>13. r \in Reads
  BY <1>4, <1>9, <1>11, <1>12 DEF Reads, Places
<1>14. /\ r.at = place /\ r.cursor = read.cursor /\ r.from = read.from /\ r.got = got /\ r.listed = rest
       /\ r.absent = absent
  OBVIOUS
<1> HIDE DEF r
<1>15. SolanaListed(chain, r) = L
  BY <1>14 DEF SolanaListed, L
<1>16. SolanaInv(chain, r)
  BY <1>5, <1>9, <1>10, <1>11, <1>14, <1>15 DEF SolanaInv
<1>17. KindInv(readKind', chain', read')
  BY <1>1, <1>2, <1>8, <1>16 DEF KindInv
<1>18. ReadTypes'
  BY <1>1, <1>2, <1>3, <1>8, <1>11, <1>13, <1>14 DEF ReadTypes
<1> QED
  BY <1>17, <1>18 DEF ReadInv

(* A read begins, fails, or is asked of the other provider. *)
LEMMA OthersKeep ==
    ASSUME ReadInv, BeginRead \/ \E refused \in BOOLEAN : ReadFails(refused)
    PROVE  ReadInv'
<1>1. readKind' = readKind /\ chain' = chain /\ readFailures' \in 0..MaxReadFailures
  <2>1. readFailures \in 0..MaxReadFailures /\ MaxReadFailures \in Nat
    BY ReadsAssumption DEF ReadInv, ReadTypes
  <2>2. BeginRead => readFailures' = readFailures
    BY DEF BeginRead
  <2>3. ASSUME NEW refused \in BOOLEAN, ReadFails(refused) PROVE readFailures' \in 0..MaxReadFailures
    BY <2>1, <2>3 DEF ReadFails
  <2> QED
    BY <2>1, <2>2, <2>3 DEF BeginRead, ReadFails
<1>2. read' = NoRead \/ read' = Fresh("alchemy") \/ read' = Fresh("helius")
  BY DEF BeginRead, ReadFails
<1>3. ReadTypes
  BY DEF ReadInv
<1>4. chain \in Seq(Transfers) /\ readKind \in Kinds /\ Len(chain) \in Nat
  BY <1>3 DEF ReadTypes
<1>5. KindInv(readKind', chain', read')
  <2>1. KindInv(readKind, chain, read')
    BY <1>2, <1>4, ReadsBegin
  <2> QED
    BY <1>1, <2>1
<1>6. read' \in Reads /\ \A w \in Ways : read'.got[w] = {} /\ read'.cursor[w] = 0
  BY <1>2, <1>4, FreshIs, NoReadIs
<1>7. ReadTypes'
  BY <1>1, <1>3, <1>4, <1>6 DEF ReadTypes
<1> QED
  BY <1>5, <1>7 DEF ReadInv

(* Every step of the reads. *)
LEMMA ReadsStep ==
    ReadInv /\ [ReadsNext]_readVars => ReadInv'
<1> SUFFICES ASSUME ReadInv, [ReadsNext]_readVars PROVE ReadInv'
  OBVIOUS
<1>1. CASE \E a \in Arrivals[readKind] : Arrive(a)
  BY <1>1, ArriveKeeps
<1>2. CASE BeginRead
  BY <1>2, OthersKeep
<1>3. CASE \E way \in Ways : ReadPage(way)
  BY <1>3, PageKeeps
<1>4. CASE \E found \in BOOLEAN : ReadTransaction(found)
  BY <1>4, TransactionKeeps
<1>5. CASE \E refused \in BOOLEAN : ReadFails(refused)
  BY <1>5, OthersKeep
<1>6. CASE UNCHANGED readVars
  <2>1. readKind' = readKind /\ chain' = chain /\ read' = read /\ readFailures' = readFailures
    BY <1>6 DEF readVars
  <2>2. ReadTypes' /\ KindInv(readKind', chain', read')
    BY <2>1 DEF ReadInv, ReadTypes
  <2> QED
    BY <2>2 DEF ReadInv
<1> QED
  BY <1>1, <1>2, <1>3, <1>4, <1>5, <1>6 DEF ReadsNext

(* At first no read is under way. *)
LEMMA ReadsBegun ==
    ReadsInit => ReadInv
<1> SUFFICES ASSUME ReadsInit PROVE ReadInv
  OBVIOUS
<1>1. readKind \in Kinds /\ chain = <<>> /\ read = NoRead /\ readFailures = 0
  BY DEF ReadsInit
<1>2. chain \in Seq(Transfers) /\ Len(chain) = 0 /\ DOMAIN chain = {} /\ Len(chain) <= MaxChain
  BY <1>1, ReadsAssumption
<1>3. ChainGrows(chain)
  BY <1>2 DEF ChainGrows
<1>4. KindInv(readKind, chain, read)
  BY <1>1, <1>2, ReadsBegin
<1>5. read \in Reads /\ \A w \in Ways : read.got[w] = {} /\ read.cursor[w] = 0
  BY <1>1, NoReadIs
<1>6. ReadTypes
  BY <1>1, <1>2, <1>3, <1>5, ReadsAssumption DEF ReadTypes
<1> QED
  BY <1>4, <1>6 DEF ReadInv

(* The copilot keeps each key of what it read, and all entries of a key are of one day. *)
LEMMA WebKeepsKeys ==
    ASSUME ReadTypes, NEW way \in {"in", "out"}, NEW i \in read.got[way], chain[i].day >= FirstDay
    PROVE  \E j \in WebKept : chain[j].key = chain[i].key
<1> DEFINE in == read.got["in"]
           out == read.got["out"]
           both == FirstOf(chain, out, {}) \cup FirstOf(chain, in, out)
<1>1. Len(chain) \in Nat /\ in \in SUBSET (1..Len(chain)) /\ out \in SUBSET (1..Len(chain))
  BY DEF ReadTypes, Ways
<1>2. /\ in \subseteq Nat /\ out \subseteq Nat
      /\ \E m \in Nat : \A j \in in : j <= m
      /\ \E m \in Nat : \A j \in out : j <= m
  BY <1>1
<1>3. WebKept = {j \in both : chain[j].day >= FirstDay}
  BY OfTheChain DEF WebKept
<1>4. i \in in \/ i \in out
  OBVIOUS
<1>10. \A S, had : S \subseteq Nat /\ (\E m \in Nat : \A j \in S : j <= m) =>
         \A x \in S : \/ \E j \in FirstOf(chain, S, had) : chain[j].key = chain[x].key
                     \/ \E j \in had : chain[j].key = chain[x].key
  BY ONLY KeyIsKept
<1> HIDE DEF in, out
<1>5. ASSUME NEW x \in out PROVE \E j \in both : chain[j].key = chain[x].key
  <2>1. \/ \E j \in FirstOf(chain, out, {}) : chain[j].key = chain[x].key
        \/ \E j \in {} : chain[j].key = chain[x].key
    <3> DEFINE none == {}
    <3>1. \/ \E j \in FirstOf(chain, out, none) : chain[j].key = chain[x].key
          \/ \E j \in none : chain[j].key = chain[x].key
      <4> HIDE DEF none
      <4> QED
        BY <1>2, <1>10
    <3> QED
      BY <3>1
  <2> QED
    BY <2>1
<1>6. \E j \in both : chain[j].key = chain[i].key
  <2>1. CASE i \in out
    BY <1>5, <2>1
  <2>2. CASE i \in in
    <3>1. \/ \E j \in FirstOf(chain, in, out) : chain[j].key = chain[i].key
          \/ \E j \in out : chain[j].key = chain[i].key
      BY <1>2, <1>10, <2>2
    <3>2. CASE \E j \in FirstOf(chain, in, out) : chain[j].key = chain[i].key
      BY <3>2
    <3>3. CASE \E j \in out : chain[j].key = chain[i].key
      <4>1. PICK x \in out : chain[x].key = chain[i].key
        BY <3>3
      <4>2. \E j \in both : chain[j].key = chain[x].key
        BY <1>5
      <4> HIDE DEF both
      <4> QED
        BY <4>1, <4>2
    <3> QED
      BY <3>1, <3>2, <3>3
  <2> QED
    BY <1>4, <2>1, <2>2
<1>7. PICK j \in both : chain[j].key = chain[i].key
  BY <1>6
<1>8. both \subseteq 1..Len(chain)
  BY <1>1 DEF FirstOf
<1> HIDE DEF both
<1>9. chain[j].day = chain[i].day
  <2>1. DOMAIN chain = 1..Len(chain)
    BY DEF ReadTypes
  <2>2. i \in DOMAIN chain /\ j \in DOMAIN chain
    BY <1>1, <1>4, <1>7, <1>8, <2>1
  <2> QED
    BY <1>7, <2>2 DEF ReadTypes, ChainGrows
<1> QED
  BY <1>3, <1>7, <1>9

(* What is done is whole. *)
LEMMA DoneIsWhole ==
    ReadInv => ReadIsWhole
<1> SUFFICES ASSUME ReadInv, read.at = "done"
             PROVE  CASE readKind = "evm" ->
                LET in == Newest(Distinct(Upto("in", read.from["in"]), {}), Target("in"))
                IN  /\ read.got["in"] = in
                    /\ read.got["out"] =
                         IF Cardinality(in) = ReadLimit THEN {}
                         ELSE Newest(Distinct(Upto("out", read.from["out"]), in), Target("out"))
          [] readKind = "solana" ->
                LET window == {i \in BeforeOlder(Upto("all", read.from["all"])) : ~Newer(i)}
                IN  read.got["all"] = Newest(window, ReadLimit) \ read.absent
          [] readKind = "web" ->
                \A way \in {"in", "out"} :
                    read.pages[way] < PageLimit =>
                        \A i \in Upto(way, read.from[way]) :
                            chain[i].day >= FirstDay => \E j \in WebKept : chain[j].key = chain[i].key
  BY DEF ReadIsWhole
<1>1. ReadTypes /\ KindInv(readKind, chain, read) /\ readKind \in {"evm", "solana", "web"}
  BY ReadsAssumption DEF ReadInv, ReadTypes
<1>2. CASE readKind = "evm"
  <2> DEFINE in == Newest(Distinct(Upto("in", read.from["in"]), {}), Target("in"))
  <2>1. /\ EvmRead(chain, read, "in")
        /\ IF Cardinality(read.got["in"]) = ReadLimit THEN read.got["out"] = {} ELSE EvmRead(chain, read, "out")
    BY <1>1, <1>2 DEF KindInv, EvmInv
  <2>2. Target("in") = Share("in") /\ Target("out") = Share("out")
    BY <1>2 DEF Target, Share
  <2>3. read.got["in"] = in
    BY <2>1, <2>2, OfTheChain DEF EvmRead, HadOf
  <2>4. EvmRead(chain, read, "out") =>
          read.got["out"] = Newest(Distinct(Upto("out", read.from["out"]), read.got["in"]), Target("out"))
    BY <2>2, OfTheChain DEF EvmRead, HadOf
  <2> HIDE DEF in
  <2>5. /\ read.got["in"] = in
        /\ read.got["out"] =
             IF Cardinality(in) = ReadLimit THEN {}
             ELSE Newest(Distinct(Upto("out", read.from["out"]), in), Target("out"))
    BY <2>1, <2>3, <2>4
  <2> QED
    BY <1>2, <2>5 DEF in
<1>3. CASE readKind = "solana"
  <2>1. SolanaInv(chain, read)
    BY <1>1, <1>3 DEF KindInv
  <2>2. read.listed = {} /\ read.got["all"] = SolanaListed(chain, read) \ read.absent
    BY <2>1 DEF SolanaInv
  <2>3. SolanaListed(chain, read) = Newest({i \in BeforeOlder(Upto("all", read.from["all"])) : ~Newer(i)}, ReadLimit)
    BY OfTheChain DEF SolanaListed
  <2> QED
    BY <1>3, <2>2, <2>3
<1>4. CASE readKind = "web"
  <2>1. WebInv(chain, read)
    BY <1>1, <1>4 DEF KindInv
  <2>2. WebRead(chain, read, "in") /\ WebRead(chain, read, "out") /\ read.open = {}
    BY <2>1 DEF WebInv
  <2>3. ASSUME NEW way \in {"in", "out"}, read.pages[way] < PageLimit,
               NEW i \in Upto(way, read.from[way]), chain[i].day >= FirstDay
        PROVE  \E j \in WebKept : chain[j].key = chain[i].key
    <3>1. WebRead(chain, read, way) /\ i \in UptoIn(chain, way, read.from[way])
      BY <2>2, <2>3, OfTheChain
    <3>2. i \in read.got[way]
      BY <2>2, <2>3, <3>1 DEF WebRead
    <3> QED
      BY <1>1, <2>3, <3>2, WebKeepsKeys
  <2> QED
    BY <1>4, <2>3
<1> QED
  BY <1>1, <1>2, <1>3, <1>4

(* The read's invariant is of the types that the runs check. *)
LEMMA ReadsAreTyped ==
    ReadInv => ReadsTypeOK
<1> SUFFICES ASSUME ReadInv PROVE ReadsTypeOK
  OBVIOUS
<1>1. ReadTypes /\ KindInv(readKind, chain, read)
  BY DEF ReadInv
<1>2. /\ readKind \in Kinds /\ readFailures \in 0..MaxReadFailures /\ Len(chain) <= MaxChain
      /\ read \in Reads /\ chain \in Seq(Transfers)
      /\ \A w \in Ways : read.got[w] \in SUBSET (1..Len(chain)) /\ read.cursor[w] <= Len(chain)
  BY <1>1 DEF ReadTypes
<1>3. read.at \in Places /\ read.provider \in {"none", "alchemy", "helius"} /\ read.open \in SUBSET Ways
  BY <1>2 DEF Reads
<1>4. ASSUME NEW w \in Ways, readKind = "web" PROVE read.pages[w] <= PageLimit
  <2>1. WebInv(chain, read) /\ PageLimit \in Nat
    BY <1>1, <1>4, ReadsAssumption DEF KindInv
  <2>2. CASE w = "all"
    BY <2>1, <2>2 DEF WebInv
  <2>3. CASE w # "all" /\ read.at = "idle"
    <3>1. read.pages[w] = 0
      BY <2>1, <2>3 DEF WebInv
    <3> QED
      BY <2>1, <3>1
  <2>4. CASE w # "all" /\ read.at \in {"pages", "done"}
    <3>1. WebRead(chain, read, w)
      BY <2>1, <2>4 DEF WebInv, Ways
    <3> QED
      BY <3>1 DEF WebRead
  <2> QED
    BY <1>3, <2>1, <2>2, <2>3, <2>4 DEF WebInv, Places
<1>5. DOMAIN chain = 1..Len(chain)
  BY <1>2
<1> QED
  BY <1>2, <1>3, <1>4, <1>5 DEF ReadsTypeOK, Places

(* However a provider's pages are cut, whatever arrives meanwhile and after any failures, a read
   that ends is what one page without end, asked for at once, would have been
   (alchemy_client.go, helius_client.go, alchemy-provider.ts). *)
THEOREM ReadsHold == ReadsSpec => [](ReadsTypeOK /\ ReadIsWhole)
<1>1. ReadsSpec => []ReadInv
  BY ReadsBegun, ReadsStep, PTL DEF ReadsSpec
<1>2. ReadInv => ReadsTypeOK /\ ReadIsWhole
  BY DoneIsWhole, ReadsAreTyped
<1> QED
  BY <1>1, <1>2, PTL
-----------------------------------------------------------------------------
USE BatchAssumption, BoundsAssumption

(* What type correctness rests on: a batch that writes has something to write. *)
TypeInv ==
    /\ TypeOK
    /\ \A b \in Batches : pc[b] \in {"stats", "overwrite"} => mine[b] # <<>>

LocalTypes ==
    /\ pc \in [Batches -> Labels]
    /\ at \in [Batches -> Nat \ {0}]
    /\ mine \in [Batches -> Seq(Txs)]
    /\ seen \in [Batches -> SUBSET Txs]

(* The position of b is inside the list that its call goes through. *)
Inside(b) ==
    /\ pc[b] = "claim" => at[b] <= Len(Items[b])
    /\ pc[b] \in {"upsert", "graph", "release"} => at[b] <= Len(mine[b])
    /\ pc[b] \in {"stats", "overwrite"} => mine[b] # <<>>

(* What b, or what its environment, may do. *)
ActionOf(b) ==
    Step(b) \/ Redeliver(b) \/ StepFails(b) \/ EnsureWalletFails(b)
    \/ NormalizeFails(b) \/ RedisFails(b) \/ Cancel(b) \/ Crash(b)

(* The other batches keep their copies. *)
OthersKept(b) ==
    \A c \in Batches \ {b} :
        pc'[c] = pc[c] /\ at'[c] = at[c] /\ mine'[c] = mine[c]
-----------------------------------------------------------------------------
(* A call is about a transaction. *)
LEMMA CurrentType ==
    ASSUME TypeInv, NEW b \in Batches,
           pc[b] \in {"claim", "upsert", "graph", "release"}
    PROVE  /\ Current(b) \in Txs
           /\ pc[b] # "claim" => at[b] \in DOMAIN mine[b] /\ Current(b) = mine[b][at[b]]
<1> USE DEF TypeInv, TypeOK
<1>1. at[b] \in Nat \ {0} /\ mine[b] \in Seq(Txs) /\ Items[b] \in Seq(Txs)
  OBVIOUS
<1>2. CASE pc[b] = "claim"
  BY <1>1, <1>2 DEF Current
<1>3. CASE pc[b] \in {"upsert", "graph", "release"}
  BY <1>1, <1>3 DEF Current
<1> QED
  BY <1>2, <1>3

(* What a call does to the stores keeps their types. *)
LEMMA AppliedTypes ==
    ASSUME TypeInv, NEW b \in Batches, UNCHANGED stores \/ Applied(b)
    PROVE  /\ claimed' \in SUBSET Txs /\ stored' \in SUBSET Txs
           /\ stats' \in SUBSET Txs /\ overwritten' \in SUBSET Txs
           /\ graph' \in [Txs -> Nat]
<1> USE DEF TypeInv
<1>1. CASE UNCHANGED stores
  BY <1>1 DEF stores, TypeOK
<1>2. CASE Applied(b)
  <2>1. claimed' \in SUBSET Txs
    BY <1>2, CurrentType DEF Applied, TypeOK
  <2>2. stored' \in SUBSET Txs
    BY <1>2, CurrentType DEF Applied, TypeOK
  <2>3. stats' \in SUBSET Txs /\ overwritten' \in SUBSET Txs
    BY <1>2 DEF Applied, TypeOK
  <2>4. graph' \in [Txs -> Nat]
    BY <1>2, CurrentType DEF Applied, TypeOK
  <2> QED
    BY <2>1, <2>2, <2>3, <2>4
<1> QED
  BY <1>1, <1>2

(* A list that is not empty has a first element. *)
LEMMA NonEmptyLen ==
    ASSUME NEW S, NEW s \in Seq(S), s # <<>>
    PROVE  Len(s) \in Nat /\ 1 <= Len(s)
OBVIOUS

(* A batch that goes to another call starts at its first element. *)
LEMMA GotoTypes ==
    ASSUME TypeInv, NEW b \in Batches, NEW l \in Labels, Goto(b, l)
    PROVE  /\ pc' \in [Batches -> Labels] /\ at' \in [Batches -> Nat \ {0}]
           /\ pc'[b] = l /\ at'[b] = 1
           /\ \A c \in Batches \ {b} : pc'[c] = pc[c] /\ at'[c] = at[c]
BY DEF TypeInv, TypeOK, Goto

(* A loop stays inside its list, or goes on to what follows it. *)
LEMMA LoopTypes ==
    ASSUME TypeInv, NEW b \in Batches, NEW n \in Nat, NEW l \in Labels, Loop(b, n, l)
    PROVE  /\ pc' \in [Batches -> Labels] /\ at' \in [Batches -> Nat \ {0}]
           /\ \/ at[b] < n /\ pc'[b] = pc[b] /\ at'[b] = at[b] + 1
              \/ at[b] >= n /\ pc'[b] = l /\ at'[b] = 1
           /\ \A c \in Batches \ {b} : pc'[c] = pc[c] /\ at'[c] = at[c]
<1>0. pc \in [Batches -> Labels] /\ at \in [Batches -> Nat \ {0}] /\ at[b] \in Nat \ {0}
  BY DEF TypeInv, TypeOK
<1>1. CASE at[b] < n
  <2>1. at' = [at EXCEPT ![b] = @ + 1] /\ pc' = pc
    BY <1>1 DEF Loop
  <2>2. at[b] + 1 \in Nat \ {0}
    BY <1>0
  <2> QED
    BY <1>0, <1>1, <2>1, <2>2
<1>2. CASE ~(at[b] < n)
  <2>1. Goto(b, l) /\ at[b] >= n
    BY <1>0, <1>2 DEF Loop
  <2> QED
    BY <2>1, GotoTypes
<1> QED
  BY <1>1, <1>2

(* A batch that gives up forgets its keys and keeps types. *)
LEMMA GiveUpTypes ==
    ASSUME TypeInv, NEW b \in Batches, NEW stopped, GiveUp(b, stopped)
    PROVE  /\ pc' \in [Batches -> Labels] /\ at' \in [Batches -> Nat \ {0}]
           /\ mine' \in [Batches -> Seq(Txs)] /\ expired' \in SUBSET Batches
           /\ pc'[b] \in {"waiting", "dropped"} /\ at'[b] = 1 /\ mine'[b] = <<>>
           /\ OthersKept(b)
<1>1. PICK l \in {"waiting", "dropped"} : Goto(b, l)
  BY DEF GiveUp
<1>2. l \in Labels
  BY DEF Labels
<1>3. mine' = [mine EXCEPT ![b] = <<>>] /\ expired' = expired \ {b}
  BY DEF GiveUp
<1> QED
  BY <1>1, <1>2, <1>3, GotoTypes DEF TypeInv, TypeOK, OthersKept

(* The keys left behind are transactions. *)
LEMMA LeavesKeysTypes ==
    ASSUME TypeInv, NEW b \in Batches, LeavesKeys(b), claimed' \in SUBSET Txs
    PROVE  abandoned' \in SUBSET Txs
BY DEF TypeInv, TypeOK, LeavesKeys

(* A claim adds the transaction to those of b, or skips it. *)
LEMMA ClaimTypes ==
    ASSUME TypeInv, NEW b \in Batches, Claim(b)
    PROVE  /\ mine' \in [Batches -> Seq(Txs)]
           /\ mine'[b] = IF Current(b) \in claimed THEN mine[b]
                         ELSE Append(mine[b], Current(b))
           /\ \A c \in Batches \ {b} : mine'[c] = mine[c]
           /\ AfterClaims(b, mine'[b]) \in Labels
           /\ AfterClaims(b, mine'[b]) = "upsert" <=> mine'[b] # <<>>
           /\ Len(Items[b]) \in Nat
<1>1. Current(b) \in Txs
  BY CurrentType DEF Claim
<1>2. mine \in [Batches -> Seq(Txs)]
  BY DEF TypeInv, TypeOK
<1>3. mine' \in [Batches -> Seq(Txs)]
  BY <1>1, <1>2 DEF Claim
<1>4. /\ mine'[b] = IF Current(b) \in claimed THEN mine[b]
                    ELSE Append(mine[b], Current(b))
      /\ \A c \in Batches \ {b} : mine'[c] = mine[c]
  BY <1>2 DEF Claim
<1>5. /\ AfterClaims(b, mine'[b]) \in Labels
      /\ AfterClaims(b, mine'[b]) = "upsert" <=> mine'[b] # <<>>
  BY DEF AfterClaims, Labels, Running
<1> QED
  BY <1>3, <1>4, <1>5

(* Whatever b does, its own copies keep their types and the others theirs. *)
LEMMA LocalStep ==
    ASSUME TypeInv, NEW b \in Batches, ActionOf(b)
    PROVE  LocalTypes' /\ OthersKept(b) /\ Inside(b)' /\ expired' \in SUBSET Batches
<1> USE DEF LocalTypes, OthersKept, Inside
<1>0. /\ LocalTypes /\ Inside(b) /\ expired \in SUBSET Batches
      /\ Len(mine[b]) \in Nat /\ Len(Items[b]) \in Nat /\ 1 <= Len(Items[b])
      /\ stored \in SUBSET Txs
  <2>1. Len(Items[b]) \in Nat /\ 1 <= Len(Items[b])
    BY NonEmptyLen
  <2> QED
    BY <2>1 DEF TypeInv, TypeOK
<1>1. CASE Begin(b)
  BY <1>0, <1>1, GotoTypes DEF Begin, Labels, Running
<1>2. CASE Claim(b)
  <2>1. /\ mine' \in [Batches -> Seq(Txs)]
        /\ \A c \in Batches \ {b} : mine'[c] = mine[c]
        /\ AfterClaims(b, mine'[b]) \in Labels
        /\ AfterClaims(b, mine'[b]) \in {"upsert", "finish", "expand"}
        /\ AfterClaims(b, mine'[b]) = "upsert" => 1 <= Len(mine'[b])
    <3>1. mine'[b] \in Seq(Txs)
      BY <1>2, ClaimTypes
    <3> QED
      BY <1>2, <3>1, ClaimTypes, NonEmptyLen DEF AfterClaims
  <2>2. /\ pc[b] = "claim" /\ seen' = seen /\ expired' = expired
        /\ Loop(b, Len(Items[b]), AfterClaims(b, mine'[b]))
    BY <1>2 DEF Claim
  <2>3. /\ pc' \in [Batches -> Labels] /\ at' \in [Batches -> Nat \ {0}]
        /\ \A c \in Batches \ {b} : pc'[c] = pc[c] /\ at'[c] = at[c]
        /\ \/ pc'[b] = "claim" /\ at'[b] = at[b] + 1 /\ at[b] < Len(Items[b])
           \/ pc'[b] = AfterClaims(b, mine'[b]) /\ at'[b] = 1
    BY <1>0, <2>1, <2>2, LoopTypes
  <2>4. Inside(b)'
    BY <1>0, <2>1, <2>3
  <2> QED
    BY <1>0, <2>1, <2>2, <2>3, <2>4
<1>3. CASE Upsert(b)
  BY <1>0, <1>3, LoopTypes DEF Upsert, Labels, Running
<1>4. CASE RefreshStats(b)
  BY <1>0, <1>4, GotoTypes DEF RefreshStats, Labels, Running
<1>5. CASE OverwriteStats(b)
  BY <1>0, <1>5, GotoTypes DEF OverwriteStats, Labels, Running
<1>6. CASE Materialize(b)
  <2>1. AfterGraph(b) \in {"finish", "expand"} /\ AfterGraph(b) \in Labels
    BY DEF AfterGraph, Labels, Running
  <2> QED
    BY <1>0, <1>6, <2>1, LoopTypes DEF Materialize
<1>7. CASE Expand(b)
  BY <1>0, <1>7, GotoTypes DEF Expand, Labels, Running
<1>8. CASE Finish(b)
  BY <1>0, <1>8, GotoTypes DEF Finish, Labels, Running
<1>9. CASE Release(b)
  <2>1. CASE at[b] < Len(mine[b])
    <3>1. /\ at' = [at EXCEPT ![b] = @ + 1] /\ pc' = pc /\ mine' = mine
          /\ seen' = seen /\ expired' = expired /\ pc[b] = "release"
      BY <1>9, <2>1 DEF Release
    <3>2. at[b] + 1 \in Nat \ {0} /\ at[b] + 1 <= Len(mine[b])
      BY <1>0, <2>1
    <3>3. /\ at' \in [Batches -> Nat \ {0}] /\ at'[b] = at[b] + 1
          /\ \A c \in Batches \ {b} : at'[c] = at[c]
      BY <1>0, <3>1, <3>2
    <3> QED
      BY <1>0, <3>1, <3>2, <3>3
  <2>2. CASE ~(at[b] < Len(mine[b]))
    BY <1>0, <1>9, <2>2, GiveUpTypes DEF Release
  <2> QED
    BY <2>1, <2>2
<1>10. CASE ReleaseCancelled(b)
  BY <1>0, <1>10, GiveUpTypes DEF ReleaseCancelled
<1>11. CASE Redeliver(b)
  BY <1>0, <1>11, GotoTypes DEF Redeliver, Labels, Running
<1>12. CASE StepFails(b)
  <2>1. CASE Releases(b) /\ mine[b] # <<>>
    BY <1>0, <1>12, <2>1, GotoTypes DEF StepFails, Labels, Running
  <2>2. CASE ~(Releases(b) /\ mine[b] # <<>>)
    BY <1>0, <1>12, <2>2, GiveUpTypes DEF StepFails
  <2> QED
    BY <2>1, <2>2
<1>13. CASE EnsureWalletFails(b)
  <2>1. Current(b) \in Txs
    BY <1>13, CurrentType DEF EnsureWalletFails
  <2>2. /\ mine' \in [Batches -> Seq(Txs)] /\ Len(mine'[b]) = Len(mine[b]) + 1
        /\ \A c \in Batches \ {b} : mine'[c] = mine[c]
    BY <1>0, <1>13, <2>1 DEF EnsureWalletFails
  <2>3. Goto(b, "release") /\ seen' = seen /\ expired' = expired
    BY <1>13 DEF EnsureWalletFails
  <2> QED
    BY <1>0, <2>2, <2>3, GotoTypes DEF Labels, Running
<1>14. CASE NormalizeFails(b) \/ RedisFails(b)
  BY <1>0, <1>14, GiveUpTypes DEF NormalizeFails, RedisFails
<1>15. CASE Cancel(b)
  <2>1. CASE Releases(b) /\ mine[b] # <<>>
    BY <1>0, <1>15, <2>1, GotoTypes DEF Cancel, Labels, Running
  <2>2. CASE ~(Releases(b) /\ mine[b] # <<>>)
    BY <1>0, <1>15, <2>2, GiveUpTypes DEF Cancel
  <2> QED
    BY <2>1, <2>2
<1>16. CASE Crash(b)
  BY <1>0, <1>16, GotoTypes DEF Crash, Labels, Running
<1> QED
  BY <1>1, <1>2, <1>3, <1>4, <1>5, <1>6, <1>7, <1>8, <1>9, <1>10, <1>11, <1>12, <1>13,
     <1>14, <1>15, <1>16 DEF ActionOf, Step

(* Every call either leaves the stores alone or has its effect on them, and every
   failure is counted. *)
LEMMA SharedStep ==
    ASSUME TypeInv, NEW b \in Batches, ActionOf(b)
    PROVE  /\ UNCHANGED stores \/ Applied(b)
           /\ \/ failures' = failures
              \/ failures' = failures + 1 /\ failures < MaxFailures
           /\ \/ redeliveries' = redeliveries
              \/ redeliveries' = redeliveries + 1 /\ redeliveries < MaxRedeliveries
           /\ UNCHANGED abandoned \/ LeavesKeys(b)
<1> USE DEF counters
<1>1. CASE Step(b)
  BY <1>1 DEF Step, Begin, Claim, Upsert, RefreshStats, OverwriteStats, Materialize,
     Expand, Finish, Release, ReleaseCancelled
<1>2. CASE Redeliver(b) \/ EnsureWalletFails(b) \/ NormalizeFails(b) \/ RedisFails(b)
  BY <1>2 DEF Redeliver, EnsureWalletFails, NormalizeFails, RedisFails, CountFailure
<1>3. CASE StepFails(b)
  BY <1>3 DEF StepFails, CountFailure
<1>4. CASE Cancel(b) \/ Crash(b)
  BY <1>4 DEF Cancel, Crash, CountFailure
<1> QED
  BY <1>1, <1>2, <1>3, <1>4 DEF ActionOf

(* Every step keeps the type invariant. *)
LEMMA TypeStep == TypeInv /\ [Next]_vars => TypeInv'
<1> SUFFICES ASSUME TypeInv, [Next]_vars
             PROVE  TypeInv'
  OBVIOUS
<1>1. CASE UNCHANGED vars
  BY <1>1 DEF vars, TypeInv, TypeOK
<1>2. ASSUME NEW b \in Batches, ActionOf(b)
      PROVE  TypeInv'
  <2>1. LocalTypes' /\ OthersKept(b) /\ Inside(b)' /\ expired' \in SUBSET Batches
    BY <1>2, LocalStep
  <2>2. UNCHANGED stores \/ Applied(b)
    BY <1>2, SharedStep
  <2>3. /\ claimed' \in SUBSET Txs /\ stored' \in SUBSET Txs
        /\ stats' \in SUBSET Txs /\ overwritten' \in SUBSET Txs
        /\ graph' \in [Txs -> Nat]
    BY <2>2, AppliedTypes
  <2>4. failures' \in 0..MaxFailures /\ redeliveries' \in 0..MaxRedeliveries
    <3>1. /\ failures \in 0..MaxFailures /\ redeliveries \in 0..MaxRedeliveries
          /\ MaxFailures \in Nat /\ MaxRedeliveries \in Nat
      BY DEF TypeInv, TypeOK
    <3>2. failures' = failures \/ (failures' = failures + 1 /\ failures < MaxFailures)
      BY <1>2, SharedStep
    <3>3. \/ redeliveries' = redeliveries
          \/ redeliveries' = redeliveries + 1 /\ redeliveries < MaxRedeliveries
      BY <1>2, SharedStep
    <3> QED
      BY <3>1, <3>2, <3>3
  <2>5. abandoned' \in SUBSET Txs
    BY <1>2, <2>3, SharedStep, LeavesKeysTypes DEF TypeInv, TypeOK
  <2>6. \A c \in Batches : Inside(c)'
    <3> SUFFICES ASSUME NEW c \in Batches, c # b PROVE Inside(c)'
      BY <2>1
    <3>1. pc'[c] = pc[c] /\ at'[c] = at[c] /\ mine'[c] = mine[c]
      BY <2>1 DEF OthersKept
    <3>2. Inside(c)
      BY DEF Inside, TypeInv, TypeOK
    <3> QED
      BY <3>1, <3>2 DEF Inside
  <2> QED
    BY <2>1, <2>3, <2>4, <2>5, <2>6 DEF TypeInv, TypeOK, LocalTypes, Inside
<1> QED
  BY <1>1, <1>2 DEF Next, ActionOf

(* The type invariant holds in every reachable state. *)
LEMMA TypeInvariant == Spec => []TypeInv
<1>1. Init => TypeInv
  BY DEF Init, TypeInv, TypeOK, Labels
<1> QED
  BY <1>1, TypeStep, PTL DEF Spec

(* Types are kept: no call is made about a transaction that is not there. *)
THEOREM TypesHold == Spec => []TypeOK
<1>1. TypeInv => TypeOK
  BY DEF TypeInv
<1> QED
  BY <1>1, TypeInvariant, PTL
-----------------------------------------------------------------------------
(* The element of mine[b] at i is a key that b holds. *)
Held(b, i) == i \in DOMAIN mine[b] /\ (pc[b] = "release" => i >= at[b])

(* Held keys are claimed, and each is held by one batch at one place. *)
ClaimInv ==
    /\ \A b \in Batches, i \in Nat : Held(b, i) => mine[b][i] \in claimed
    /\ \A b, c \in Batches, i, j \in Nat :
          Held(b, i) /\ Held(c, j) /\ mine[b][i] = mine[c][j] => b = c /\ i = j

(* What a step of b does to what b holds: it adds nothing, or the key it claims. *)
KeepsHeld(b) ==
    \A i \in Nat : Held(b, i)' =>
        Held(b, i) /\ mine'[b][i] = mine[b][i] /\ mine'[b][i] \in claimed'

AddsHeld(b) ==
    /\ pc[b] = "claim"
    /\ Current(b) \notin claimed /\ Current(b) \in claimed'
    /\ mine'[b] = Append(mine[b], Current(b))
    /\ pc'[b] = "release" => at'[b] = 1

(* What a batch holds is at one of the positions it holds. *)
LEMMA HoldsHeld ==
    ASSUME TypeInv, NEW b \in Batches
    PROVE  \A x : x \in Holds(b) <=> \E i \in Nat : Held(b, i) /\ mine[b][i] = x
<1>1. mine[b] \in Seq(Txs)
  BY DEF TypeInv, TypeOK
<1>2. DOMAIN mine[b] \subseteq Nat
  BY <1>1
<1> QED
  BY <1>2 DEF Holds, Held

(* A key is set by a claim, and removed by a release of the batch that holds it. *)
LEMMA ClaimedEffect ==
    ASSUME TypeInv, NEW b \in Batches, UNCHANGED stores \/ Applied(b)
    PROVE  /\ pc[b] \notin {"claim", "release"} => claimed' = claimed
           /\ pc[b] # "release" => claimed \subseteq claimed'
           /\ \A x \in claimed \ claimed' :
                 pc[b] = "release" /\ at[b] \in Nat /\ Held(b, at[b]) /\ x = mine[b][at[b]]
           /\ \A x \in claimed' \ claimed : pc[b] = "claim" /\ x = Current(b)
<1>1. CASE UNCHANGED stores
  BY <1>1 DEF stores
<1>2. CASE Applied(b)
  <2>1. CASE pc[b] = "release"
    <3>1. claimed' = claimed \ {Current(b)}
      BY <1>2, <2>1 DEF Applied
    <3>2. at[b] \in DOMAIN mine[b] /\ Current(b) = mine[b][at[b]] /\ at[b] \in Nat
      BY <2>1, CurrentType DEF TypeInv, TypeOK
    <3> QED
      BY <2>1, <3>1, <3>2 DEF Held
  <2>2. CASE pc[b] # "release"
    BY <1>2, <2>2 DEF Applied
  <2> QED
    BY <2>1, <2>2
<1> QED
  BY <1>1, <1>2

(* A batch whose list is empty, or that releases from its start, holds all its list. *)
LEMMA HeldSame ==
    ASSUME NEW b \in Batches, mine'[b] = mine[b],
           pc'[b] # "release" \/ at'[b] = 1, pc[b] # "release",
           TypeInv, claimed \subseteq claimed', ClaimInv
    PROVE  KeepsHeld(b)
<1> SUFFICES ASSUME NEW i \in Nat, Held(b, i)'
             PROVE  Held(b, i) /\ mine'[b][i] = mine[b][i] /\ mine'[b][i] \in claimed'
  BY DEF KeepsHeld
<1>1. Held(b, i)
  BY DEF Held
<1> QED
  BY <1>1 DEF ClaimInv

(* A batch that has given up holds nothing. *)
LEMMA HeldNone ==
    ASSUME NEW b \in Batches, mine'[b] = <<>>
    PROVE  KeepsHeld(b)
<1>1. \A i \in Nat : ~Held(b, i)'
  BY DEF Held
<1> QED
  BY <1>1 DEF KeepsHeld

(* What b holds after its step it held before, or has just claimed. *)
LEMMA HeldStep ==
    ASSUME TypeInv, ClaimInv, NEW b \in Batches, ActionOf(b)
    PROVE  KeepsHeld(b) \/ AddsHeld(b)
<1>0. /\ UNCHANGED stores \/ Applied(b)
      /\ mine \in [Batches -> Seq(Txs)] /\ pc \in [Batches -> Labels]
      /\ at \in [Batches -> Nat \ {0}]
      /\ pc[b] # "release" => claimed \subseteq claimed'
  <2>1. UNCHANGED stores \/ Applied(b)
    BY SharedStep
  <2>2. pc[b] # "release" => claimed \subseteq claimed'
    BY <2>1, ClaimedEffect
  <2> QED
    BY <2>1, <2>2 DEF TypeInv, TypeOK
<1>1. CASE Begin(b) \/ RefreshStats(b) \/ OverwriteStats(b) \/ Expand(b) \/ Redeliver(b)
  <2>1. mine'[b] = mine[b] /\ pc[b] # "release" /\ pc'[b] # "release"
    BY <1>0, <1>1 DEF Begin, RefreshStats, OverwriteStats, Expand, Redeliver, Goto
  <2> QED
    BY <1>0, <2>1, HeldSame
<1>2. CASE Claim(b)
  <2>1. pc[b] = "claim" /\ pc'[b] # "release"
    <3>1. pc[b] = "claim" /\ Loop(b, Len(Items[b]), AfterClaims(b, mine'[b]))
      BY <1>2 DEF Claim
    <3>2. AfterClaims(b, mine'[b]) # "release"
      BY DEF AfterClaims
    <3> QED
      BY <1>0, <3>1, <3>2 DEF Loop, Goto
  <2>2. CASE Current(b) \in claimed
    <3>1. mine'[b] = mine[b]
      BY <1>2, <2>2, ClaimTypes
    <3> QED
      BY <1>0, <2>1, <3>1, HeldSame
  <2>3. CASE Current(b) \notin claimed
    <3>1. mine'[b] = Append(mine[b], Current(b))
      BY <1>2, <2>3, ClaimTypes
    <3>2. Current(b) \in claimed'
      BY <1>2, <2>1 DEF Claim, Applied
    <3> QED
      BY <2>1, <2>3, <3>1, <3>2 DEF AddsHeld
  <2> QED
    BY <2>2, <2>3
<1>3. CASE Upsert(b) \/ Materialize(b)
  <2>1. AfterGraph(b) # "release"
    BY DEF AfterGraph
  <2>2. mine'[b] = mine[b] /\ pc[b] # "release" /\ pc'[b] # "release"
    BY <1>0, <1>3, <2>1 DEF Upsert, Materialize, Loop, Goto
  <2> QED
    BY <1>0, <2>2, HeldSame
<1>4. CASE Finish(b) \/ Crash(b)
  <2>1. mine'[b] = <<>>
    BY <1>0, <1>4 DEF Finish, Crash
  <2> QED
    BY <2>1, HeldNone
<1>5. CASE Release(b)
  <2>1. CASE at[b] < Len(mine[b])
    <3>1. /\ pc[b] = "release" /\ pc'[b] = "release" /\ mine'[b] = mine[b]
          /\ at'[b] = at[b] + 1 /\ claimed' = claimed \ {Current(b)}
      BY <1>0, <1>5, <2>1 DEF Release, Applied
    <3>2. at[b] \in DOMAIN mine[b] /\ Current(b) = mine[b][at[b]] /\ at[b] \in Nat
      BY <1>0, <3>1, CurrentType
    <3> SUFFICES ASSUME NEW i \in Nat, Held(b, i)'
                 PROVE  Held(b, i) /\ mine'[b][i] = mine[b][i] /\ mine'[b][i] \in claimed'
      BY DEF KeepsHeld
    <3>3. i \in DOMAIN mine[b] /\ i >= at[b] + 1
      BY <3>1 DEF Held
    <3>4. Held(b, i) /\ Held(b, at[b]) /\ i # at[b]
      BY <3>1, <3>2, <3>3 DEF Held
    <3> QED
      BY <3>1, <3>2, <3>4 DEF ClaimInv
  <2>2. CASE ~(at[b] < Len(mine[b]))
    BY <1>5, <2>2, GiveUpTypes, HeldNone DEF Release
  <2> QED
    BY <2>1, <2>2
<1>6. CASE ReleaseCancelled(b) \/ NormalizeFails(b) \/ RedisFails(b)
  BY <1>6, GiveUpTypes, HeldNone DEF ReleaseCancelled, NormalizeFails, RedisFails
<1>7. CASE StepFails(b) \/ Cancel(b)
  <2>1. CASE Releases(b) /\ mine[b] # <<>>
    <3>1. Goto(b, "release") /\ mine' = mine /\ pc[b] # "release"
      BY <1>7, <2>1 DEF StepFails, Cancel, Releases
    <3>2. at'[b] = 1
      BY <1>0, <3>1 DEF Goto
    <3> QED
      BY <1>0, <3>1, <3>2, HeldSame
  <2>2. CASE ~(Releases(b) /\ mine[b] # <<>>)
    BY <1>7, <2>2, GiveUpTypes, HeldNone DEF StepFails, Cancel
  <2> QED
    BY <2>1, <2>2
<1>8. CASE EnsureWalletFails(b)
  BY <1>0, <1>8 DEF EnsureWalletFails, AddsHeld, Goto, Applied
<1> QED
  BY <1>1, <1>2, <1>3, <1>4, <1>5, <1>6, <1>7, <1>8 DEF ActionOf, Step

(* The other batches hold what they held, and nobody takes their keys away. *)
LEMMA OthersHold ==
    ASSUME TypeInv, ClaimInv, NEW b \in Batches, ActionOf(b)
    PROVE  \A c \in Batches \ {b}, i \in Nat :
              /\ Held(c, i)' <=> Held(c, i)
              /\ mine'[c][i] = mine[c][i]
              /\ Held(c, i) => mine[c][i] \in claimed'
<1> SUFFICES ASSUME NEW c \in Batches \ {b}, NEW i \in Nat
             PROVE  /\ Held(c, i)' <=> Held(c, i)
                    /\ mine'[c][i] = mine[c][i]
                    /\ Held(c, i) => mine[c][i] \in claimed'
  OBVIOUS
<1>1. pc'[c] = pc[c] /\ at'[c] = at[c] /\ mine'[c] = mine[c]
  BY LocalStep DEF OthersKept
<1>2. Held(c, i)' <=> Held(c, i)
  BY <1>1 DEF Held
<1>3. ASSUME Held(c, i), mine[c][i] \notin claimed'
      PROVE  FALSE
  <2>1. mine[c][i] \in claimed \ claimed'
    BY <1>3 DEF ClaimInv
  <2>2. UNCHANGED stores \/ Applied(b)
    BY SharedStep
  <2>3. at[b] \in Nat /\ Held(b, at[b]) /\ mine[c][i] = mine[b][at[b]]
    BY <2>1, <2>2, ClaimedEffect
  <2> QED
    BY <1>3, <2>3 DEF ClaimInv
<1> QED
  BY <1>1, <1>2, <1>3

(* What b holds after its step is claimed, and none of it is held by another. *)
LEMMA OwnHeld ==
    ASSUME TypeInv, ClaimInv, NEW b \in Batches, ActionOf(b)
    PROVE  /\ \A i \in Nat : Held(b, i)' => mine'[b][i] \in claimed'
           /\ \A i, j \in Nat :
                 Held(b, i)' /\ Held(b, j)' /\ mine'[b][i] = mine'[b][j] => i = j
           /\ \A c \in Batches \ {b}, i, j \in Nat :
                 Held(b, i)' /\ Held(c, j) => mine'[b][i] # mine[c][j]
<1>1. CASE KeepsHeld(b)
  BY <1>1 DEF KeepsHeld, ClaimInv
<1>2. CASE AddsHeld(b)
  <2>1. mine[b] \in Seq(Txs) /\ Current(b) \in Txs
    BY <1>2, CurrentType DEF AddsHeld, TypeInv, TypeOK
  <2>2. /\ DOMAIN mine'[b] = 1..(Len(mine[b]) + 1)
        /\ mine'[b][Len(mine[b]) + 1] = Current(b)
        /\ \A i \in 1..Len(mine[b]) : mine'[b][i] = mine[b][i]
        /\ DOMAIN mine[b] = 1..Len(mine[b]) /\ Len(mine[b]) \in Nat
    BY <1>2, <2>1 DEF AddsHeld
  <2>3. \A i \in 1..Len(mine[b]) : Held(b, i)
    BY <1>2, <2>2 DEF AddsHeld, Held
  <2>4. \A i \in Nat : Held(b, i)' =>
           \/ Held(b, i) /\ mine'[b][i] = mine[b][i]
           \/ i = Len(mine[b]) + 1 /\ mine'[b][i] = Current(b)
    BY <2>2, <2>3 DEF Held
  <2>5. claimed \subseteq claimed'
    BY <1>2, SharedStep, ClaimedEffect DEF AddsHeld
  <2>6. \A c \in Batches, j \in Nat : Held(c, j) => mine[c][j] # Current(b)
    BY <1>2 DEF AddsHeld, ClaimInv
  <2>7. \A i \in Nat : Held(b, i)' => mine'[b][i] \in claimed'
    BY <1>2, <2>4, <2>5 DEF AddsHeld, ClaimInv
  <2>8. \A i, j \in Nat :
           Held(b, i)' /\ Held(b, j)' /\ mine'[b][i] = mine'[b][j] => i = j
    BY <2>4, <2>6 DEF ClaimInv
  <2>9. \A c \in Batches \ {b}, i, j \in Nat :
           Held(b, i)' /\ Held(c, j) => mine'[b][i] # mine[c][j]
    BY <2>4, <2>6 DEF ClaimInv
  <2> QED
    BY <2>7, <2>8, <2>9
<1> QED
  BY <1>1, <1>2, HeldStep

(* Every step keeps the claims exclusive. *)
LEMMA ClaimStep ==
    ASSUME TypeInv, ClaimInv, NEW b \in Batches, ActionOf(b)
    PROVE  ClaimInv'
<1>1. ASSUME NEW c \in Batches, NEW i \in Nat, Held(c, i)'
      PROVE  mine'[c][i] \in claimed'
  <2>1. CASE c = b
    BY <1>1, <2>1, OwnHeld
  <2>2. CASE c # b
    BY <1>1, <2>2, OthersHold
  <2> QED
    BY <2>1, <2>2
<1>2. ASSUME NEW c \in Batches, NEW d \in Batches, NEW i \in Nat, NEW j \in Nat,
             Held(c, i)', Held(d, j)', mine'[c][i] = mine'[d][j]
      PROVE  c = d /\ i = j
  <2>1. CASE c # b /\ d # b
    <3>1. Held(c, i) /\ Held(d, j) /\ mine[c][i] = mine[d][j]
      BY <1>2, <2>1, OthersHold
    <3> QED
      BY <3>1 DEF ClaimInv
  <2>2. CASE c = b /\ d = b
    BY <1>2, <2>2, OwnHeld
  <2>3. CASE c = b /\ d # b
    <3>1. Held(d, j) /\ mine'[d][j] = mine[d][j]
      BY <1>2, <2>3, OthersHold
    <3> QED
      BY <1>2, <2>3, <3>1, OwnHeld
  <2>4. CASE c # b /\ d = b
    <3>1. Held(c, i) /\ mine'[c][i] = mine[c][i]
      BY <1>2, <2>4, OthersHold
    <3> QED
      BY <1>2, <2>4, <3>1, OwnHeld
  <2> QED
    BY <2>1, <2>2, <2>3, <2>4
<1> QED
  BY <1>1, <1>2 DEF ClaimInv

(* The claims are exclusive in every reachable state. *)
LEMMA ClaimInvariant == Spec => [](TypeInv /\ ClaimInv)
<1>1. Init => ClaimInv
  <2> SUFFICES ASSUME Init PROVE ClaimInv
    OBVIOUS
  <2>1. \A b \in Batches, i \in Nat : ~Held(b, i)
    BY DEF Init, Held
  <2> QED
    BY <2>1 DEF ClaimInv
<1>2. TypeInv /\ ClaimInv /\ [Next]_vars => ClaimInv'
  <2> SUFFICES ASSUME TypeInv, ClaimInv, [Next]_vars
               PROVE  ClaimInv'
    OBVIOUS
  <2>1. CASE UNCHANGED vars
    BY <2>1 DEF vars, ClaimInv, Held
  <2>2. ASSUME NEW b \in Batches, ActionOf(b)
        PROVE  ClaimInv'
    BY <2>2, ClaimStep
  <2> QED
    BY <2>1, <2>2 DEF Next, ActionOf
<1> QED
  BY <1>1, <1>2, TypeInvariant, PTL DEF Spec

(* No transaction is in the hands of two batches, however many run and fail. *)
THEOREM ClaimsExclusive == Spec => []ExclusiveClaim
<1>1. TypeInv /\ ClaimInv => ExclusiveClaim
  <2> SUFFICES ASSUME TypeInv, ClaimInv, NEW b \in Batches, NEW c \in Batches, b # c,
                      NEW x \in Holds(b), x \in Holds(c)
               PROVE  FALSE
    BY DEF ExclusiveClaim
  <2>1. PICK i \in Nat : Held(b, i) /\ mine[b][i] = x
    BY HoldsHeld
  <2>2. PICK j \in Nat : Held(c, j) /\ mine[c][j] = x
    BY HoldsHeld
  <2> QED
    BY <2>1, <2>2 DEF ClaimInv
<1> QED
  BY <1>1, ClaimInvariant, PTL
-----------------------------------------------------------------------------
(* How far b has come with the rows of what it claimed. *)
Written(b) ==
    /\ pc[b] \in {"waiting", "done", "dropped"} => mine[b] = <<>>
    /\ pc[b] = "upsert" => \A i \in 1..(at[b] - 1) : mine[b][i] \in stored
    /\ pc[b] \in {"stats", "overwrite", "graph", "expand", "finish"} =>
          \A i \in DOMAIN mine[b] : mine[b][i] \in stored

WrittenInv == \A b \in Batches : Written(b)

StaysClaimed(x) == x \in stored \/ \E b \in Batches, i \in Nat : Held(b, i) /\ mine[b][i] = x

IngestInv ==
    /\ TypeInv /\ ClaimInv /\ WrittenInv
    /\ \A x \in claimed \ abandoned : StaysClaimed(x)

(* Rows are never removed. *)
LEMMA StoredGrows ==
    ASSUME NEW b, UNCHANGED stores \/ Applied(b)
    PROVE  stored \subseteq stored'
BY DEF stores, Applied

(* A batch past its upserts has its rows stored. *)
LEMMA WrittenStep ==
    ASSUME TypeInv, WrittenInv, NEW b \in Batches, ActionOf(b)
    PROVE  WrittenInv'
<1>0. /\ UNCHANGED stores \/ Applied(b)
      /\ stored \subseteq stored'
      /\ mine \in [Batches -> Seq(Txs)] /\ pc \in [Batches -> Labels]
      /\ at \in [Batches -> Nat \ {0}] /\ Written(b) /\ OthersKept(b)
  BY SharedStep, StoredGrows, LocalStep DEF TypeInv, TypeOK, WrittenInv
<1>1. ASSUME NEW c \in Batches \ {b}
      PROVE  Written(c)'
  <2>1. Written(c) /\ pc'[c] = pc[c] /\ at'[c] = at[c] /\ mine'[c] = mine[c]
    BY <1>0 DEF WrittenInv, OthersKept
  <2> QED
    BY <1>0, <2>1 DEF Written
<1>2. SUFFICES Written(b)'
  BY <1>1 DEF WrittenInv
<1>3. CASE Begin(b)
  BY <1>0, <1>3 DEF Begin, Goto, Written
<1>4. CASE Claim(b)
  <2>1. /\ \/ pc'[b] = "claim"
           \/ pc'[b] = AfterClaims(b, mine'[b]) /\ at'[b] = 1
    BY <1>0, <1>4 DEF Claim, Loop, Goto
  <2>2. CASE pc'[b] = "claim"
    BY <2>2 DEF Written
  <2>3. CASE pc'[b] = AfterClaims(b, mine'[b]) /\ at'[b] = 1 /\ mine'[b] # <<>>
    <3>1. pc'[b] = "upsert"
      BY <2>3 DEF AfterClaims
    <3> QED
      BY <2>3, <3>1 DEF Written
  <2>4. CASE pc'[b] = AfterClaims(b, mine'[b]) /\ mine'[b] = <<>>
    <3>1. DOMAIN mine'[b] = {} /\ pc'[b] # "upsert"
      BY <2>4 DEF AfterClaims
    <3> QED
      BY <2>4, <3>1 DEF Written
  <2> QED
    BY <2>1, <2>2, <2>3, <2>4
<1>5. CASE Upsert(b)
  <2>1. /\ pc[b] = "upsert" /\ mine' = mine /\ Applied(b)
        /\ Loop(b, Len(mine[b]), "stats")
    BY <1>5 DEF Upsert
  <2>2. mine[b][at[b]] \in stored' /\ at[b] \in DOMAIN mine[b]
    BY <2>1, CurrentType DEF Applied
  <2>3. \A i \in 1..at[b] : mine[b][i] \in stored'
    BY <1>0, <2>1, <2>2 DEF Written
  <2>4. CASE at[b] < Len(mine[b])
    <3>1. pc'[b] = "upsert" /\ at'[b] = at[b] + 1
      BY <1>0, <2>1, <2>4 DEF Loop
    <3>2. \A i \in 1..(at'[b] - 1) : mine'[b][i] \in stored'
      BY <1>0, <2>1, <2>3, <3>1
    <3> QED
      BY <3>1, <3>2 DEF Written
  <2>5. CASE ~(at[b] < Len(mine[b]))
    <3>1. pc'[b] = "stats"
      BY <1>0, <2>1, <2>5 DEF Loop, Goto
    <3>2. DOMAIN mine[b] = 1..at[b]
      BY <1>0, <2>2, <2>5
    <3> QED
      BY <2>1, <2>3, <3>1, <3>2 DEF Written
  <2> QED
    BY <2>4, <2>5
<1>6. CASE RefreshStats(b) \/ OverwriteStats(b) \/ Expand(b)
  <2>1. /\ pc[b] \in {"stats", "overwrite", "expand"} /\ mine' = mine
        /\ pc'[b] \in {"overwrite", "graph", "finish"}
    BY <1>0, <1>6 DEF RefreshStats, OverwriteStats, Expand, Goto
  <2> QED
    BY <1>0, <2>1 DEF Written
<1>7. CASE Materialize(b)
  <2>1. /\ pc[b] = "graph" /\ mine' = mine
        /\ pc'[b] \in {"graph", "finish", "expand"}
    BY <1>0, <1>7 DEF Materialize, Loop, Goto, AfterGraph
  <2> QED
    BY <1>0, <2>1 DEF Written
<1>8. CASE Redeliver(b)
  BY <1>0, <1>8 DEF Redeliver, Goto, Written
<1>9. CASE Finish(b)
  BY <1>0, <1>9 DEF Finish, Goto, Written
<1>10. CASE Release(b) /\ at[b] < Len(mine[b])
  <2>1. pc'[b] = "release"
    BY <1>10 DEF Release
  <2> QED
    BY <2>1 DEF Written
<1>11. CASE StepFails(b) /\ Goto(b, "release")
  BY <1>0, <1>11 DEF Goto, Written
<1>12. CASE Cancel(b) /\ Goto(b, "release")
  BY <1>0, <1>12 DEF Goto, Written
<1>13. CASE EnsureWalletFails(b)
  BY <1>0, <1>13 DEF EnsureWalletFails, Goto, Written
<1>14. CASE GiveUp(b, TRUE) \/ GiveUp(b, FALSE)
  <2>1. pc'[b] \in {"waiting", "dropped"} /\ mine'[b] = <<>>
    BY <1>14, GiveUpTypes
  <2> QED
    BY <2>1 DEF Written
<1>15. CASE Crash(b)
  <2>1. pc'[b] \in {"waiting", "dropped"} /\ mine'[b] = <<>>
    BY <1>0, <1>15 DEF Crash, Goto
  <2> QED
    BY <2>1 DEF Written
<1> QED
  BY <1>3, <1>4, <1>5, <1>6, <1>7, <1>8, <1>9, <1>10, <1>11, <1>12, <1>13, <1>14, <1>15
  DEF ActionOf, Step, Release, ReleaseCancelled, StepFails, NormalizeFails, RedisFails, Cancel

(* A list that stays as it is, and is not being released, is held as it was. *)
LEMMA HeldStays ==
    ASSUME NEW b \in Batches, mine'[b] = mine[b], pc'[b] # "release" \/ at'[b] = 1,
           TypeInv
    PROVE  \A i \in Nat : Held(b, i) => Held(b, i)' /\ mine'[b][i] = mine[b][i]
<1>1. mine[b] \in Seq(Txs)
  BY DEF TypeInv, TypeOK
<1> QED
  BY <1>1 DEF Held

(* A key that b holds is held on, or b has come to its end, or the key is released,
   or left behind. *)
LEMMA OwnKept ==
    ASSUME TypeInv, ClaimInv, WrittenInv, NEW b \in Batches, ActionOf(b)
    PROVE  \A i \in Nat : Held(b, i) =>
              \/ Held(b, i)' /\ mine'[b][i] = mine[b][i]
              \/ pc[b] = "finish"
              \/ mine[b][i] \in abandoned'
              \/ mine[b][i] \notin claimed'
<1> DEFINE Fate(i) == \/ Held(b, i)' /\ mine'[b][i] = mine[b][i]
                      \/ pc[b] = "finish"
                      \/ mine[b][i] \in abandoned'
                      \/ mine[b][i] \notin claimed'
<1> SUFFICES \A i \in Nat : Held(b, i) => Fate(i)
  OBVIOUS
<1>0. /\ UNCHANGED stores \/ Applied(b)
      /\ stored \subseteq stored'
      /\ mine \in [Batches -> Seq(Txs)] /\ pc \in [Batches -> Labels]
      /\ at \in [Batches -> Nat \ {0}] /\ Written(b)
  BY SharedStep, StoredGrows DEF TypeInv, TypeOK, WrittenInv
<1>1. CASE Begin(b) \/ RefreshStats(b) \/ OverwriteStats(b) \/ Expand(b) \/ Redeliver(b)
  <2>1. mine'[b] = mine[b] /\ pc'[b] # "release"
    BY <1>0, <1>1 DEF Begin, RefreshStats, OverwriteStats, Expand, Redeliver, Goto
  <2> QED
    BY <2>1, HeldStays
<1>2. CASE Claim(b) \/ EnsureWalletFails(b)
  <2>1. /\ pc[b] = "claim" /\ Current(b) \in Txs
        /\ pc'[b] # "release" \/ at'[b] = 1
        /\ \/ mine'[b] = mine[b]
           \/ mine'[b] = Append(mine[b], Current(b))
    <3>1. CASE Claim(b)
      <4>1. pc[b] = "claim" /\ Loop(b, Len(Items[b]), AfterClaims(b, mine'[b]))
        BY <3>1 DEF Claim
      <4>2. pc'[b] # "release"
        BY <1>0, <4>1 DEF Loop, Goto, AfterClaims
      <4> QED
        BY <3>1, <4>1, <4>2, ClaimTypes, CurrentType
    <3>2. CASE EnsureWalletFails(b)
      BY <1>0, <3>2, CurrentType DEF EnsureWalletFails, Goto
    <3> QED
      BY <1>2, <3>1, <3>2
  <2>2. CASE mine'[b] = mine[b]
    BY <2>1, <2>2, HeldStays
  <2>3. CASE mine'[b] = Append(mine[b], Current(b))
    <3>1. /\ DOMAIN mine[b] \subseteq DOMAIN mine'[b]
          /\ \A i \in DOMAIN mine[b] : i \in Nat \ {0} /\ mine'[b][i] = mine[b][i]
      BY <1>0, <2>1, <2>3
    <3> QED
      BY <2>1, <3>1 DEF Held
  <2> QED
    BY <2>1, <2>2, <2>3
<1>3. CASE Upsert(b) \/ Materialize(b)
  <2>1. mine'[b] = mine[b] /\ pc'[b] # "release"
    BY <1>0, <1>3 DEF Upsert, Materialize, Loop, Goto, AfterGraph
  <2> QED
    BY <2>1, HeldStays
<1>4. ASSUME pc[b] = "finish"
      PROVE  \A i \in Nat : Held(b, i) => Fate(i)
  BY <1>4
<1>5. CASE Release(b)
  <2>1. pc[b] = "release" /\ claimed' = claimed \ {Current(b)}
    BY <1>5 DEF Release, Applied
  <2>2. Current(b) = mine[b][at[b]] /\ at[b] \in DOMAIN mine[b]
    BY <2>1, CurrentType
  <2>3. ASSUME NEW i \in Nat, Held(b, i), i # at[b]
        PROVE  Held(b, i)' /\ mine'[b][i] = mine[b][i]
    <3>1. i \in DOMAIN mine[b] /\ i >= at[b] + 1 /\ at[b] < Len(mine[b])
      BY <1>0, <2>1, <2>2, <2>3 DEF Held
    <3>2. at'[b] = at[b] + 1 /\ mine'[b] = mine[b]
      BY <1>0, <1>5, <3>1 DEF Release
    <3> QED
      BY <3>1, <3>2 DEF Held
  <2> QED
    BY <2>1, <2>2, <2>3
<1>6. CASE LeavesKeys(b)
  <2> SUFFICES ASSUME NEW i \in Nat, Held(b, i), mine[b][i] \in claimed'
               PROVE  mine[b][i] \in abandoned'
    OBVIOUS
  <2>1. mine[b][i] \in Holds(b)
    BY HoldsHeld
  <2> QED
    BY <1>6, <2>1 DEF LeavesKeys
<1>7. CASE (StepFails(b) \/ Cancel(b)) /\ Goto(b, "release") /\ mine' = mine
  <2>1. at'[b] = 1 /\ mine'[b] = mine[b]
    BY <1>0, <1>7 DEF Goto
  <2> QED
    BY <2>1, HeldStays
<1>8. CASE StepFails(b) /\ ~(Releases(b) /\ mine[b] # <<>>)
  <2>1. CASE pc[b] = "finish"
    BY <1>4, <2>1
  <2>2. CASE pc[b] # "finish"
    <3>1. mine[b] = <<>>
      BY <1>0, <1>8, <2>2 DEF StepFails, Releases, Written
    <3> QED
      BY <3>1 DEF Held
  <2> QED
    BY <2>1, <2>2
<1>9. CASE Finish(b)
  BY <1>4, <1>9 DEF Finish
<1> QED
  BY <1>1, <1>2, <1>3, <1>5, <1>6, <1>7, <1>8, <1>9
  DEF ActionOf, Step, ReleaseCancelled, StepFails, NormalizeFails, RedisFails, Cancel, Crash

(* A key that is set is held, or left behind by the call that set it. *)
LEMMA NewKept ==
    ASSUME TypeInv, NEW b \in Batches, ActionOf(b)
    PROVE  \A x \in claimed' \ claimed :
              x \in abandoned' \/ \E i \in Nat : Held(b, i)' /\ mine'[b][i] = x
<1> SUFFICES ASSUME NEW x \in claimed' \ claimed
             PROVE  x \in abandoned' \/ \E i \in Nat : Held(b, i)' /\ mine'[b][i] = x
  OBVIOUS
<1>1. UNCHANGED stores \/ Applied(b)
  BY SharedStep
<1>2. pc[b] = "claim" /\ x = Current(b)
  BY <1>1, ClaimedEffect
<1>3. CASE LeavesKeys(b)
  BY <1>3 DEF LeavesKeys
<1>4. CASE Claim(b) \/ EnsureWalletFails(b)
  <2>1. mine[b] \in Seq(Txs) /\ Current(b) \in Txs
    BY <1>2, CurrentType DEF TypeInv, TypeOK
  <2>2. mine'[b] = Append(mine[b], x)
    BY <1>2, <1>4, ClaimTypes DEF EnsureWalletFails, TypeInv, TypeOK
  <2>3. pc'[b] # "release" \/ at'[b] = 1
    <3>1. pc \in [Batches -> Labels] /\ at \in [Batches -> Nat \ {0}]
      BY DEF TypeInv, TypeOK
    <3> QED
      BY <1>2, <1>4, <3>1 DEF Claim, EnsureWalletFails, Loop, Goto, AfterClaims
  <2>4. PICK n \in Nat : n >= 1 /\ n \in DOMAIN mine'[b] /\ mine'[b][n] = x
    BY <1>2, <2>1, <2>2
  <2>5. Held(b, n)'
    BY <2>3, <2>4 DEF Held
  <2> QED
    BY <2>4, <2>5
<1> QED
  BY <1>2, <1>3, <1>4 DEF ActionOf, Step, Begin, Upsert, RefreshStats, OverwriteStats,
     Materialize, Expand, Finish, Release, ReleaseCancelled, Redeliver, StepFails,
     NormalizeFails, RedisFails, Cancel, Crash, Releases

(* Every step keeps each claimed key held, stored or left behind. *)
LEMMA KeptStep ==
    ASSUME IngestInv, NEW b \in Batches, ActionOf(b)
    PROVE  \A x \in claimed' \ abandoned' : StaysClaimed(x)'
<1> SUFFICES ASSUME NEW x \in claimed', x \notin abandoned', x \notin stored'
             PROVE  \E c \in Batches, i \in Nat : Held(c, i)' /\ mine'[c][i] = x
  BY DEF StaysClaimed
<1> USE DEF IngestInv
<1>1. CASE x \notin claimed
  BY <1>1, NewKept
<1>2. CASE x \in claimed
  <2>1. x \notin abandoned
    BY SharedStep DEF LeavesKeys
  <2>2. x \notin stored
    BY SharedStep, StoredGrows
  <2>3. PICK c \in Batches, i \in Nat : Held(c, i) /\ mine[c][i] = x
    BY <1>2, <2>1, <2>2 DEF StaysClaimed
  <2>4. CASE c = b /\ pc[b] # "finish"
    BY <2>3, <2>4, OwnKept
  <2>5. CASE c # b
    BY <2>3, <2>5, OthersHold
  <2>6. CASE c = b /\ pc[b] = "finish"
    <3>1. x \in stored
      BY <2>3, <2>6 DEF WrittenInv, Written, Held
    <3> QED
      BY <2>2, <3>1
  <2> QED
    BY <2>4, <2>5, <2>6
<1> QED
  BY <1>1, <1>2

(* The invariant of the writes holds in every reachable state. *)
LEMMA IngestInvariant == Spec => []IngestInv
<1>1. Init => WrittenInv /\ \A x \in claimed \ abandoned : StaysClaimed(x)
  BY DEF Init, WrittenInv, Written
<1>2. IngestInv /\ [Next]_vars => WrittenInv' /\ \A x \in claimed' \ abandoned' : StaysClaimed(x)'
  <2> SUFFICES ASSUME IngestInv, [Next]_vars
               PROVE  WrittenInv' /\ \A x \in claimed' \ abandoned' : StaysClaimed(x)'
    OBVIOUS
  <2>1. CASE UNCHANGED vars
    BY <2>1 DEF vars, IngestInv, WrittenInv, Written, StaysClaimed, Held
  <2>2. ASSUME NEW b \in Batches, ActionOf(b)
        PROVE  WrittenInv' /\ \A x \in claimed' \ abandoned' : StaysClaimed(x)'
    BY <2>2, WrittenStep, KeptStep DEF IngestInv
  <2> QED
    BY <2>1, <2>2 DEF Next, ActionOf
<1> DEFINE K == \A x \in claimed \ abandoned : StaysClaimed(x)
<1>3. Init => WrittenInv /\ K
  BY <1>1
<1>4. (TypeInv /\ ClaimInv) /\ (WrittenInv /\ K) /\ [Next]_vars => (WrittenInv /\ K)'
  BY <1>2 DEF IngestInv
<1>5. (TypeInv /\ ClaimInv) /\ (WrittenInv /\ K) => IngestInv
  BY DEF IngestInv
<1> HIDE DEF K
<1> QED
  BY <1>3, <1>4, <1>5, ClaimInvariant, PTL DEF Spec

(* No key outlives its batch without the row it stands for, except where the batch
   was cancelled, died or lost Redis: release paths forget nothing else. *)
THEOREM ClaimsKept == Spec => []ClaimedIsKept
<1>1. IngestInv => ClaimedIsKept
  <2> SUFFICES ASSUME IngestInv, NEW x \in claimed \ abandoned, x \notin stored
               PROVE  \E b \in Batches : x \in Holds(b)
    BY DEF ClaimedIsKept
  <2>1. PICK b \in Batches, i \in Nat : Held(b, i) /\ mine[b][i] = x
    BY DEF IngestInv, StaysClaimed
  <2>2. x \in Holds(b)
    BY <2>1, HoldsHeld DEF IngestInv
  <2> QED
    BY <2>2
<1> QED
  BY <1>1, IngestInvariant, PTL
-----------------------------------------------------------------------------
(* b holds the transaction at i and has not added it to the graph since its claim. *)
Uncounted(b, i) ==
    /\ Held(b, i)
    /\ pc[b] \notin {"expand", "finish"}
    /\ pc[b] = "graph" => i >= at[b]

CountInv ==
    /\ \A x \in Txs : graph[x] <= 1 + failures
    /\ \A x \in Txs \ claimed : graph[x] <= failures
    /\ \A b \in Batches, i \in Nat : Uncounted(b, i) => graph[mine[b][i]] <= failures

(* Only the call that materializes adds to the graph, and to an uncounted entry. *)
LEMMA GraphEffect ==
    ASSUME TypeInv, NEW b \in Batches, UNCHANGED stores \/ Applied(b)
    PROVE  \/ graph' = graph
           \/ /\ pc[b] = "graph" /\ at[b] \in Nat /\ Uncounted(b, at[b])
              /\ mine[b][at[b]] \in Txs
              /\ graph' = [graph EXCEPT ![mine[b][at[b]]] = @ + 1]
<1>1. CASE UNCHANGED stores
  BY <1>1 DEF stores
<1>2. CASE Applied(b) /\ pc[b] # "graph"
  BY <1>2 DEF Applied
<1>3. CASE Applied(b) /\ pc[b] = "graph"
  <2>1. at[b] \in DOMAIN mine[b] /\ Current(b) = mine[b][at[b]] /\ Current(b) \in Txs
    BY <1>3, CurrentType
  <2>2. at[b] \in Nat
    BY DEF TypeInv, TypeOK
  <2> QED
    BY <1>3, <2>1, <2>2 DEF Applied, Uncounted, Held
<1> QED
  BY <1>1, <1>2, <1>3

(* A failure pays for what is counted again. *)
LEMMA CountFails ==
    ASSUME TypeInv, TypeInv', CountInv, NEW b \in Batches, ActionOf(b),
           failures' = failures + 1
    PROVE  \A x \in Txs : graph'[x] <= failures'
<1> SUFFICES ASSUME NEW x \in Txs PROVE graph'[x] <= failures'
  OBVIOUS
<1>1. graph \in [Txs -> Nat] /\ failures \in Nat /\ graph[x] <= 1 + failures
  BY DEF TypeInv, TypeOK, CountInv
<1>2. CASE graph' = graph
  BY <1>1, <1>2
<1>3. CASE graph' # graph
  <2>1. /\ at[b] \in Nat /\ Uncounted(b, at[b]) /\ mine[b][at[b]] \in Txs
        /\ graph' = [graph EXCEPT ![mine[b][at[b]]] = @ + 1]
    BY <1>3, SharedStep, GraphEffect
  <2>2. graph[mine[b][at[b]]] <= failures
    BY <2>1 DEF CountInv
  <2> QED
    BY <1>1, <2>1, <2>2
<1> QED
  BY <1>2, <1>3

(* What is uncounted after a step without failure was uncounted, or is just claimed. *)
LEMMA OwnUncounted ==
    ASSUME TypeInv, ClaimInv, WrittenInv, NEW b \in Batches, Step(b) \/ Redeliver(b)
    PROVE  \A i \in Nat : Uncounted(b, i)' =>
              \/ Uncounted(b, i) /\ mine'[b][i] = mine[b][i]
              \/ pc[b] = "claim" /\ mine'[b][i] = Current(b) /\ Current(b) \in Txs \ claimed
<1> SUFFICES ASSUME NEW i \in Nat, Uncounted(b, i)'
             PROVE  \/ Uncounted(b, i) /\ mine'[b][i] = mine[b][i]
                    \/ /\ pc[b] = "claim" /\ mine'[b][i] = Current(b)
                       /\ Current(b) \in Txs \ claimed
  OBVIOUS
<1>0. /\ ActionOf(b) /\ Held(b, i)' /\ pc'[b] \notin {"expand", "finish"}
      /\ pc \in [Batches -> Labels] /\ at \in [Batches -> Nat \ {0}]
      /\ mine \in [Batches -> Seq(Txs)]
  BY DEF Uncounted, ActionOf, TypeInv, TypeOK
<1>1. CASE AddsHeld(b)
  <2>1. mine[b] \in Seq(Txs) /\ Current(b) \in Txs
    BY <1>0, <1>1, CurrentType DEF AddsHeld
  <2>2. i \in 1..(Len(mine[b]) + 1)
    BY <1>0, <1>1, <2>1 DEF Held, AddsHeld
  <2>3. CASE i = Len(mine[b]) + 1
    BY <1>1, <2>1, <2>3 DEF AddsHeld
  <2>4. CASE i \in 1..Len(mine[b])
    BY <1>1, <2>1, <2>4 DEF AddsHeld, Uncounted, Held
  <2> QED
    BY <2>1, <2>2, <2>3, <2>4
<1>2. CASE KeepsHeld(b)
  <2>1. Held(b, i) /\ mine'[b][i] = mine[b][i]
    BY <1>0, <1>2 DEF KeepsHeld
  <2>2. pc[b] # "finish"
    <3> SUFFICES ASSUME pc[b] = "finish" PROVE FALSE
      OBVIOUS
    <3>1. Finish(b)
      BY DEF Step, Begin, Claim, Upsert, RefreshStats, OverwriteStats, Materialize,
         Expand, Release, ReleaseCancelled, Redeliver
    <3>2. mine'[b] = <<>>
      BY <1>0, <3>1 DEF Finish
    <3> QED
      BY <1>0, <3>2 DEF Held
  <2>3. pc[b] # "expand"
    <3> SUFFICES ASSUME pc[b] = "expand" PROVE FALSE
      OBVIOUS
    <3>1. Expand(b)
      BY DEF Step, Begin, Claim, Upsert, RefreshStats, OverwriteStats, Materialize,
         Finish, Release, ReleaseCancelled, Redeliver
    <3> QED
      BY <1>0, <3>1 DEF Expand, Goto
  <2>4. ASSUME pc[b] = "graph"
        PROVE  i >= at[b]
    <3>1. Materialize(b)
      BY <2>4 DEF Step, Begin, Claim, Upsert, RefreshStats, OverwriteStats, Expand,
         Finish, Release, ReleaseCancelled, Redeliver
    <3>2. pc'[b] = "graph" /\ at'[b] = at[b] + 1
      BY <1>0, <3>1 DEF Materialize, Loop, Goto, AfterGraph
    <3>3. i >= at'[b]
      BY <3>2 DEF Uncounted
    <3> QED
      BY <1>0, <3>2, <3>3
  <2> QED
    BY <2>1, <2>2, <2>3, <2>4 DEF Uncounted
<1> QED
  BY <1>0, <1>1, <1>2, HeldStep

(* Every step keeps the counts paid for. *)
LEMMA CountStep ==
    ASSUME IngestInv, TypeInv', CountInv, NEW b \in Batches, ActionOf(b)
    PROVE  CountInv'
<1> USE DEF IngestInv
<1>0. /\ graph \in [Txs -> Nat] /\ graph' \in [Txs -> Nat] /\ failures \in Nat
      /\ claimed \in SUBSET Txs
      /\ mine' \in [Batches -> Seq(Txs)]
  BY DEF TypeInv, TypeOK
<1>1. CASE failures' = failures + 1
  <2>1. \A x \in Txs : graph'[x] <= failures'
    BY <1>1, CountFails
  <2>2. \A c \in Batches, i \in Nat : Uncounted(c, i)' => mine'[c][i] \in Txs
    BY <1>0 DEF Uncounted, Held
  <2> QED
    BY <1>0, <1>1, <2>1, <2>2 DEF CountInv
<1>2. CASE failures' = failures /\ (Step(b) \/ Redeliver(b))
  <2>0. UNCHANGED stores \/ Applied(b)
    BY SharedStep
  <2>1. ASSUME NEW c \in Batches, NEW i \in Nat, Uncounted(c, i)'
        PROVE  \/ Uncounted(c, i) /\ mine'[c][i] = mine[c][i]
               \/ /\ pc[b] = "claim" /\ mine'[c][i] = Current(b)
                  /\ Current(b) \in Txs \ claimed
    <3>1. CASE c = b
      BY <1>2, <2>1, <3>1, OwnUncounted
    <3>2. CASE c # b
      <4>1. pc'[c] = pc[c] /\ at'[c] = at[c] /\ mine'[c] = mine[c]
        BY <3>2, LocalStep DEF OthersKept
      <4> QED
        BY <2>1, <4>1 DEF Uncounted, Held
    <3> QED
      BY <3>1, <3>2
  <2>2. CASE graph' = graph
    <3>1. \A x \in Txs \ claimed' : graph[x] <= failures
      <4> SUFFICES ASSUME NEW x \in Txs \ claimed', x \in claimed
                   PROVE  graph[x] <= failures
        BY DEF CountInv
      <4>1. pc[b] = "release" /\ at[b] \in Nat /\ Held(b, at[b]) /\ x = mine[b][at[b]]
        BY <2>0, ClaimedEffect
      <4>2. Uncounted(b, at[b])
        BY <4>1 DEF Uncounted
      <4> QED
        BY <4>1, <4>2 DEF CountInv
    <3>2. ASSUME NEW c \in Batches, NEW i \in Nat, Uncounted(c, i)'
          PROVE  graph[mine'[c][i]] <= failures
      BY <2>1, <3>2 DEF CountInv
    <3> QED
      BY <1>0, <1>2, <2>2, <3>1, <3>2 DEF CountInv
  <2>3. CASE graph' # graph
    <3>1. /\ pc[b] = "graph" /\ at[b] \in Nat /\ Uncounted(b, at[b])
          /\ mine[b][at[b]] \in Txs
          /\ graph' = [graph EXCEPT ![mine[b][at[b]]] = @ + 1]
      BY <2>0, <2>3, GraphEffect
    <3>2. graph[mine[b][at[b]]] <= failures /\ mine[b][at[b]] \in claimed
      BY <3>1 DEF CountInv, ClaimInv, Uncounted
    <3>3. claimed' = claimed
      BY <2>0, <3>1, ClaimedEffect
    <3>a. /\ graph'[mine[b][at[b]]] = graph[mine[b][at[b]]] + 1
          /\ \A x \in Txs : x # mine[b][at[b]] => graph'[x] = graph[x]
          /\ \A x \in Txs : graph[x] \in Nat
      BY <3>1 DEF TypeInv, TypeOK
    <3>4. \A x \in Txs : graph'[x] <= 1 + failures
      <4> TAKE x \in Txs
      <4>1. graph[x] \in Nat /\ graph[x] <= 1 + failures /\ failures \in Nat
        BY <1>0, <3>a DEF CountInv
      <4>2. CASE x = mine[b][at[b]]
        BY <3>2, <3>a, <4>1, <4>2
      <4>3. CASE x # mine[b][at[b]]
        BY <3>a, <4>1, <4>3
      <4> QED
        BY <4>2, <4>3
    <3>5. \A x \in Txs \ claimed' : graph'[x] <= failures
      BY <3>2, <3>3, <3>a DEF CountInv
    <3>6. ASSUME NEW c \in Batches, NEW i \in Nat, Uncounted(c, i)'
          PROVE  graph'[mine'[c][i]] <= failures
      <4>1. Uncounted(c, i) /\ mine'[c][i] = mine[c][i]
        BY <2>1, <3>1, <3>6
      <4>a. Held(c, i) /\ Held(b, at[b])
        BY <3>1, <4>1 DEF Uncounted
      <4>b. mine \in [Batches -> Seq(Txs)]
        BY DEF TypeInv, TypeOK
      <4>c. i \in DOMAIN mine[c]
        BY <4>a DEF Held
      <4>2. Held(c, i) /\ Held(b, at[b]) /\ mine[c][i] \in Txs
        BY <4>a, <4>b, <4>c
      <4>3. mine[c][i] # mine[b][at[b]]
        <5> SUFFICES ASSUME mine[c][i] = mine[b][at[b]] PROVE FALSE
          OBVIOUS
        <5>1. c = b /\ i = at[b]
          BY <3>1, <4>2 DEF ClaimInv
        <5>2. Materialize(b)
          BY <1>2, <3>1 DEF Step, Begin, Claim, Upsert, RefreshStats, OverwriteStats,
             Expand, Finish, Release, ReleaseCancelled, Redeliver
        <5>3. pc'[b] = "graph" => at'[b] = at[b] + 1
          BY <3>1, <5>2 DEF Materialize, Loop, Goto, AfterGraph, TypeInv, TypeOK
        <5>4. pc'[b] \in {"graph", "finish", "expand"}
          BY <3>1, <5>2 DEF Materialize, Loop, Goto, AfterGraph, TypeInv, TypeOK
        <5> QED
          BY <3>1, <3>6, <5>1, <5>3, <5>4 DEF Uncounted
      <4> QED
        BY <1>0, <3>1, <4>1, <4>2, <4>3 DEF CountInv
    <3> QED
      BY <1>2, <3>4, <3>5, <3>6 DEF CountInv
  <2> QED
    BY <2>2, <2>3
<1>3. \/ failures' = failures + 1
      \/ failures' = failures /\ (Step(b) \/ Redeliver(b))
  BY DEF ActionOf, Step, Begin, Claim, Upsert, RefreshStats, OverwriteStats, Materialize,
     Expand, Finish, Release, ReleaseCancelled, Redeliver, StepFails, EnsureWalletFails,
     NormalizeFails, RedisFails, Cancel, Crash, CountFailure, counters
<1> QED
  BY <1>1, <1>2, <1>3

(* Deliveries alone, concurrent or repeated, never make the graph count a transaction
   twice: each further count is paid for by a failure. *)
THEOREM CountsBounded == Spec => []CountedPerFailure
<1>1. Init => CountInv
  <2> SUFFICES ASSUME Init PROVE CountInv
    OBVIOUS
  <2>1. \A b \in Batches, i \in Nat : ~Uncounted(b, i)
    BY DEF Init, Uncounted, Held
  <2> QED
    BY <2>1 DEF Init, CountInv
<1>2. IngestInv /\ TypeInv' /\ CountInv /\ [Next]_vars => CountInv'
  <2> SUFFICES ASSUME IngestInv, TypeInv', CountInv, [Next]_vars
               PROVE  CountInv'
    OBVIOUS
  <2>1. CASE UNCHANGED vars
    BY <2>1 DEF vars, CountInv, Uncounted, Held
  <2>2. ASSUME NEW b \in Batches, ActionOf(b)
        PROVE  CountInv'
    BY <2>2, CountStep
  <2> QED
    BY <2>1, <2>2 DEF Next, ActionOf
<1>3. CountInv => CountedPerFailure
  BY DEF CountInv, CountedPerFailure
<1>4. IngestInv => TypeInv
  BY DEF IngestInv
<1> QED
  BY <1>1, <1>2, <1>3, <1>4, IngestInvariant, PTL DEF Spec
-----------------------------------------------------------------------------
(* How far b has come with the statistics and the graph. *)
Come(b) ==
    /\ \A i \in DOMAIN mine[b] : mine[b][i] \in Carries(b)
    /\ pc[b] = "overwrite" => \A i \in DOMAIN mine[b] : mine[b][i] \in seen[b]
    /\ pc[b] \in {"graph", "expand", "finish"} =>
          \A i \in DOMAIN mine[b] : mine[b][i] \in stats \cup overwritten
    /\ pc[b] = "graph" => \A i \in 1..(at[b] - 1) : graph[mine[b][i]] > 0
    /\ pc[b] \in {"expand", "finish"} => \A i \in DOMAIN mine[b] : graph[mine[b][i]] > 0

(* b carries x and has still to claim it. *)
Expects(b, x) ==
    /\ x \in Carries(b)
    /\ \/ pc[b] \in {"waiting", "dropped", "release"}
       \/ pc[b] = "claim" /\ \E i \in DOMAIN Items[b] : i >= at[b] /\ Items[b][i] = x

(* A claimed transaction is ingested or in a hand; one that nobody has claimed and that
   is not ingested is awaited. *)
Gained(x) == Ingested(x) \/ \E b \in Batches, i \in Nat : Held(b, i) /\ mine[b][i] = x

Awaited(x) ==
    (\E b \in Batches : x \in Carries(b))
        => Ingested(x) \/ x \in claimed \/ \E b \in Batches : Expects(b, x)

AcceptInv ==
    /\ \A b \in Batches : Come(b)
    /\ \A x \in claimed \ abandoned : Gained(x)
    /\ \A x \in Txs \ abandoned : Awaited(x)

(* What is ingested stays so: a refresh takes out of the statistics only what it leaves
   recorded as overwritten. *)
LEMMA IngestedStays ==
    ASSUME TypeInv, NEW b \in Batches, UNCHANGED stores \/ Applied(b)
    PROVE  /\ stats \cup overwritten \subseteq stats' \cup overwritten'
           /\ \A x \in Txs : graph[x] > 0 => graph'[x] > 0
           /\ \A x \in Txs : Ingested(x) => Ingested(x)'
<1>1. stats \cup overwritten \subseteq stats' \cup overwritten'
  BY DEF stores, Applied
<1>2. \A x \in Txs : graph[x] > 0 => graph'[x] > 0
  <2>1. graph \in [Txs -> Nat]
    BY DEF TypeInv, TypeOK
  <2>2. CASE graph' = graph
    BY <2>2
  <2>3. CASE graph' # graph
    <3>1. PICK t \in Txs : graph' = [graph EXCEPT ![t] = @ + 1]
      BY <2>3, GraphEffect
    <3> QED
      BY <2>1, <3>1
  <2> QED
    BY <2>2, <2>3
<1> QED
  BY <1>1, <1>2, StoredGrows DEF Ingested

(* The others keep what their refreshes have read. *)
LEMMA SeenByOthers ==
    ASSUME TypeInv, NEW b \in Batches, ActionOf(b)
    PROVE  \A c \in Batches \ {b} : seen'[c] = seen[c]
<1>1. seen \in [Batches -> SUBSET Txs]
  BY DEF TypeInv, TypeOK
<1> QED
  BY <1>1 DEF ActionOf, Step, Begin, Claim, Upsert, RefreshStats, OverwriteStats, Materialize,
     Expand, Finish, Release, ReleaseCancelled, Redeliver, StepFails, EnsureWalletFails,
     NormalizeFails, RedisFails, Cancel, Crash

(* What b has claimed it carries. *)
LEMMA MineCarried ==
    ASSUME TypeInv, NEW b \in Batches, ActionOf(b), Come(b)
    PROVE  \A i \in DOMAIN mine'[b] : mine'[b][i] \in Carries(b)
<1>0. mine[b] \in Seq(Txs) /\ mine \in [Batches -> Seq(Txs)]
  BY DEF TypeInv, TypeOK
<1>1. CASE mine'[b] = mine[b]
  BY <1>1 DEF Come
<1>2. CASE mine'[b] = <<>>
  BY <1>2
<1>3. CASE pc[b] = "claim" /\ mine'[b] = Append(mine[b], Current(b))
  <2>1. Current(b) \in Carries(b) /\ Current(b) \in Txs
    <3>1. at[b] \in DOMAIN Items[b]
      BY <1>3 DEF TypeInv, TypeOK
    <3> QED
      BY <1>3, <3>1, CurrentType DEF Current, Carries
  <2>2. \A i \in DOMAIN mine'[b] :
           (i \in DOMAIN mine[b] /\ mine'[b][i] = mine[b][i]) \/ mine'[b][i] = Current(b)
    BY <1>0, <1>3, <2>1
  <2> QED
    BY <2>1, <2>2 DEF Come
<1>4. CASE Claim(b)
  BY <1>1, <1>3, <1>4, ClaimTypes DEF Claim
<1>5. CASE EnsureWalletFails(b)
  BY <1>0, <1>3, <1>5 DEF EnsureWalletFails
<1>6. ASSUME ~Claim(b), ~EnsureWalletFails(b)
      PROVE  mine'[b] = mine[b] \/ mine'[b] = <<>>
  BY <1>0, <1>6 DEF ActionOf, Step, Begin, Upsert, RefreshStats, OverwriteStats, Materialize,
     Expand, Finish, Release, ReleaseCancelled, Redeliver, StepFails,
     NormalizeFails, RedisFails, Cancel, Crash, GiveUp
<1> QED
  BY <1>1, <1>2, <1>4, <1>5, <1>6

(* Each batch comes as far as its label says. *)
LEMMA ComeStep ==
    ASSUME TypeInv, WrittenInv, \A c \in Batches : Come(c), NEW b \in Batches, ActionOf(b)
    PROVE  \A c \in Batches : Come(c)'
<1>0. /\ UNCHANGED stores \/ Applied(b)
      /\ stats \cup overwritten \subseteq stats' \cup overwritten'
      /\ \A x \in Txs : graph[x] > 0 => graph'[x] > 0
      /\ mine \in [Batches -> Seq(Txs)] /\ pc \in [Batches -> Labels]
      /\ at \in [Batches -> Nat \ {0}] /\ seen \in [Batches -> SUBSET Txs]
      /\ graph \in [Txs -> Nat]
      /\ Come(b) /\ Written(b) /\ OthersKept(b)
  BY SharedStep, IngestedStays, LocalStep DEF TypeInv, TypeOK, WrittenInv
<1>1. ASSUME NEW c \in Batches \ {b}
      PROVE  Come(c)'
  <2>1. /\ Come(c) /\ pc'[c] = pc[c] /\ at'[c] = at[c] /\ mine'[c] = mine[c] /\ seen'[c] = seen[c]
        /\ mine[c] \in Seq(Txs)
        /\ pc[c] = "graph" => at[c] \in Nat /\ at[c] <= Len(mine[c])
    BY <1>0, SeenByOthers DEF OthersKept, TypeInv, TypeOK
  <2>2. \A i \in DOMAIN mine[c] : mine[c][i] \in Txs
    BY <2>1
  <2>3. pc[c] = "graph" => \A i \in 1..(at[c] - 1) : i \in DOMAIN mine[c]
    BY <2>1
  <2> QED
    BY <1>0, <2>1, <2>2, <2>3 DEF Come, Carries
<1>2. SUFFICES Come(b)'
  BY <1>1
<1>3. \A i \in DOMAIN mine'[b] : mine'[b][i] \in Carries(b)
  BY <1>0, MineCarried
<1>4. SUFFICES
        /\ pc'[b] = "overwrite" => \A i \in DOMAIN mine'[b] : mine'[b][i] \in seen'[b]
        /\ pc'[b] \in {"graph", "expand", "finish"} =>
              \A i \in DOMAIN mine'[b] : mine'[b][i] \in stats' \cup overwritten'
        /\ pc'[b] = "graph" => \A i \in 1..(at'[b] - 1) : graph'[mine'[b][i]] > 0
        /\ pc'[b] \in {"expand", "finish"} => \A i \in DOMAIN mine'[b] : graph'[mine'[b][i]] > 0
  BY <1>3 DEF Come, Carries
<1>5. CASE pc'[b] \notin {"overwrite", "graph", "expand", "finish"}
  BY <1>5
<1>6. CASE Claim(b)
  <2>1. pc'[b] = "claim" \/ pc'[b] = AfterClaims(b, mine'[b])
    BY <1>0, <1>6 DEF Claim, Loop, Goto
  <2>2. CASE mine'[b] # <<>>
    BY <1>5, <2>1, <2>2 DEF AfterClaims
  <2>3. CASE mine'[b] = <<>>
    <3>1. DOMAIN mine'[b] = {} /\ pc'[b] \notin {"overwrite", "graph"}
      BY <2>1, <2>3 DEF AfterClaims
    <3> QED
      BY <3>1
  <2> QED
    BY <2>2, <2>3
<1>7. CASE RefreshStats(b)
  <2>1. pc[b] = "stats" /\ pc'[b] = "overwrite" /\ mine' = mine /\ seen'[b] = stored
    BY <1>0, <1>7 DEF RefreshStats, Goto
  <2> QED
    BY <1>0, <2>1 DEF Written
<1>8. CASE OverwriteStats(b)
  <2>1. /\ pc[b] = "overwrite" /\ pc'[b] = "graph" /\ at'[b] = 1 /\ mine' = mine
        /\ seen[b] \subseteq stats' \cup overwritten'
    BY <1>0, <1>8 DEF OverwriteStats, Goto, Applied
  <2> QED
    BY <1>0, <2>1 DEF Come
<1>9. CASE Materialize(b)
  <2>1. /\ pc[b] = "graph" /\ mine' = mine /\ Applied(b)
        /\ Loop(b, Len(mine[b]), AfterGraph(b))
    BY <1>9 DEF Materialize
  <2>2. at[b] \in DOMAIN mine[b] /\ Current(b) = mine[b][at[b]] /\ Current(b) \in Txs
    BY <2>1, CurrentType
  <2>3. graph'[mine[b][at[b]]] > 0
    BY <1>0, <2>1, <2>2 DEF Applied
  <2>4. \A i \in 1..at[b] : graph'[mine[b][i]] > 0
    <3> SUFFICES ASSUME NEW i \in 1..at[b], i # at[b] PROVE graph'[mine[b][i]] > 0
      BY <2>3
    <3>1. i \in 1..(at[b] - 1) /\ i \in DOMAIN mine[b]
      BY <1>0, <2>2
    <3>2. mine[b][i] \in Txs
      BY <1>0, <3>1
    <3> QED
      BY <1>0, <2>1, <3>1, <3>2 DEF Come
  <2>5. CASE at[b] < Len(mine[b])
    <3>1. pc'[b] = "graph" /\ at'[b] = at[b] + 1
      BY <1>0, <2>1, <2>5 DEF Loop
    <3>2. 1..(at'[b] - 1) = 1..at[b]
      BY <1>0, <3>1
    <3> QED
      BY <1>0, <2>1, <2>4, <3>1, <3>2 DEF Come
  <2>6. CASE ~(at[b] < Len(mine[b]))
    <3>1. pc'[b] \in {"expand", "finish"}
      BY <1>0, <2>1, <2>6 DEF Loop, Goto, AfterGraph
    <3>2. DOMAIN mine[b] = 1..at[b]
      BY <1>0, <2>2, <2>6
    <3> QED
      BY <1>0, <2>1, <2>4, <3>1, <3>2 DEF Come
  <2> QED
    BY <2>5, <2>6
<1>10. CASE Expand(b)
  <2>1. pc[b] = "expand" /\ pc'[b] = "finish" /\ mine' = mine
    BY <1>0, <1>10 DEF Expand, Goto
  <2>2. \A i \in DOMAIN mine[b] : mine[b][i] \in Txs
    BY <1>0
  <2> QED
    BY <1>0, <2>1, <2>2 DEF Come
<1>11. ASSUME ~Claim(b), ~RefreshStats(b), ~OverwriteStats(b), ~Materialize(b), ~Expand(b)
       PROVE  pc'[b] \notin {"overwrite", "graph", "expand", "finish"}
  <2>1. CASE GiveUp(b, TRUE) \/ GiveUp(b, FALSE)
    BY <2>1, GiveUpTypes
  <2>2. CASE ~GiveUp(b, TRUE) /\ ~GiveUp(b, FALSE)
    BY <1>0, <1>11, <2>2 DEF ActionOf, Step, Begin, Upsert, Finish, Release, ReleaseCancelled,
       Redeliver, StepFails, EnsureWalletFails, NormalizeFails, RedisFails, Cancel, Crash,
       Goto, Loop
  <2> QED
    BY <2>1, <2>2
<1> QED
  BY <1>5, <1>6, <1>7, <1>8, <1>9, <1>10, <1>11

(* Each claimed key is held on until its transaction is ingested, or left behind. *)
LEMMA GainedStep ==
    ASSUME IngestInv, AcceptInv, NEW b \in Batches, ActionOf(b)
    PROVE  \A x \in claimed' \ abandoned' : Gained(x)'
<1> SUFFICES ASSUME NEW x \in claimed', x \notin abandoned', ~Ingested(x)'
             PROVE  \E c \in Batches, i \in Nat : Held(c, i)' /\ mine'[c][i] = x
  BY DEF Gained
<1> USE DEF IngestInv
<1>1. CASE x \notin claimed
  BY <1>1, NewKept
<1>2. CASE x \in claimed
  <2>1. x \notin abandoned /\ x \in Txs
    BY <1>2, SharedStep DEF LeavesKeys, TypeInv, TypeOK
  <2>2. ~Ingested(x)
    BY <2>1, SharedStep, IngestedStays
  <2>3. PICK c \in Batches, i \in Nat : Held(c, i) /\ mine[c][i] = x
    BY <1>2, <2>1, <2>2 DEF Gained, AcceptInv
  <2>4. CASE c = b /\ pc[b] # "finish"
    BY <2>3, <2>4, OwnKept
  <2>5. CASE c # b
    BY <2>3, <2>5, OthersHold
  <2>6. CASE c = b /\ pc[b] = "finish"
    <3>1. i \in DOMAIN mine[b] /\ Written(b) /\ Come(b)
      BY <2>3, <2>6 DEF WrittenInv, AcceptInv, Held
    <3>2. Ingested(x)
      BY <2>3, <2>6, <3>1 DEF Written, Come, Ingested
    <3> QED
      BY <2>2, <3>2
  <2> QED
    BY <2>4, <2>5, <2>6
<1> QED
  BY <1>1, <1>2

(* Whoever awaits a transaction claims it, finds it claimed, or begins again. *)
LEMMA ExpectsStep ==
    ASSUME TypeInv, NEW b \in Batches, ActionOf(b), NEW x, Expects(b, x)
    PROVE  Expects(b, x)' \/ x \in claimed'
<1>0. /\ pc \in [Batches -> Labels] /\ at \in [Batches -> Nat \ {0}] /\ Items[b] \in Seq(Txs)
      /\ x \in Carries(b) /\ Carries(b)' = Carries(b)
  BY DEF TypeInv, TypeOK, Expects, Carries
<1>1. CASE pc'[b] \in {"waiting", "dropped", "release"}
  BY <1>0, <1>1 DEF Expects
<1>2. CASE Begin(b)
  <2>1. pc'[b] = "claim" /\ at'[b] = 1
    BY <1>0, <1>2 DEF Begin, Goto
  <2>2. PICK i \in DOMAIN Items[b] : Items[b][i] = x
    BY <1>0 DEF Carries
  <2>3. i >= 1
    BY <1>0
  <2> QED
    BY <1>0, <2>1, <2>2, <2>3 DEF Expects
<1>3. CASE Claim(b)
  <2>1. /\ pc[b] = "claim" /\ Applied(b) /\ Loop(b, Len(Items[b]), AfterClaims(b, mine'[b]))
    BY <1>3 DEF Claim
  <2>2. PICK i \in DOMAIN Items[b] : i >= at[b] /\ Items[b][i] = x
    BY <2>1 DEF Expects
  <2>3. CASE i = at[b]
    <3>1. x \in claimed'
      BY <2>1, <2>2, <2>3 DEF Applied, Current
    <3> QED
      BY <3>1
  <2>4. CASE i # at[b]
    <3>1. i >= at[b] + 1 /\ at[b] < Len(Items[b])
      BY <1>0, <2>2, <2>4
    <3>2. pc'[b] = "claim" /\ at'[b] = at[b] + 1
      BY <1>0, <2>1, <3>1 DEF Loop
    <3> QED
      BY <1>0, <2>2, <3>1, <3>2 DEF Expects
  <2> QED
    BY <2>3, <2>4
<1>4. ASSUME ~Begin(b), ~Claim(b)
      PROVE  pc'[b] \in {"waiting", "dropped", "release"}
  <2>0. pc[b] \in {"waiting", "dropped", "release", "claim"}
    BY DEF Expects
  <2>1. CASE GiveUp(b, TRUE) \/ GiveUp(b, FALSE)
    BY <2>1, GiveUpTypes
  <2>2. CASE ~GiveUp(b, TRUE) /\ ~GiveUp(b, FALSE)
    BY <1>0, <1>4, <2>0, <2>2 DEF ActionOf, Step, Upsert, RefreshStats, OverwriteStats,
       Materialize, Expand, Finish, Release, ReleaseCancelled, Redeliver, StepFails,
       EnsureWalletFails, NormalizeFails, RedisFails, Cancel, Crash, Goto
  <2> QED
    BY <2>1, <2>2
<1> QED
  BY <1>1, <1>2, <1>3, <1>4

(* Who releases a key awaits its transaction from then on. *)
LEMMA ReleasedIsAwaited ==
    ASSUME TypeInv, NEW b \in Batches, ActionOf(b), Come(b), NEW x \in claimed \ claimed'
    PROVE  Expects(b, x)'
<1>1. /\ pc[b] = "release" /\ at[b] \in DOMAIN mine[b] /\ x = mine[b][at[b]]
  BY SharedStep, ClaimedEffect DEF Held
<1>2. x \in Carries(b) /\ Carries(b)' = Carries(b) /\ pc \in [Batches -> Labels]
  BY <1>1 DEF Come, Carries, TypeInv, TypeOK
<1>3. pc'[b] \in {"waiting", "dropped", "release"}
  <2>1. CASE GiveUp(b, TRUE) \/ GiveUp(b, FALSE)
    BY <2>1, GiveUpTypes
  <2>2. CASE ~GiveUp(b, TRUE) /\ ~GiveUp(b, FALSE)
    BY <1>1, <1>2, <2>2 DEF ActionOf, Step, Begin, Claim, Upsert, RefreshStats, OverwriteStats,
       Materialize, Expand, Finish, Release, ReleaseCancelled, Redeliver, StepFails,
       EnsureWalletFails, NormalizeFails, RedisFails, Cancel, Crash, Goto
  <2> QED
    BY <2>1, <2>2
<1> QED
  BY <1>2, <1>3 DEF Expects

(* No transaction is forgotten by all who carry it. *)
LEMMA AwaitedStep ==
    ASSUME IngestInv, AcceptInv, NEW b \in Batches, ActionOf(b)
    PROVE  \A x \in Txs \ abandoned' : Awaited(x)'
<1> SUFFICES ASSUME NEW x \in Txs, x \notin abandoned', NEW a \in Batches, x \in Carries(a)'
             PROVE  Ingested(x)' \/ x \in claimed' \/ \E c \in Batches : Expects(c, x)'
  BY DEF Awaited
<1>0. TypeInv /\ Come(b) /\ x \in Carries(a) /\ x \notin abandoned
  BY SharedStep DEF IngestInv, AcceptInv, Carries, LeavesKeys
<1>1. CASE Ingested(x)
  BY <1>0, <1>1, SharedStep, IngestedStays
<1>2. CASE x \in claimed
  BY <1>0, <1>2, ReleasedIsAwaited
<1>3. ASSUME NEW c \in Batches, Expects(c, x), x \notin claimed'
      PROVE  Expects(c, x)'
  <2>1. CASE c = b
    BY <1>0, <1>3, <2>1, ExpectsStep
  <2>2. CASE c # b
    <3>1. pc'[c] = pc[c] /\ at'[c] = at[c]
      BY <1>0, <2>2, LocalStep DEF OthersKept
    <3> QED
      BY <1>3, <3>1 DEF Expects, Carries
  <2> QED
    BY <2>1, <2>2
<1>4. Ingested(x) \/ x \in claimed \/ \E c \in Batches : Expects(c, x)
  BY <1>0 DEF AcceptInv, Awaited
<1> QED
  BY <1>1, <1>2, <1>3, <1>4

(* What is accepted is complete in every reachable state. *)
LEMMA AcceptInvariant == Spec => [](IngestInv /\ AcceptInv)
<1>1. Init => AcceptInv
  <2> SUFFICES ASSUME Init PROVE AcceptInv
    OBVIOUS
  <2>1. \A b \in Batches : Come(b)
    BY DEF Init, Come
  <2>2. claimed = {}
    BY DEF Init
  <2>3. \A b \in Batches : \A x \in Carries(b) : Expects(b, x)
    BY DEF Init, Expects
  <2> QED
    BY <2>1, <2>2, <2>3 DEF AcceptInv, Awaited
<1>2. IngestInv /\ AcceptInv /\ [Next]_vars => AcceptInv'
  <2> SUFFICES ASSUME IngestInv, AcceptInv, [Next]_vars PROVE AcceptInv'
    OBVIOUS
  <2>1. CASE UNCHANGED vars
    <3>1. \A b \in Batches : Come(b)'
      BY <2>1 DEF vars, AcceptInv, Come, Carries
    <3>2. \A x \in claimed' \ abandoned' : Gained(x)'
      BY <2>1 DEF vars, AcceptInv, Gained, Ingested, Held
    <3>3. \A x \in Txs \ abandoned' : Awaited(x)'
      BY <2>1 DEF vars, AcceptInv, Awaited, Ingested, Expects, Carries
    <3> QED
      BY <3>1, <3>2, <3>3 DEF AcceptInv
  <2>2. ASSUME NEW b \in Batches, ActionOf(b)
        PROVE  AcceptInv'
    <3>1. \A c \in Batches : Come(c)'
      BY <2>2, ComeStep DEF IngestInv, AcceptInv
    <3> QED
      BY <2>2, <3>1, GainedStep, AwaitedStep DEF AcceptInv
  <2> QED
    BY <2>1, <2>2 DEF Next, ActionOf
<1> QED
  BY <1>1, <1>2, IngestInvariant, PTL DEF Spec

(* Once all who carry a transaction are accepted it is in the rows, the statistics and the
   graph, although each may have skipped what another had claimed and failed to write. *)
THEOREM AcceptedHolds == Spec => []AcceptedIsIngested
<1>1. IngestInv /\ AcceptInv => AcceptedIsIngested
  <2> SUFFICES ASSUME IngestInv, AcceptInv, NEW x \in Txs \ abandoned,
                      NEW a \in Batches, x \in Carries(a),
                      \A b \in Batches : x \in Carries(b) => pc[b] = "done"
               PROVE  Ingested(x)
    BY DEF AcceptedIsIngested
  <2>1. \A b \in Batches : ~Expects(b, x)
    BY DEF Expects
  <2>2. CASE x \in claimed
    <3>1. ASSUME NEW b \in Batches, NEW i \in Nat, Held(b, i), mine[b][i] = x
          PROVE  FALSE
      <4>1. i \in DOMAIN mine[b] /\ x \in Carries(b)
        BY <3>1 DEF AcceptInv, Come, Held
      <4>2. mine[b] = <<>>
        BY <4>1 DEF IngestInv, WrittenInv, Written
      <4> QED
        BY <4>1, <4>2
    <3> QED
      BY <2>2, <3>1 DEF AcceptInv, Gained
  <2> QED
    BY <2>1, <2>2 DEF AcceptInv, Awaited
<1> QED
  BY <1>1, AcceptInvariant, PTL
-----------------------------------------------------------------------------
(* Enrichment: the calls. *)
EnricherCalls == {"idle", "summary", "row", "store", "cache", "fetch"} \cup Writing

Enriching == [at : EnricherCalls, worker : BOOLEAN, has : Fetched \cup {NoEnrichment},
              got : Fetched, todo : SUBSET Facts]

EnrichTypes ==
    /\ version \in 1..MaxVersion
    /\ cachedFacts \in Fetched \cup {NoEnrichment} /\ snapshot \in Fetched \cup {NoEnrichment}
    /\ summary \in Fetched \cup {NoEnrichment, Uncached}
    /\ enricher \in [Enrichers -> Enriching]
    /\ enrichments \in 0..MaxEnrichments /\ enrichFailures \in 0..MaxEnrichFailures
    /\ clean \in Enrichers \cup {NoEnrichment} /\ agreed \in BOOLEAN /\ raced \in BOOLEAN

(* The facts that were asked for and not told. *)
Missing(call) == {f \in Facts \ call.todo : call.got[f] = 0}

(* What a call writes has been asked for in whole, and lacks a fact only for a failure. *)
Fetches(call, n) ==
    /\ call.at \in {"fetch"} \cup Writing => Cardinality(Missing(call)) <= n
    /\ call.at \in Writing => call.todo = {} /\ call.got # Nothing

(* Calls that have written the key and have still to write the row or to end. *)
HalfWritten == {e \in Enrichers : enricher[e].at \in {"upsert", "invalidate"}}

WorthKept(kept, n) ==
    kept = NoEnrichment \/ (kept # Nothing /\ Cardinality({f \in Facts : kept[f] = 0}) <= n)

(* Who wrote alone is the only one to have written by half, and its row is the key's. *)
CleanHolds ==
    clean # NoEnrichment =>
        /\ HalfWritten \subseteq {clean}
        /\ clean \in HalfWritten => cachedFacts \in {NoEnrichment, enricher[clean].got}
        /\ enricher[clean].at = "invalidate" => snapshot = enricher[clean].got

Agreement ==
    agreed => /\ HalfWritten = {}
              /\ cachedFacts \in {NoEnrichment, snapshot}
              /\ raced \/ summary \in {Uncached, snapshot}

EnrichInv ==
    /\ EnrichTypes
    /\ \A e \in Enrichers : Fetches(enricher[e], enrichFailures)
    /\ WorthKept(cachedFacts, enrichFailures) /\ WorthKept(snapshot, enrichFailures)
    /\ CleanHolds /\ Agreement

(* A call that goes on. *)
Moves(e, call) == enricher' = [enricher EXCEPT ![e] = call]

(* Who does nothing of it is as before. *)
LEMMA MovesOne ==
    ASSUME EnrichTypes, NEW e \in Enrichers, NEW call \in Enriching, Moves(e, call)
    PROVE  /\ enricher' \in [Enrichers -> Enriching]
           /\ enricher'[e] = call
           /\ \A d \in Enrichers \ {e} : enricher'[d] = enricher[d]
BY DEF EnrichTypes, Moves

(* A call between its calls. *)
LEMMA CallTypes ==
    /\ NoCall \in Enriching /\ NoCall.at = "idle" /\ Nothing \in Fetched
    /\ \A call \in Enriching : call.got \in Fetched /\ call.todo \in SUBSET Facts /\ call.at \in EnricherCalls
                                 /\ call.has \in Fetched \cup {NoEnrichment} /\ call.worker \in BOOLEAN
<1>1. Nothing \in Fetched
  BY EnrichBoundsAssumption DEF Nothing, Fetched
<1> QED
  BY <1>1 DEF NoCall, Enriching, EnricherCalls

(* What is missing is finite, and no more than what is asked for in all. *)
LEMMA MissingFinite ==
    \A S \in SUBSET Facts : IsFiniteSet(S) /\ Cardinality(S) \in Nat
BY FactsAssumption, FS_Subset, FS_CardinalityType

(* More failures allow for more. *)
LEMMA FailuresAllow ==
    ASSUME NEW n \in Nat, NEW m \in Nat, n <= m
    PROVE  /\ \A call \in Enriching : Fetches(call, n) => Fetches(call, m)
           /\ \A kept : WorthKept(kept, n) => WorthKept(kept, m)
<1>1. \A call \in Enriching : Cardinality(Missing(call)) \in Nat
  BY MissingFinite DEF Missing
<1>2. \A kept : Cardinality({f \in Facts : kept[f] = 0}) \in Nat
  BY MissingFinite
<1>3. ASSUME NEW call \in Enriching, Fetches(call, n) PROVE Fetches(call, m)
  BY <1>1, <1>3 DEF Fetches
<1>4. ASSUME NEW kept, WorthKept(kept, n) PROVE WorthKept(kept, m)
  BY <1>2, <1>4 DEF WorthKept
<1> QED
  BY <1>3, <1>4

(* What is fetched of a fact is told, or missing for a failure. *)
LEMMA FactFetched ==
    ASSUME EnrichTypes, NEW e \in Enrichers, Fetches(enricher[e], enrichFailures), NEW f \in Facts,
           FetchSucceeds(e, f) \/ FetchFails(e, f)
    PROVE  \E call \in Enriching :
              /\ Moves(e, call) /\ call.at \in {"idle", "fetch", "set"} /\ Fetches(call, enrichFailures')
              /\ enrichFailures' \in 0..MaxEnrichFailures /\ enrichFailures <= enrichFailures'
<1>0. /\ enrichFailures \in Nat /\ version \in Nat \ {0} /\ version \in 0..MaxVersion
      /\ enricher[e] \in Enriching /\ enricher \in [Enrichers -> Enriching] /\ 0 \in 0..MaxVersion
  BY EnrichBoundsAssumption DEF EnrichTypes
<1>1. PICK got \in 0..MaxVersion :
         /\ FetchFact(e, f, got)
         /\ \/ got # 0 /\ enrichFailures' = enrichFailures
            \/ got = 0 /\ enrichFailures' = enrichFailures + 1 /\ enrichFailures < MaxEnrichFailures
  BY <1>0 DEF FetchSucceeds, FetchFails
<1>2. enrichFailures' \in 0..MaxEnrichFailures /\ enrichFailures <= enrichFailures' /\ enrichFailures' \in Nat
  BY <1>0, <1>1, EnrichBoundsAssumption DEF EnrichTypes
<1> DEFINE facts == [enricher[e].got EXCEPT ![f] = got]
           todo == enricher[e].todo \ {f}
           call == [enricher[e] EXCEPT !.got = facts, !.todo = todo,
                                       !.at = IF todo = {} THEN "set" ELSE @]
<1>3. enricher[e].at = "fetch" /\ f \in enricher[e].todo
  BY <1>1 DEF FetchFact
<1>4. facts \in Fetched /\ todo \in SUBSET Facts
  BY <1>0, CallTypes DEF Fetched
<1>5. /\ call \in Enriching /\ call.got = facts /\ call.todo = todo
      /\ call.at = IF todo = {} THEN "set" ELSE "fetch"
  BY <1>0, <1>3, <1>4 DEF Enriching, EnricherCalls, Writing
<1>6. CASE todo = {} /\ ~Worth(facts)
  <2>1. Moves(e, NoCall)
    BY <1>1, <1>6 DEF FetchFact, Ends, Moves
  <2>2. Fetches(NoCall, enrichFailures')
    BY CallTypes DEF Fetches, Writing
  <2> QED
    BY <1>2, <2>1, <2>2, CallTypes
<1>7. CASE ~(todo = {} /\ ~Worth(facts))
  <2>1. Moves(e, call)
    <3>1. enricher' = [enricher EXCEPT ![e].got = facts, ![e].todo = todo,
                                       ![e].at = IF todo = {} THEN "set" ELSE @]
      BY <1>1, <1>7 DEF FetchFact
    <3>2. enricher' = [enricher EXCEPT ![e] = call]
      BY <1>0, <3>1
    <3> QED
      BY <3>2 DEF Moves
  <2>2. Cardinality(Missing(call)) <= enrichFailures'
    <3> DEFINE old == Missing(enricher[e])
    <3>1. Missing(call) \subseteq IF got = 0 THEN old \cup {f} ELSE old
      <4> SUFFICES ASSUME NEW g \in Missing(call), g # f \/ got # 0 PROVE g \in old
        OBVIOUS
      <4>1. g \in Facts \ todo /\ facts[g] = 0
        BY <1>5 DEF Missing
      <4>2. g # f
        BY <1>0, <4>1, CallTypes DEF Fetched
      <4>3. enricher[e].got[g] = 0
        BY <1>0, <4>1, <4>2, CallTypes DEF Fetched
      <4> QED
        BY <4>1, <4>2, <4>3 DEF Missing
    <3>2. old \in SUBSET Facts /\ old \cup {f} \in SUBSET Facts /\ f \notin old
      BY <1>3 DEF Missing
    <3>3. Cardinality(old) <= enrichFailures
      BY <1>3 DEF Fetches
    <3>4. /\ IsFiniteSet(old) /\ IsFiniteSet(old \cup {f}) /\ Cardinality(old) \in Nat
          /\ Cardinality(Missing(call)) \in Nat
      BY <3>2, MissingFinite DEF Missing
    <3>5. Cardinality(old \cup {f}) = Cardinality(old) + 1
      BY <3>2, <3>4, FS_AddElement
    <3>6. CASE got = 0
      <4>1. Cardinality(Missing(call)) <= Cardinality(old \cup {f})
        BY <3>1, <3>4, <3>6, FS_Subset
      <4> QED
        BY <1>0, <1>1, <3>3, <3>4, <3>5, <3>6, <4>1
    <3>7. CASE got # 0
      <4>1. Cardinality(Missing(call)) <= Cardinality(old)
        BY <3>1, <3>4, <3>7, FS_Subset
      <4> QED
        BY <1>0, <1>1, <3>3, <3>4, <3>7, <4>1
    <3> QED
      BY <3>6, <3>7
  <2>3. call.at \in Writing => call.todo = {} /\ call.got # Nothing
    BY <1>5, <1>7 DEF Worth, Writing
  <2>4. Fetches(call, enrichFailures')
    BY <2>2, <2>3 DEF Fetches
  <2> HIDE DEF call
  <2> QED
    BY <1>2, <1>5, <2>1, <2>4
<1> QED
  BY <1>6, <1>7

(* What each step of a call does: *)
Quiet == UNCHANGED <<version, cachedFacts, snapshot, clean, agreed>>

(* a call goes on without a word to the stores, but perhaps to the summary, *)
CallGoesOn(e, call) ==
    /\ Moves(e, call) /\ Quiet
    /\ call.at \notin {"upsert", "invalidate"}
    /\ \/ UNCHANGED <<summary, raced>>
       \/ summary' \in Fetched \cup {NoEnrichment} /\ raced' = (raced \/ summary' # snapshot)

Sets(e, call) ==
    /\ Moves(e, call) /\ UNCHANGED <<version, snapshot, summary, raced>>
    /\ enricher[e].at = "set" /\ call.at = "upsert" /\ call.got = enricher[e].got
    /\ call.todo = enricher[e].todo
    /\ cachedFacts' = call.got /\ agreed' = FALSE
    /\ clean' = IF Others(e) = {} THEN e ELSE NoEnrichment

Rows(e, call) ==
    /\ Moves(e, call) /\ UNCHANGED <<version, cachedFacts, summary, raced, clean, agreed>>
    /\ enricher[e].at = "upsert" /\ call.at = "invalidate" /\ call.got = enricher[e].got
    /\ call.todo = enricher[e].todo
    /\ snapshot' = call.got

Finishes(e, call) ==
    /\ Moves(e, call) /\ UNCHANGED <<version, cachedFacts, snapshot, clean>>
    /\ enricher[e].at = "invalidate" /\ call.at = "idle"
    /\ summary' = Uncached /\ raced' = FALSE /\ agreed' = (clean = e)

EnrichMoves(e) ==
    \E call \in Enriching :
        /\ Fetches(call, enrichFailures')
        /\ CallGoesOn(e, call) \/ Sets(e, call) \/ Rows(e, call) \/ Finishes(e, call)

Counted ==
    /\ enrichments' \in 0..MaxEnrichments
    /\ enrichFailures' \in 0..MaxEnrichFailures /\ enrichFailures <= enrichFailures'

(* Each step of a call is one of the four. *)
LEMMA EnrichStep ==
    ASSUME EnrichInv, NEW e \in Enrichers,
           \/ EnricherStep(e) \/ EnricherFails(e)
           \/ \E worker \in BOOLEAN : Ask(e, worker)
    PROVE  EnrichMoves(e) /\ Counted
<1> DEFINE own == enricher[e]
<1>0. /\ EnrichTypes /\ own \in Enriching /\ Fetches(own, enrichFailures)
      /\ enricher \in [Enrichers -> Enriching]
      /\ enrichFailures \in Nat /\ enrichments \in Nat
      /\ MaxEnrichments \in Nat /\ MaxEnrichFailures \in Nat
  BY EnrichBoundsAssumption DEF EnrichInv, EnrichTypes
<1>c. ASSUME UNCHANGED <<enrichments, enrichFailures>> PROVE Counted
  BY <1>0, <1>c DEF Counted, EnrichTypes
<1>i. Fetches(NoCall, enrichFailures')
  BY CallTypes DEF Fetches, Writing
<1>s. \A l \in EnricherCalls \ {"fetch", "set", "upsert", "invalidate"} :
         LET c == [own EXCEPT !.at = l] IN
         c \in Enriching /\ c.at = l /\ Fetches(c, enrichFailures')
  <2> SUFFICES ASSUME NEW l \in EnricherCalls \ {"fetch", "set", "upsert", "invalidate"}
               PROVE  LET c == [own EXCEPT !.at = l] IN
                      c \in Enriching /\ c.at = l /\ Fetches(c, enrichFailures')
    OBVIOUS
  <2>1. [own EXCEPT !.at = l] \in Enriching /\ [own EXCEPT !.at = l].at = l
    BY <1>0 DEF Enriching
  <2> QED
    BY <2>1 DEF Fetches, Writing
<1>1. ASSUME NEW worker \in BOOLEAN, Ask(e, worker) PROVE EnrichMoves(e) /\ Counted
  <2> DEFINE call == [NoCall EXCEPT !.worker = worker, !.at = IF worker THEN "cache" ELSE "summary"]
  <2>1. /\ call \in Enriching /\ call.at \in {"cache", "summary"}
    BY CallTypes DEF Enriching, EnricherCalls, NoCall
  <2>2. Fetches(call, enrichFailures')
    BY <2>1 DEF Fetches, Writing
  <2>3. CallGoesOn(e, call)
    BY <1>1, <2>1 DEF Ask, CallGoesOn, Quiet, Moves
  <2>4. /\ enrichments' = enrichments + 1 /\ enrichments < MaxEnrichments
        /\ enrichFailures' = enrichFailures /\ enrichFailures \in 0..MaxEnrichFailures
    BY <1>0, <1>1 DEF Ask, EnrichTypes
  <2>5. Counted
    BY <1>0, <2>4 DEF Counted
  <2> HIDE DEF call
  <2> QED
    BY <2>1, <2>2, <2>3, <2>5 DEF EnrichMoves
<1>2. CASE GetSummary(e)
  <2> DEFINE call == [own EXCEPT !.at = IF summary = Uncached THEN "row" ELSE "cache",
                                 !.has = IF summary = Uncached THEN @ ELSE summary]
  <2>1. call \in Enriching /\ call.at \in {"row", "cache"}
    BY <1>0 DEF Enriching, EnricherCalls, EnrichTypes
  <2>2. Fetches(call, enrichFailures')
    BY <2>1 DEF Fetches, Writing
  <2>3. Moves(e, call)
    BY <1>0, <1>2 DEF GetSummary, Moves
  <2>4. CallGoesOn(e, call)
    BY <1>2, <2>1, <2>3 DEF GetSummary, CallGoesOn, Quiet
  <2> HIDE DEF call
  <2> QED
    BY <1>2, <1>c, <2>1, <2>2, <2>4 DEF EnrichMoves, GetSummary
<1>3. CASE ReadWalletEnrichmentSnapshot(e)
  <2> DEFINE call == [own EXCEPT !.at = "store", !.has = snapshot]
  <2>1. call \in Enriching /\ call.at = "store"
    BY <1>0 DEF Enriching, EnricherCalls, EnrichTypes
  <2>2. Fetches(call, enrichFailures')
    BY <2>1 DEF Fetches, Writing
  <2>3. Moves(e, call)
    BY <1>0, <1>3 DEF ReadWalletEnrichmentSnapshot, Moves
  <2>4. CallGoesOn(e, call)
    BY <1>3, <2>1, <2>3 DEF ReadWalletEnrichmentSnapshot, CallGoesOn, Quiet
  <2> HIDE DEF call
  <2> QED
    BY <1>3, <1>c, <2>1, <2>2, <2>4 DEF EnrichMoves, ReadWalletEnrichmentSnapshot
<1>4. CASE StoreSummary(e)
  <2> DEFINE call == [own EXCEPT !.at = "cache"]
  <2>1. call \in Enriching /\ call.at = "cache" /\ Fetches(call, enrichFailures')
    BY <1>s DEF EnricherCalls
  <2>2. Moves(e, call) /\ own.has \in Fetched \cup {NoEnrichment}
    BY <1>0, <1>4 DEF StoreSummary, Awaits, Moves, Enriching
  <2>3. CallGoesOn(e, call)
    BY <1>4, <2>1, <2>2 DEF StoreSummary, CallGoesOn, Quiet
  <2> HIDE DEF call
  <2> QED
    BY <1>4, <1>c, <2>1, <2>3 DEF EnrichMoves, StoreSummary
<1>5. CASE GetWalletEnrichment(e)
  <2>1. CASE cachedFacts # NoEnrichment \/ own.has # NoEnrichment
    <3>1. CallGoesOn(e, NoCall)
      BY <1>5, <2>1, CallTypes DEF GetWalletEnrichment, CallGoesOn, Quiet, Moves, Ends
    <3> QED
      BY <1>5, <1>c, <1>i, <3>1, CallTypes DEF EnrichMoves, GetWalletEnrichment
  <2>2. CASE ~(cachedFacts # NoEnrichment \/ own.has # NoEnrichment)
    <3> DEFINE call == [own EXCEPT !.at = "fetch", !.todo = Facts]
    <3>1. call \in Enriching /\ call.at = "fetch" /\ call.todo = Facts
      BY <1>0 DEF Enriching, EnricherCalls
    <3>2. Moves(e, call)
      BY <1>0, <1>5, <2>2 DEF GetWalletEnrichment, Moves
    <3>3. CallGoesOn(e, call)
      BY <1>5, <3>1, <3>2 DEF GetWalletEnrichment, CallGoesOn, Quiet
    <3> HIDE DEF call
    <3>4. Missing(call) = {} /\ Cardinality({}) = 0
      BY <3>1, FS_EmptySet DEF Missing
    <3>5. UNCHANGED <<enrichments, enrichFailures>>
      BY <1>5 DEF GetWalletEnrichment
    <3>6. Fetches(call, enrichFailures')
      BY <1>0, <3>1, <3>4, <3>5 DEF Fetches, Writing
    <3> QED
      BY <1>c, <3>1, <3>3, <3>5, <3>6 DEF EnrichMoves
  <2> QED
    BY <2>1, <2>2
<1>6. ASSUME NEW f \in Facts, FetchSucceeds(e, f) \/ FetchFails(e, f)
      PROVE  EnrichMoves(e) /\ Counted
  <2>1. PICK call \in Enriching :
           /\ Moves(e, call) /\ call.at \in {"idle", "fetch", "set"} /\ Fetches(call, enrichFailures')
           /\ enrichFailures' \in 0..MaxEnrichFailures /\ enrichFailures <= enrichFailures'
    BY <1>0, <1>6, FactFetched
  <2>2. /\ UNCHANGED <<version, cachedFacts, snapshot, summary, enrichments, clean, agreed, raced>>
    BY <1>6 DEF FetchSucceeds, FetchFails, FetchFact
  <2>3. CallGoesOn(e, call)
    BY <2>1, <2>2 DEF CallGoesOn, Quiet
  <2> QED
    BY <1>0, <2>1, <2>2, <2>3 DEF EnrichMoves, Counted, EnrichTypes
<1>7. CASE SetWalletEnrichment(e)
  <2> DEFINE call == [own EXCEPT !.at = "upsert"]
  <2>1. /\ call \in Enriching /\ call.at = "upsert" /\ call.got = own.got /\ call.todo = own.todo
    BY <1>0 DEF Enriching, EnricherCalls, Writing
  <2>2. own.at = "set" /\ Moves(e, call) /\ UNCHANGED <<enrichments, enrichFailures>>
    BY <1>0, <1>7 DEF SetWalletEnrichment, Awaits, Moves
  <2>3. Sets(e, call)
    BY <1>7, <2>1, <2>2 DEF SetWalletEnrichment, Sets
  <2> HIDE DEF call
  <2>4. Fetches(call, enrichFailures')
    BY <1>0, <2>1, <2>2 DEF Fetches, Writing, Missing
  <2> QED
    BY <1>c, <2>1, <2>2, <2>3, <2>4 DEF EnrichMoves
<1>8. CASE UpsertWalletEnrichmentSnapshot(e)
  <2> DEFINE call == [own EXCEPT !.at = "invalidate"]
  <2>1. /\ call \in Enriching /\ call.at = "invalidate" /\ call.got = own.got /\ call.todo = own.todo
    BY <1>0 DEF Enriching, EnricherCalls, Writing
  <2>2. own.at = "upsert" /\ Moves(e, call) /\ UNCHANGED <<enrichments, enrichFailures>>
    BY <1>0, <1>8 DEF UpsertWalletEnrichmentSnapshot, Awaits, Moves
  <2>3. Rows(e, call)
    BY <1>8, <2>1, <2>2 DEF UpsertWalletEnrichmentSnapshot, Rows, WriteRow
  <2> HIDE DEF call
  <2>4. Fetches(call, enrichFailures')
    BY <1>0, <2>1, <2>2 DEF Fetches, Writing, Missing
  <2> QED
    BY <1>c, <2>1, <2>2, <2>3, <2>4 DEF EnrichMoves
<1>9. CASE Invalidate(e)
  <2>1. Finishes(e, NoCall)
    BY <1>9, CallTypes DEF Invalidate, Finishes, Moves, Ends
  <2> QED
    BY <1>9, <1>c, <1>i, <2>1, CallTypes DEF EnrichMoves, Invalidate
<1>10. CASE EnricherFails(e)
  <2>1. CallGoesOn(e, NoCall)
    BY <1>10, CallTypes DEF EnricherFails, CallGoesOn, Quiet, Moves, Ends
  <2>2. Counted
    BY <1>0, <1>10 DEF EnricherFails, Counted, EnrichTypes
  <2> QED
    BY <1>i, <2>1, <2>2, CallTypes DEF EnrichMoves
<1> QED
  BY <1>1, <1>2, <1>3, <1>4, <1>5, <1>6, <1>7, <1>8, <1>9, <1>10 DEF EnricherStep

(* How a step of e changes who has written by half. *)
LEMMA HalfMoves ==
    ASSUME EnrichTypes, NEW e \in Enrichers, NEW call \in Enriching, Moves(e, call)
    PROVE  /\ call.at \in {"upsert", "invalidate"} => HalfWritten' = HalfWritten \cup {e}
           /\ call.at \notin {"upsert", "invalidate"} => HalfWritten' = HalfWritten \ {e}
<1>1. enricher'[e] = call /\ \A d \in Enrichers \ {e} : enricher'[d] = enricher[d]
  BY MovesOne
<1> QED
  BY <1>1 DEF HalfWritten

(* A step of a call keeps what each call has fetched, and what is kept worth keeping. *)
LEMMA WorthStays ==
    ASSUME EnrichInv, NEW e \in Enrichers, EnrichMoves(e), Counted
    PROVE  /\ EnrichTypes'
           /\ \A d \in Enrichers : Fetches(enricher'[d], enrichFailures')
           /\ WorthKept(cachedFacts', enrichFailures') /\ WorthKept(snapshot', enrichFailures')
<1> DEFINE own == enricher[e]
<1>0. /\ EnrichTypes /\ own \in Enriching /\ Fetches(own, enrichFailures)
      /\ enrichFailures \in Nat /\ enrichFailures' \in Nat /\ enrichFailures <= enrichFailures'
  BY EnrichBoundsAssumption DEF EnrichInv, EnrichTypes, Counted
<1>1. PICK call \in Enriching :
         /\ Fetches(call, enrichFailures')
         /\ CallGoesOn(e, call) \/ Sets(e, call) \/ Rows(e, call) \/ Finishes(e, call)
  BY DEF EnrichMoves
<1>2. Moves(e, call)
  BY <1>1 DEF CallGoesOn, Sets, Rows, Finishes
<1>3. /\ enricher' \in [Enrichers -> Enriching] /\ enricher'[e] = call
      /\ \A d \in Enrichers \ {e} : enricher'[d] = enricher[d]
  BY <1>0, <1>2, MovesOne
<1>4. call.got \in Fetched /\ own.got \in Fetched
  BY <1>0, CallTypes
<1>5. EnrichTypes'
  <2>1. cachedFacts' \in Fetched \cup {NoEnrichment} /\ snapshot' \in Fetched \cup {NoEnrichment}
    BY <1>0, <1>1, <1>4 DEF EnrichTypes, CallGoesOn, Quiet, Sets, Rows, Finishes
  <2>2. summary' \in Fetched \cup {NoEnrichment, Uncached} /\ raced' \in BOOLEAN
    BY <1>0, <1>1 DEF EnrichTypes, CallGoesOn, Sets, Rows, Finishes
  <2>3. clean' \in Enrichers \cup {NoEnrichment} /\ agreed' \in BOOLEAN
    BY <1>0, <1>1 DEF EnrichTypes, CallGoesOn, Quiet, Sets, Rows, Finishes
  <2>4. version' = version
    BY <1>1 DEF CallGoesOn, Quiet, Sets, Rows, Finishes
  <2> QED
    BY <1>0, <1>3, <2>1, <2>2, <2>3, <2>4 DEF EnrichTypes, Counted
<1>6. ASSUME NEW d \in Enrichers PROVE Fetches(enricher'[d], enrichFailures')
  <2>1. CASE d = e
    BY <1>1, <1>3, <2>1
  <2>2. CASE d # e
    <3>1. enricher[d] \in Enriching /\ Fetches(enricher[d], enrichFailures)
      BY DEF EnrichInv, EnrichTypes
    <3> QED
      BY <1>0, <1>3, <2>2, <3>1, FailuresAllow
  <2> QED
    BY <2>1, <2>2
<1>7. /\ WorthKept(cachedFacts, enrichFailures') /\ WorthKept(snapshot, enrichFailures')
  BY <1>0, FailuresAllow DEF EnrichInv
<1>8. own.at \in Writing => WorthKept(own.got, enrichFailures')
  <2> SUFFICES ASSUME own.at \in Writing PROVE WorthKept(own.got, enrichFailures)
    BY <1>0, FailuresAllow
  <2>1. own.todo = {} /\ own.got # Nothing /\ Cardinality(Missing(own)) <= enrichFailures
    BY <1>0 DEF Fetches
  <2>2. Missing(own) = {f \in Facts : own.got[f] = 0}
    BY <2>1 DEF Missing
  <2> QED
    BY <2>1, <2>2 DEF WorthKept
<1>9. WorthKept(cachedFacts', enrichFailures') /\ WorthKept(snapshot', enrichFailures')
  BY <1>1, <1>7, <1>8 DEF CallGoesOn, Quiet, Sets, Rows, Finishes, Writing
<1> QED
  BY <1>5, <1>6, <1>9

(* A step of a call keeps what is said of who wrote alone, and of the agreement. *)
LEMMA AgreementStays ==
    ASSUME EnrichInv, NEW e \in Enrichers, EnrichMoves(e)
    PROVE  CleanHolds' /\ Agreement'
<1> DEFINE own == enricher[e]
<1>0. EnrichTypes /\ CleanHolds /\ Agreement /\ clean \in Enrichers \cup {NoEnrichment}
  BY DEF EnrichInv, EnrichTypes
<1>1. PICK call \in Enriching :
         CallGoesOn(e, call) \/ Sets(e, call) \/ Rows(e, call) \/ Finishes(e, call)
  BY DEF EnrichMoves
<1>2. Moves(e, call)
  BY <1>1 DEF CallGoesOn, Sets, Rows, Finishes
<1>3. enricher'[e] = call /\ \A d \in Enrichers \ {e} : enricher'[d] = enricher[d]
  BY <1>0, <1>2, MovesOne
<1>4. /\ call.at \in {"upsert", "invalidate"} => HalfWritten' = HalfWritten \cup {e}
      /\ call.at \notin {"upsert", "invalidate"} => HalfWritten' = HalfWritten \ {e}
  BY <1>0, <1>2, HalfMoves
<1>h. \A d \in Enrichers : d \in HalfWritten <=> enricher[d].at \in {"upsert", "invalidate"}
  BY DEF HalfWritten
<1>5. CASE CallGoesOn(e, call)
  <2>1. HalfWritten' = HalfWritten \ {e} /\ UNCHANGED <<cachedFacts, snapshot, clean, agreed>>
    BY <1>4, <1>5 DEF CallGoesOn, Quiet
  <2>2. CleanHolds'
    <3> SUFFICES ASSUME clean # NoEnrichment
                 PROVE  /\ HalfWritten' \subseteq {clean}
                        /\ clean \in HalfWritten' => cachedFacts \in {NoEnrichment, enricher'[clean].got}
                        /\ enricher'[clean].at = "invalidate" => snapshot = enricher'[clean].got
      BY <2>1 DEF CleanHolds
    <3>1. CASE clean = e
      BY <1>0, <1>3, <1>5, <2>1, <3>1 DEF CleanHolds, CallGoesOn
    <3>2. CASE clean # e
      BY <1>0, <1>3, <2>1, <3>2 DEF CleanHolds
    <3> QED
      BY <3>1, <3>2
  <2>3. Agreement'
    <3>1. agreed => raced' \/ summary' \in {Uncached, snapshot}
      <4>1. CASE UNCHANGED <<summary, raced>>
        BY <1>0, <4>1 DEF Agreement
      <4>2. CASE raced' = (raced \/ summary' # snapshot)
        BY <4>2
      <4> QED
        BY <1>5, <4>1, <4>2 DEF CallGoesOn
    <3> QED
      BY <1>0, <2>1, <3>1 DEF Agreement
  <2> QED
    BY <2>2, <2>3
<1>6. CASE Sets(e, call)
  <2>1. CleanHolds'
    <3>1. CASE Others(e) = {}
      <4>1. HalfWritten \subseteq {e}
        BY <3>1 DEF HalfWritten, Others, Writing
      <4>2. clean' = e /\ HalfWritten' \subseteq {e} /\ cachedFacts' = enricher'[e].got
            /\ enricher'[e].at # "invalidate"
        BY <1>3, <1>4, <1>6, <3>1, <4>1 DEF Sets
      <4> QED
        BY <4>2 DEF CleanHolds
    <3>2. CASE Others(e) # {}
      BY <1>6, <3>2 DEF Sets, CleanHolds
    <3> QED
      BY <3>1, <3>2
  <2> QED
    BY <1>6, <2>1 DEF Sets, Agreement
<1>7. CASE Rows(e, call)
  <2>1. e \in HalfWritten /\ ~agreed /\ clean \in {e, NoEnrichment}
    BY <1>0, <1>7 DEF Rows, HalfWritten, Agreement, CleanHolds
  <2>2. CleanHolds'
    <3> SUFFICES ASSUME clean = e
                 PROVE  /\ HalfWritten' \subseteq {e}
                        /\ cachedFacts \in {NoEnrichment, enricher'[e].got}
                        /\ snapshot' = enricher'[e].got
      BY <1>7, <2>1 DEF CleanHolds, Rows
    <3> QED
      BY <1>0, <1>3, <1>4, <1>7, <2>1, FactsAssumption DEF CleanHolds, Rows
  <2> QED
    BY <1>7, <2>1, <2>2 DEF Rows, Agreement
<1>8. CASE Finishes(e, call)
  <2>1. e \in HalfWritten /\ clean \in {e, NoEnrichment} /\ clean' = clean
    BY <1>0, <1>8 DEF Finishes, HalfWritten, CleanHolds
  <2>2. clean = e => HalfWritten' = {} /\ cachedFacts \in {NoEnrichment, own.got} /\ snapshot = own.got
    BY <1>0, <1>4, <1>8, <2>1, FactsAssumption DEF Finishes, CleanHolds
  <2>3. CleanHolds'
    BY <1>3, <1>8, <2>1, <2>2 DEF CleanHolds, Finishes
  <2>4. Agreement'
    BY <1>8, <2>2 DEF Agreement, Finishes
  <2> QED
    BY <2>3, <2>4
<1> QED
  BY <1>1, <1>5, <1>6, <1>7, <1>8

(* The wallet changes, a key expires, a cached summary expires, or nothing happens. *)
LEMMA SurroundingsKeep ==
    ASSUME EnrichInv, FactsChange \/ FactsExpire \/ SummaryExpires \/ UNCHANGED enrichVars
    PROVE  EnrichInv'
<1>1. UNCHANGED <<snapshot, enricher, enrichments, enrichFailures, clean, agreed>>
  BY DEF FactsChange, FactsExpire, SummaryExpires, enrichVars
<1>2. /\ version' \in 1..MaxVersion
      /\ cachedFacts' \in {cachedFacts, NoEnrichment}
      /\ UNCHANGED <<summary, raced>> \/ (summary' = Uncached /\ raced' = FALSE)
  BY EnrichBoundsAssumption DEF FactsChange, FactsExpire, SummaryExpires, enrichVars, EnrichInv, EnrichTypes
<1>3. EnrichTypes'
  BY <1>1, <1>2 DEF EnrichInv, EnrichTypes
<1>4. HalfWritten' = HalfWritten
  BY <1>1 DEF HalfWritten
<1>5. CleanHolds' /\ Agreement'
  BY <1>1, <1>2, <1>4 DEF EnrichInv, CleanHolds, Agreement
<1>6. WorthKept(cachedFacts', enrichFailures') /\ WorthKept(snapshot', enrichFailures')
  BY <1>1, <1>2 DEF EnrichInv, WorthKept
<1>7. \A d \in Enrichers : Fetches(enricher'[d], enrichFailures')
  BY <1>1 DEF EnrichInv
<1> QED
  BY <1>3, <1>5, <1>6, <1>7 DEF EnrichInv

(* At first nothing is fetched, and nothing kept. *)
LEMMA EnrichStarts == EnrichInit => EnrichInv
<1> SUFFICES ASSUME EnrichInit PROVE EnrichInv
  OBVIOUS
<1>1. \A e \in Enrichers : enricher[e] = NoCall
  BY DEF EnrichInit
<1>2. EnrichTypes
  <2>1. enricher \in [Enrichers -> Enriching]
    BY CallTypes DEF EnrichInit
  <2>2. version \in 1..MaxVersion /\ enrichments \in 0..MaxEnrichments /\ enrichFailures \in 0..MaxEnrichFailures
    BY EnrichBoundsAssumption DEF EnrichInit
  <2> QED
    BY <2>1, <2>2 DEF EnrichInit, EnrichTypes
<1>3. \A e \in Enrichers : Fetches(enricher[e], enrichFailures)
  BY <1>1, CallTypes DEF Fetches, Writing
<1>4. HalfWritten = {}
  BY <1>1, CallTypes DEF HalfWritten
<1>5. CleanHolds /\ Agreement
  BY <1>4 DEF EnrichInit, CleanHolds, Agreement
<1> QED
  BY <1>2, <1>3, <1>5 DEF EnrichInit, EnrichInv, WorthKept

(* EnrichInv holds of every state. *)
LEMMA EnrichInvariant == EnrichSpec => []EnrichInv
<1>1. EnrichInit => EnrichInv
  BY EnrichStarts
<1>2. EnrichInv /\ [EnrichNext]_enrichVars => EnrichInv'
  <2> SUFFICES ASSUME EnrichInv, [EnrichNext]_enrichVars PROVE EnrichInv'
    OBVIOUS
  <2>1. ASSUME NEW e \in Enrichers,
               EnricherStep(e) \/ EnricherFails(e) \/ \E worker \in BOOLEAN : Ask(e, worker)
        PROVE  EnrichInv'
    <3>1. EnrichMoves(e) /\ Counted
      BY <2>1, EnrichStep
    <3>2. /\ EnrichTypes'
          /\ \A d \in Enrichers : Fetches(enricher'[d], enrichFailures')
          /\ WorthKept(cachedFacts', enrichFailures') /\ WorthKept(snapshot', enrichFailures')
      BY <3>1, WorthStays
    <3>3. CleanHolds' /\ Agreement'
      BY <3>1, AgreementStays
    <3> QED
      BY <3>2, <3>3 DEF EnrichInv
  <2>2. CASE FactsChange \/ FactsExpire \/ SummaryExpires \/ UNCHANGED enrichVars
    BY <2>2, SurroundingsKeep
  <2> QED
    BY <2>1, <2>2 DEF EnrichNext
<1> QED
  BY <1>1, <1>2, PTL DEF EnrichSpec

(* The keys, the row and the calls keep their types. *)
THEOREM EnrichmentTypes == EnrichSpec => []EnrichTypeOK
<1>1. EnrichInv => EnrichTypeOK
  BY CallTypes DEF EnrichInv, EnrichTypes, EnrichTypeOK
<1> QED
  BY <1>1, EnrichInvariant, PTL

(* After a call that fetched and wrote with no other under way the row is what the key
   holds, and a cached summary is of that row unless it raced; what is kept lacks a fact
   only for a request that failed, and is never nothing (moralis_enrichment.go). *)
THEOREM EnrichmentHolds == EnrichSpec => []EnrichmentAgrees
<1>1. EnrichInv => EnrichmentAgrees
  BY DEF EnrichInv, Agreement, WorthKept, EnrichmentAgrees
<1> QED
  BY <1>1, EnrichInvariant, PTL
-----------------------------------------------------------------------------
(* What comes in behaves as each of its parts does: the others' steps leave it alone. *)
LEMMA ComingBehaves ==
    ComingSpec => Spec /\ ReadsSpec /\ EnrichSpec
<1>1. ComingInit => Init /\ ReadsInit /\ EnrichInit
  BY DEF ComingInit
<1>2. [ComingNext]_comingVars => [Next]_vars /\ [ReadsNext]_readVars /\ [EnrichNext]_enrichVars
  <2> SUFFICES ASSUME [ComingNext]_comingVars
               PROVE  [Next]_vars /\ [ReadsNext]_readVars /\ [EnrichNext]_enrichVars
    OBVIOUS
  <2>1. CASE part = "ingest" /\ Next /\ Stand(part)
    BY <2>1 DEF Stand
  <2>2. CASE part = "reads" /\ ReadsNext /\ Stand(part)
    BY <2>2 DEF Stand
  <2>3. CASE part = "enrichment" /\ EnrichNext /\ Stand(part)
    BY <2>3 DEF Stand
  <2>4. CASE UNCHANGED comingVars
    BY <2>4 DEF comingVars
  <2> QED
    BY <2>1, <2>2, <2>3, <2>4 DEF ComingNext
<1> QED
  BY <1>1, <1>2, PTL DEF ComingSpec, Spec, ReadsSpec, EnrichSpec

(* What was accepted is ingested once everything stands, what a read returns is whole, and an
   undisturbed enrichment leaves the row and the caches alike. *)
THEOREM ComesIn == ComingSpec => []ComesInWhole
<1>1. AcceptedIsIngested /\ ReadIsWhole /\ EnrichmentAgrees => ComesInWhole
  BY DEF ComesInWhole
<1> QED
  BY <1>1, ComingBehaves, AcceptedHolds, ReadsHold, EnrichmentHolds, PTL

(* The variables of every part keep their types. *)
THEOREM ComingTypes == ComingSpec => []ComingTypeOK
<1>1. TypeOK /\ ReadsTypeOK /\ EnrichTypeOK => ComingTypeOK
  BY DEF ComingTypeOK
<1> QED
  BY <1>1, ComingBehaves, TypesHold, ReadsHold, EnrichmentTypes, PTL

(* The claims of a batch keep their promises beside the other parts, too. *)
THEOREM ComingKeeps == ComingSpec => [](ExclusiveClaim /\ ClaimedIsKept /\ CountedPerFailure)
  BY ComingBehaves, ClaimsExclusive, ClaimsKept, CountsBounded, PTL
=============================================================================
