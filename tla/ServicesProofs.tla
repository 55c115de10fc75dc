--------------------------- MODULE ServicesProofs ---------------------------
(***************************************************************************)
(* Proofs about the services: Billing, for any finite set of accounts and  *)
(* any requests; AlertDelivery, for any rules, channels and workers, any   *)
(* signals, and any number of failures and switches; WalletCaches, for any *)
(* number of requests, refreshes, writes and failed calls; and the three   *)
(* together.                                                               *)
(***************************************************************************)
EXTENDS MCServices, FoldLemmas, FiniteSetTheorems, TLAPS
-----------------------------------------------------------------------------
(* Billing.  The owners by updated_at, each once. *)
Orders == {s \in Seq(Owners) : IsInjective(s) /\ \A o \in Owners : \E i \in DOMAIN s : s[i] = o}

(* A sequence whose element at i is moved to the end, position by position. *)
LEMMA MovedLast ==
    ASSUME NEW S, NEW s \in Seq(S), NEW i \in DOMAIN s
    PROVE  /\ Append(RemoveAt(s, i), s[i]) \in Seq(S)
           /\ Len(Append(RemoveAt(s, i), s[i])) = Len(s)
           /\ \A j \in DOMAIN s : Append(RemoveAt(s, i), s[i])[j]
                                   = IF j < i THEN s[j] ELSE IF j < Len(s) THEN s[j + 1] ELSE s[i]
<1> DEFINE p == SubSeq(s, 1, i - 1)
           q == SubSeq(s, i + 1, Len(s))
           r == p \o q
           t == Append(r, s[i])
<1>1. i \in 1..Len(s) /\ Len(s) \in Nat
  OBVIOUS
<1>2. /\ p \in Seq(S) /\ Len(p) = i - 1 /\ \A k \in 1..(i - 1) : p[k] = s[k]
  BY <1>1
<1>3. /\ q \in Seq(S) /\ Len(q) = Len(s) - i /\ \A k \in 1..(Len(s) - i) : q[k] = s[i + k]
  BY <1>1
<1>4. RemoveAt(s, i) = r
  BY DEF RemoveAt
<1>e. s[i] \in S
  OBVIOUS
<1> HIDE DEF p, q
<1>5. r \in Seq(S) /\ Len(r) = Len(s) - 1
  BY <1>1, <1>2, <1>3
<1>6. ASSUME NEW k \in 1..(Len(s) - 1) PROVE r[k] = IF k < i THEN s[k] ELSE s[k + 1]
  <2>2. CASE k <= i - 1
    <3>1. r[k] = p[k] /\ k \in 1..(i - 1) /\ k < i
      BY <1>1, <1>2, <1>3, <2>2
    <3> QED
      BY <1>2, <3>1
  <2>3. CASE k > i - 1
    <3>1. r[k] = q[k - (i - 1)] /\ k - (i - 1) \in 1..(Len(s) - i) /\ ~(k < i)
      BY <1>1, <1>2, <1>3, <2>3
    <3>2. i + (k - (i - 1)) = k + 1
      BY <1>1
    <3> QED
      BY <1>3, <3>1, <3>2
  <2>4. k <= i - 1 \/ k > i - 1
    BY <1>1
  <2> QED
    BY ONLY <2>2, <2>3, <2>4
<1> HIDE DEF r
<1>7. t \in Seq(S) /\ Len(t) = Len(s)
  BY <1>1, <1>5, <1>e
<1>8. ASSUME NEW j \in 1..Len(s)
      PROVE t[j] = IF j < i THEN s[j] ELSE IF j < Len(s) THEN s[j + 1] ELSE s[i]
  <2>1. CASE j < Len(s)
    <3>1. j \in 1..(Len(s) - 1) /\ j \in 1..Len(r)
      BY <1>1, <1>5, <2>1
    <3>2. t[j] = r[j]
      BY <1>5, <1>e, <3>1
    <3> QED
      BY <1>6, <2>1, <3>1, <3>2
  <2>2. CASE ~(j < Len(s))
    <3>1. j = Len(r) + 1 /\ ~(j < i)
      BY <1>1, <1>5, <2>2
    <3>2. t[j] = s[i]
      BY <1>5, <1>e, <3>1
    <3> QED
      BY <2>2, <3>1, <3>2
  <2> QED
    BY <2>1, <2>2
<1> QED
  BY <1>4, <1>7, <1>8

(* Who is moved to the end leaves the others as they are. *)
LEMMA MovedToEnd ==
    ASSUME NEW s \in Orders, NEW i \in DOMAIN s
    PROVE  Append(RemoveAt(s, i), s[i]) \in Orders
<1> DEFINE t == Append(RemoveAt(s, i), s[i])
<1>0. s \in Seq(Owners) /\ IsInjective(s) /\ \A o \in Owners : \E k \in DOMAIN s : s[k] = o
  BY DEF Orders
<1>1. PICK n \in Nat : n = Len(s) /\ DOMAIN s = 1..n /\ i \in 1..n
  BY <1>0
<1> DEFINE from(j) == IF j < i THEN j ELSE IF j < n THEN j + 1 ELSE i
<1>4. t \in Seq(Owners) /\ DOMAIN t = 1..n /\ \A j \in 1..n : t[j] = s[from(j)]
  <2>1. /\ t \in Seq(Owners) /\ Len(t) = n
        /\ \A j \in 1..n : t[j] = IF j < i THEN s[j] ELSE IF j < n THEN s[j + 1] ELSE s[i]
    <3>1. /\ t \in Seq(Owners) /\ Len(t) = Len(s)
          /\ \A j \in DOMAIN s : t[j] = IF j < i THEN s[j] ELSE IF j < Len(s) THEN s[j + 1] ELSE s[i]
      BY <1>0, MovedLast
    <3> HIDE DEF t
    <3> QED
      BY <1>1, <3>1
  <2> HIDE DEF t
  <2>2. ASSUME NEW j \in 1..n PROVE t[j] = s[from(j)]
    BY <2>1
  <2> QED
    BY <2>1, <2>2
<1> HIDE DEF t
<1>i. n \in Nat /\ i \in 1..n
  BY <1>1
<1>5. /\ \A j \in 1..n : from(j) \in 1..n
      /\ \A j, k \in 1..n : from(j) = from(k) => j = k
  <2>1. ASSUME NEW j \in 1..n PROVE from(j) \in 1..n
    BY ONLY <1>i
  <2>2. ASSUME NEW j \in 1..n, NEW k \in 1..n, from(j) = from(k) PROVE j = k
    <3>1. i \in Nat /\ j \in Nat /\ k \in Nat /\ i <= n /\ j <= n /\ k <= n
      BY ONLY <1>i
    <3>2. CASE j < i
      BY ONLY <1>i, <2>2, <3>1, <3>2
    <3>3. CASE ~(j < i) /\ j < n
      <4>1. from(j) = j + 1
        BY ONLY <3>3
      <4>2. from(k) = IF k < i THEN k ELSE IF k < n THEN k + 1 ELSE i
        OBVIOUS
      <4> HIDE DEF from
      <4>3. IF k < i THEN j + 1 = k ELSE IF k < n THEN j + 1 = k + 1 ELSE j + 1 = i
        BY ONLY <2>2, <4>1, <4>2
      <4> QED
        BY ONLY <1>i, <3>1, <3>3, <4>3
    <3>4. CASE ~(j < i) /\ ~(j < n)
      BY ONLY <1>i, <2>2, <3>1, <3>4
    <3> QED
      BY ONLY <3>2, <3>3, <3>4
  <2> QED
    BY ONLY <2>1, <2>2
<1>6. \A k \in 1..n : \E j \in 1..n : from(j) = k
  <2> TAKE k \in 1..n
  <2>1. CASE k < i
    BY <1>1, <2>1
  <2>2. CASE k = i
    <3>1. n \in 1..n /\ from(n) = i
      BY <1>1
    <3> QED
      BY <2>2, <3>1
  <2>3. CASE k > i
    <3>1. k - 1 \in 1..n /\ from(k - 1) = k
      BY <1>1, <2>3
    <3> QED
      BY <3>1
  <2> QED
    BY <1>1, <2>1, <2>2, <2>3
<1> HIDE DEF from
<1>7. \A j, k \in 1..n : s[j] = s[k] => j = k
  BY <1>0, <1>1 DEF IsInjective
<1>8. IsInjective(t)
  <2> SUFFICES ASSUME NEW j \in 1..n, NEW k \in 1..n, t[j] = t[k] PROVE j = k
    BY <1>4 DEF IsInjective
  <2>1. s[from(j)] = s[from(k)]
    BY <1>4
  <2> QED
    BY <1>5, <1>7, <2>1
<1>9. \A o \in Owners : \E j \in DOMAIN t : t[j] = o
  <2> TAKE o \in Owners
  <2>1. PICK k \in 1..n : s[k] = o
    BY <1>0, <1>1
  <2>2. PICK j \in 1..n : from(j) = k
    BY <1>6
  <2> QED
    BY <1>4, <2>1, <2>2
<1>10. t \in Orders
  BY <1>4, <1>8, <1>9 DEF Orders
<1> QED
  BY <1>10 DEF t

(* The recursion of the fold that takes the known accounts. *)
Knows(g, os) ==
    g = [t \in SUBSET DOMAIN os |-> IF t = {} THEN <<>> ELSE IfKnown(g[t \ {Max(t)}], os[Max(t)])]

(* The known accounts by the recursion of FoldLeft. *)
LEMMA KnownByRecursion ==
    ASSUME NEW os PROVE KnownOf(os) = (CHOOSE g : Knows(g, os))[DOMAIN os]
BY DEF KnownOf, FoldLeft, MapThenFoldSet, Knows

(* An account with the subscription it names. *)
Listed == {b \in [owner : Owners, sub : Names] : b.sub = account[b.owner].names}

(* An account is added to those known, or not. *)
LEMMA IfKnownTyped ==
    ASSUME account \in [Owners -> Accounts], NEW known \in Seq(Listed), NEW o \in Owners
    PROVE  IfKnown(known, o) \in Seq(Listed)
<1>1. account[o].names # NoName => [owner |-> o, sub |-> account[o].names] \in Listed
  BY DEF Listed, Accounts
<1> QED
  BY <1>1 DEF IfKnown

(* The known accounts are of owners and name a subscription. *)
LEMMA KnownTyped ==
    ASSUME account \in [Owners -> Accounts], NEW os \in Seq(Owners)
    PROVE  KnownOf(os) \in Seq(Listed)
<1> DEFINE n == Len(os)
           V == Seq(Listed)
           step == [p \in V \X Owners |-> IfKnown(p[1], p[2])]
           none == <<>>
           c == CHOOSE g : Knows(g, os)
<1>1. n \in Nat /\ DOMAIN os = 1..n /\ os \in [1..n -> Owners]
  OBVIOUS
<1>2. none \in V /\ \A v \in V, o \in Owners : step[<<v, o>>] = IfKnown(v, o)
  OBVIOUS
<1>3. step \in [V \X Owners -> V]
  BY IfKnownTyped
<1>k. KnownOf(os) = c[1..n]
  BY <1>1, KnownByRecursion
<1>f. \A g : Knows(g, os) <=>
        g = [t \in SUBSET (1..n) |-> IF t = {} THEN none ELSE IfKnown(g[t \ {Max(t)}], os[Max(t)])]
  BY <1>1 DEF Knows
<1> HIDE DEF n, step, V, none
<1>4. Knows(c, os)
  <2>1. PICK g \in [SUBSET (1..n) -> V] : Folds(g, step, none, os, n)
    <3>1. \E g \in [SUBSET (1..n) -> V] : Folds(g, step, none, os, n)
      BY ONLY <1>1, <1>2, <1>3, FoldExists
    <3> QED
      BY ONLY <3>1
  <2>2. ASSUME NEW t \in SUBSET (1..n), t # {}
        PROVE  g[t] = IfKnown(g[t \ {Max(t)}], os[Max(t)])
    <3>1. g[t] = step[<<g[t \ {Max(t)}], os[Max(t)]>>]
      BY <2>1, <2>2 DEF Folds
    <3>2. Max(t) \in 1..n /\ t \ {Max(t)} \in SUBSET (1..n)
      BY <1>1, <2>2, LargestPosition
    <3>3. g[t \ {Max(t)}] \in V /\ os[Max(t)] \in Owners
      BY <1>1, <2>1, <3>2
    <3> QED
      BY <1>2, <3>1, <3>3
  <2>3. g[{}] = none
    BY <2>1 DEF Folds
  <2>4. g = [t \in SUBSET (1..n) |-> g[t]]
    BY <2>1
  <2>5. Knows(g, os)
    BY <1>f, <2>2, <2>3, <2>4
  <2> QED
    BY <2>5
<1> HIDE DEF c
<1>5. c[{}] = none /\ \A t \in SUBSET (1..n) : t # {} => c[t] = IfKnown(c[t \ {Max(t)}], os[Max(t)])
  BY <1>f, <1>4
<1>7. ASSUME NEW t \in SUBSET (1..n), t # {}, c[t \ {Max(t)}] \in V
      PROVE  c[t] = step[<<c[t \ {Max(t)}], os[Max(t)]>>]
  <2>1. os[Max(t)] \in Owners
    BY <1>1, <1>7, LargestPosition
  <2> QED
    BY <1>2, <1>5, <1>7, <2>1
<1>8. PICK h \in [0..n -> V] : FoldSteps(h, c, step, none, os, n)
  <2>2. FoldsWithin(c, V, step, none, os, n)
    BY <1>5, <1>7 DEF FoldsWithin
  <2> QED
    BY ONLY <1>1, <1>2, <1>3, <2>2, FoldGoes
<1>9. h[n] \in V /\ h[n] = c[1..n]
  BY <1>1, <1>8 DEF FoldSteps
<1> QED
  BY <1>k, <1>9 DEF V

(* A sequence of all the owners at first: as many positions as owners. *)
LEMMA FirstOrders == SetToSeqs(Owners) \subseteq Orders
<1> SUFFICES ASSUME NEW s \in SetToSeqs(Owners) PROVE s \in Orders
  OBVIOUS
<1> DEFINE n == Cardinality(Owners)
<1>1. n \in Nat
  BY BillingAssumption, FS_CardinalityType
<1>2. s \in [1..n -> Owners] /\ \A i, j \in 1..n : i # j => s[i] # s[j]
  BY DEF SetToSeqs
<1>3. Cardinality(1..n) = n /\ IsFiniteSet(1..n)
  BY <1>1, FS_Interval
<1> HIDE DEF n
<1>4. s \in Injection(1..n, Owners)
  BY <1>2 DEF Injection, IsInjective
<1>5. s \in Surjection(1..n, Owners)
  <2>1. Cardinality(1..n) = Cardinality(Owners) <=> s \in Surjection(1..n, Owners)
    BY <1>4, BillingAssumption, FS_Injection
  <2> QED
    BY <1>3, <2>1 DEF n
<1>6. s \in Seq(Owners) /\ DOMAIN s = 1..n
  BY <1>1, <1>2
<1> QED
  BY <1>4, <1>5, <1>6 DEF Orders, Injection, Surjection

(* What a request holds and the order of the owners, besides the types; each subscription
   began with an event. *)
Events == [owner : Owners, sub : Names, is : Subscriptions, named : BOOLEAN]
Answers == Subscriptions \cup {NoSubscription}
Batches == [owner : Owners, sub : Names]
BillingInv ==
    /\ BillingTypeOK
    /\ stalest \in Orders
    /\ \A h \in Hooks : hookAt[h] # "idle" => event[h] \in DOMAIN sent
    /\ Len(sent) \in Nat
    /\ \A o \in Owners : Len(stripe[o]) <= Len(sent)

(* Orders are what the type of stalest says. *)
LEMMA OrdersRange ==
    ASSUME NEW s \in Orders PROVE IsInjective(s) /\ Range(s) = Owners
<1>1. s \in Seq(Owners) /\ \A i \in DOMAIN s : s[i] \in Owners
  BY DEF Orders
<1> QED
  BY <1>1 DEF Orders, Range

(* A subscription makes an account, and a plan there is. *)
LEMMA AccountOf ==
    ASSUME NEW s \in Answers, NEW n \in Names \cup {NoName}
    PROVE  [status |-> s.status, tier |-> TierOf(s), names |-> n] \in Accounts
<1>1. s.status \in Statuses \cup {"none"} /\ s.tier \in Tiers
  BY DEF Answers, Subscriptions, NoSubscription, Tiers
<1>2. TierOf(s) \in Tiers
  BY <1>1 DEF TierOf, Tiers
<1> QED
  BY <1>1, <1>2 DEF Accounts

(* An account that is written goes to the end of the order. *)
LEMMA Upserts ==
    ASSUME stalest \in Orders, account \in [Owners -> Accounts],
           NEW o \in Owners, NEW a \in Accounts, Upsert(o, a)
    PROVE  stalest' \in Orders /\ account' \in [Owners -> Accounts]
<1>1. PICK i \in DOMAIN stalest :
         stalest[i] = o /\ stalest' = Append(RemoveAt(stalest, i), o)
  BY DEF Upsert
<1>2. Append(RemoveAt(stalest, i), stalest[i]) \in Orders
  BY MovedToEnd
<1>3. stalest' = Append(RemoveAt(stalest, i), stalest[i])
  BY <1>1
<1>4. stalest' \in Orders
  BY ONLY <1>2, <1>3
<1>5. account' \in [Owners -> Accounts]
  BY DEF Upsert
<1> QED
  BY <1>4, <1>5

(* The types of what Stripe, the requests, the run and the tables have, and the names they use. *)
StripeOK ==
    /\ stripe \in [Owners -> Seq(Subscriptions)] /\ sent \in Seq(Events)
    /\ delivered \subseteq DOMAIN sent /\ repeats \in 0..MaxRepeats
    /\ \A o \in Owners : Len(stripe[o]) <= Len(sent)
    /\ \A i \in DOMAIN sent : sent[i].sub \in DOMAIN stripe[sent[i].owner]
HooksOK ==
    /\ hookAt \in [Hooks -> {"idle", "record", "find", "account", "row"}]
    /\ event \in [Hooks -> {0} \cup DOMAIN sent] /\ existing \in [Hooks -> Accounts]
    /\ \A h \in Hooks : hookAt[h] # "idle" => event[h] \in DOMAIN sent
    /\ \A h \in Hooks : hookAt[h] = "account" =>
          existing[h].names \in {NoName} \cup DOMAIN stripe[Owner(h)]
SyncOK ==
    /\ syncAt \in {"idle", "get", "row", "account"}
    /\ batch \in Seq(Batches) /\ fetched \in Answers /\ (batch = <<>>) = (syncAt = "idle")
    /\ \A i \in DOMAIN batch : batch[i].sub \in DOMAIN stripe[batch[i].owner]
TablesOK ==
    /\ account \in [Owners -> Accounts] /\ subscriptionRow \in [Owners -> [Names -> Answers]]
    /\ stalest \in Orders /\ activated \in [Owners -> Nat]
    /\ billingFailures \in 0..MaxBillingFailures
    /\ \A o \in Owners : account[o].names \in {NoName} \cup DOMAIN stripe[o]

(* The parts make the whole. *)
LEMMA BillingParts ==
    StripeOK /\ HooksOK /\ SyncOK /\ TablesOK <=> BillingInv
<1> USE DEF Events, Answers, Batches
<1>1. ASSUME StripeOK, HooksOK, SyncOK, TablesOK PROVE BillingInv
  <2>1. IsInjective(stalest) /\ Range(stalest) = Owners
    BY <1>1, OrdersRange DEF TablesOK
  <2>2. Len(sent) \in Nat
    BY <1>1 DEF StripeOK
  <2>3. NamesKnown
    BY <1>1 DEF StripeOK, HooksOK, SyncOK, TablesOK, NamesKnown
  <2> QED
    BY <1>1, <2>1, <2>2, <2>3 DEF StripeOK, HooksOK, SyncOK, TablesOK, BillingInv, BillingTypeOK
<1>2. ASSUME BillingInv PROVE StripeOK /\ HooksOK /\ SyncOK /\ TablesOK
  <2>1. NamesKnown
    BY <1>2 DEF BillingInv, BillingTypeOK
  <2>2. StripeOK
    BY <1>2, <2>1 DEF StripeOK, BillingInv, BillingTypeOK, NamesKnown
  <2>3. HooksOK
    BY <1>2, <2>1 DEF HooksOK, BillingInv, BillingTypeOK, NamesKnown
  <2>4. SyncOK
    BY <1>2, <2>1 DEF SyncOK, BillingInv, BillingTypeOK, NamesKnown
  <2>5. TablesOK
    BY <1>2, <2>1 DEF TablesOK, BillingInv, BillingTypeOK, NamesKnown
  <2> QED
    BY <2>2, <2>3, <2>4, <2>5
<1> QED
  BY <1>1, <1>2

(* Billing begins with its types. *)
LEMMA BillingStarts == BillingInit => BillingInv
<1> SUFFICES ASSUME BillingInit PROVE BillingInv
  OBVIOUS
<1>1. stalest \in Orders
  BY FirstOrders DEF BillingInit
<1>2. NoSubscription \in Answers /\ NoAccount \in Accounts /\ NoAccount.names = NoName
  BY DEF Answers, NoAccount, Accounts, Tiers
<1>3. sent = <<>> /\ sent \in Seq(Events) /\ Len(sent) = 0 /\ DOMAIN sent = {}
  BY DEF BillingInit
<1>4. 0 \in 0..MaxRepeats /\ 0 \in 0..MaxBillingFailures
  BY BillingAssumption
<1>5. batch = <<>> /\ batch \in Seq(Batches) /\ DOMAIN batch = {} /\ syncAt = "idle"
  BY DEF BillingInit
<1>6. StripeOK
  BY <1>3, <1>4 DEF StripeOK, BillingInit
<1>7. HooksOK
  BY <1>2, <1>3 DEF HooksOK, BillingInit
<1>8. SyncOK
  BY <1>2, <1>5 DEF SyncOK, BillingInit
<1>9. TablesOK
  BY <1>1, <1>2, <1>4 DEF TablesOK, BillingInit
<1> QED
  BY <1>6, <1>7, <1>8, <1>9, BillingParts

(* What a request's event says. *)
LEMMA EventSays ==
    ASSUME StripeOK, HooksOK, NEW h \in Hooks, hookAt[h] # "idle"
    PROVE  /\ Owner(h) \in Owners /\ Said(h) \in Subscriptions /\ sent[event[h]].named \in BOOLEAN
           /\ sent[event[h]].sub \in Names /\ sent[event[h]].sub \in DOMAIN stripe[Owner(h)]
<1>1. sent[event[h]] \in Events /\ sent[event[h]].sub \in DOMAIN stripe[Owner(h)]
  BY DEF StripeOK, HooksOK, Owner
<1> QED
  BY <1>1 DEF Events, Owner, Said

(* An event is emitted by a step of Stripe that takes no subscription away. *)
LEMMA Emitting ==
    ASSUME StripeOK, HooksOK, SyncOK, TablesOK,
           NEW o \in Owners, NEW n \in Names, NEW s \in Subscriptions, Emits(o, n, s),
           stripe' \in [Owners -> Seq(Subscriptions)],
           n \in DOMAIN stripe'[o],
           \A p \in Owners : Len(stripe'[p]) <= Len(sent) + 1 /\ Len(stripe[p]) <= Len(stripe'[p])
    PROVE  StripeOK' /\ HooksOK' /\ SyncOK' /\ TablesOK'
<1>1. PICK named \in BOOLEAN :
         sent' = Append(sent, [owner |-> o, sub |-> n, is |-> s, named |-> named])
  BY DEF Emits
<1>2. [owner |-> o, sub |-> n, is |-> s, named |-> named] \in Events
  BY DEF Events
<1>3. sent \in Seq(Events)
  BY DEF StripeOK
<1> DEFINE e == [owner |-> o, sub |-> n, is |-> s, named |-> named]
<1>4. e \in Events /\ e.owner = o /\ e.sub = n /\ sent' = Append(sent, e)
  BY <1>1, <1>2
<1> HIDE DEF e
<1>5. /\ sent' \in Seq(Events) /\ Len(sent') = Len(sent) + 1 /\ DOMAIN sent' = 1..(Len(sent) + 1)
      /\ \A i \in DOMAIN sent : i \in DOMAIN sent' /\ sent'[i] = sent[i]
      /\ sent'[Len(sent) + 1] = e /\ Len(sent) \in Nat /\ DOMAIN sent = 1..Len(sent)
  BY <1>3, <1>4
<1>6. \A p \in Owners : DOMAIN stripe[p] \subseteq DOMAIN stripe'[p]
  BY DEF StripeOK
<1>7. StripeOK'
  <2>1. ASSUME NEW i \in DOMAIN sent' PROVE sent'[i].sub \in DOMAIN stripe'[sent'[i].owner]
    <3>1. CASE i \in DOMAIN sent
      <4>0. sent[i] \in Events
        BY <1>3, <3>1
      <4>1. sent[i].owner \in Owners
        BY <4>0 DEF Events
      <4> QED
        BY <1>5, <1>6, <3>1, <4>1 DEF StripeOK
    <3>2. CASE i = Len(sent) + 1
      BY <1>4, <1>5, <3>2
    <3> QED
      BY <1>5, <2>1, <3>1, <3>2
  <2>2. delivered' = delivered /\ repeats' = repeats
    BY DEF Emits
  <2>3. delivered' \subseteq DOMAIN sent' /\ repeats' \in 0..MaxRepeats
    BY <1>5, <2>2 DEF StripeOK
  <2> QED
    BY <1>5, <2>1, <2>3 DEF StripeOK
<1>8. HooksOK'
  <2>1. UNCHANGED <<hookAt, event, existing>>
    BY DEF Emits
  <2>2. ASSUME NEW h \in Hooks, hookAt[h] = "account"
        PROVE  existing[h].names \in {NoName} \cup DOMAIN stripe'[sent'[event[h]].owner]
    <3>1. event[h] \in DOMAIN sent /\ Owner(h) \in Owners
      BY <2>2, EventSays DEF HooksOK
    <3>2. sent'[event[h]].owner = Owner(h)
      BY <1>5, <3>1 DEF Owner
    <3> QED
      BY <1>6, <2>2, <3>1, <3>2 DEF HooksOK
  <2> QED
    BY <1>5, <2>1, <2>2 DEF HooksOK, Owner
<1>9. SyncOK'
  <2>1. UNCHANGED <<syncAt, batch, fetched>>
    BY DEF Emits
  <2>2. ASSUME NEW i \in DOMAIN batch PROVE batch[i].sub \in DOMAIN stripe'[batch[i].owner]
    <3>0. batch[i] \in Batches
      BY <2>2 DEF SyncOK
    <3>1. batch[i].owner \in Owners
      BY <3>0 DEF Batches
    <3> QED
      BY <1>6, <3>1 DEF SyncOK
  <2> QED
    BY <2>1, <2>2 DEF SyncOK
<1>10. TablesOK'
  BY <1>6 DEF Emits, TablesOK
<1> QED
  BY <1>7, <1>8, <1>9, <1>10

(* Stripe's steps keep the types. *)
LEMMA StripeSteps ==
    ASSUME BillingInv,
           \/ \E o \in Owners : Subscribe(o) \/ Change(o)
           \/ \E h \in Hooks, n \in 1..MaxChanges : Deliver(h, n)
    PROVE  BillingInv'
<1>0. StripeOK /\ HooksOK /\ SyncOK /\ TablesOK
  BY BillingParts
<1>1. ASSUME NEW o \in Owners, Subscribe(o) PROVE StripeOK' /\ HooksOK' /\ SyncOK' /\ TablesOK'
  <2>1. PICK tier \in PaidTiers :
           /\ stripe' = [stripe EXCEPT ![o] = Append(stripe[o], [status |-> "active", tier |-> tier])]
           /\ Emits(o, Len(stripe[o]) + 1, [status |-> "active", tier |-> tier])
    BY <1>1 DEF Subscribe
  <2>2. PICK s \in Subscriptions : s = [status |-> "active", tier |-> tier]
    BY DEF Subscriptions, Statuses
  <2>3. /\ stripe \in [Owners -> Seq(Subscriptions)] /\ stripe[o] \in Seq(Subscriptions)
        /\ \A p \in Owners : Len(stripe[p]) <= Len(sent)
        /\ Len(sent) \in Nat /\ Len(sent) < MaxChanges /\ MaxChanges \in Nat
    BY <1>0, <2>1, BillingAssumption DEF StripeOK, Emits
  <2>4. stripe' = [stripe EXCEPT ![o] = Append(stripe[o], s)] /\ Emits(o, Len(stripe[o]) + 1, s)
    BY <2>1, <2>2
  <2>5. Len(stripe[o]) + 1 \in Names
    BY <2>3 DEF Names
  <2>6. /\ Append(stripe[o], s) \in Seq(Subscriptions)
        /\ Len(Append(stripe[o], s)) = Len(stripe[o]) + 1
        /\ DOMAIN Append(stripe[o], s) = 1..(Len(stripe[o]) + 1)
    BY <2>3
  <2>7. stripe' \in [Owners -> Seq(Subscriptions)] /\ Len(stripe[o]) + 1 \in DOMAIN stripe'[o]
    BY <2>3, <2>4, <2>6
  <2>8. ASSUME NEW p \in Owners
        PROVE  Len(stripe'[p]) <= Len(sent) + 1 /\ Len(stripe[p]) <= Len(stripe'[p])
    <3>1. stripe'[p] = IF p = o THEN Append(stripe[o], s) ELSE stripe[p]
      BY <2>3, <2>4
    <3>2. Len(stripe[p]) \in Nat /\ Len(stripe[p]) <= Len(sent)
      BY <2>3
    <3> QED
      BY <2>3, <2>6, <3>1, <3>2
  <2> QED
    BY <1>0, <2>4, <2>5, <2>7, <2>8, Emitting
<1>c. ASSUME NEW o \in Owners, Change(o) PROVE StripeOK' /\ HooksOK' /\ SyncOK' /\ TablesOK'
  <2>1. PICK n \in DOMAIN stripe[o], s \in Subscriptions :
           stripe' = [stripe EXCEPT ![o][n] = s] /\ Emits(o, n, s)
    BY <1>c DEF Change
  <2>2. /\ stripe \in [Owners -> Seq(Subscriptions)] /\ stripe[o] \in Seq(Subscriptions)
        /\ \A p \in Owners : Len(stripe[p]) <= Len(sent)
        /\ Len(sent) \in Nat /\ Len(sent) < MaxChanges /\ MaxChanges \in Nat
    BY <1>0, <2>1, BillingAssumption DEF StripeOK, Emits
  <2>3. n \in Names
    BY <2>2 DEF Names
  <2>4. stripe' = [stripe EXCEPT ![o] = [stripe[o] EXCEPT ![n] = s]]
    BY <2>1, <2>2
  <2>5. /\ [stripe[o] EXCEPT ![n] = s] \in Seq(Subscriptions)
        /\ Len([stripe[o] EXCEPT ![n] = s]) = Len(stripe[o])
        /\ DOMAIN [stripe[o] EXCEPT ![n] = s] = DOMAIN stripe[o]
    BY <2>2
  <2>6. stripe' \in [Owners -> Seq(Subscriptions)] /\ n \in DOMAIN stripe'[o]
    BY <2>2, <2>4, <2>5
  <2>7. ASSUME NEW p \in Owners
        PROVE  Len(stripe'[p]) <= Len(sent) + 1 /\ Len(stripe[p]) <= Len(stripe'[p])
    <3>1. Len(stripe'[p]) = Len(stripe[p])
      BY <2>2, <2>4, <2>5
    <3>2. Len(stripe[p]) \in Nat /\ Len(stripe[p]) <= Len(sent)
      BY <2>2
    <3> QED
      BY <2>2, <3>1, <3>2
  <2> QED
    BY <1>0, <2>1, <2>3, <2>6, <2>7, Emitting
<1>2. ASSUME NEW h \in Hooks, NEW n \in 1..MaxChanges, Deliver(h, n)
      PROVE  StripeOK' /\ HooksOK' /\ SyncOK' /\ TablesOK'
  <2>1. repeats' \in 0..MaxRepeats
    BY <1>0, <1>2, BillingAssumption DEF StripeOK, Deliver
  <2>2. StripeOK'
    BY <1>0, <1>2, <2>1 DEF StripeOK, Deliver
  <2>3. HooksOK'
    BY <1>0, <1>2 DEF HooksOK, Deliver, Owner
  <2>4. SyncOK' /\ TablesOK'
    BY <1>0, <1>2 DEF SyncOK, TablesOK, Deliver
  <2> QED
    BY <2>2, <2>3, <2>4
<1>3. (StripeOK' /\ HooksOK' /\ SyncOK' /\ TablesOK') => BillingInv'
  BY BillingParts, PTL
<1> QED
  BY <1>1, <1>c, <1>2, <1>3

(* The calls of a request keep the types. *)
LEMMA HookSteps ==
    ASSUME BillingInv, NEW h \in Hooks, WebhookStep(h) \/ WebhookFails(h)
    PROVE  BillingInv'
<1>0. StripeOK /\ HooksOK /\ SyncOK /\ TablesOK
  BY BillingParts
<1>n. NoAccount \in Accounts
  BY DEF NoAccount, Accounts, Tiers
<1>p. (StripeOK' /\ HooksOK' /\ SyncOK' /\ TablesOK') => BillingInv'
  BY BillingParts, PTL
<1>1. CASE RecordWebhookEvent(h)
  <2>1. HooksOK'
    BY <1>0, <1>1 DEF HooksOK, RecordWebhookEvent, Owner
  <2>2. StripeOK' /\ SyncOK' /\ TablesOK'
    BY <1>0, <1>1 DEF StripeOK, SyncOK, TablesOK, RecordWebhookEvent
  <2> QED
    BY <2>1, <2>2, <1>p
<1>2. CASE FindBillingAccount(h)
  <2>1. Owner(h) \in Owners
    BY <1>0, <1>2, EventSays DEF FindBillingAccount
  <2>2. account[Owner(h)] \in Accounts
    BY <1>0, <2>1 DEF TablesOK
  <2>3. HooksOK'
    <3>1. account[Owner(h)].names \in {NoName} \cup DOMAIN stripe[Owner(h)]
      BY <1>0, <2>1 DEF TablesOK
    <3> QED
      BY <1>0, <1>2, <2>2, <3>1 DEF HooksOK, FindBillingAccount, Owner
  <2>4. StripeOK' /\ SyncOK' /\ TablesOK'
    BY <1>0, <1>2 DEF StripeOK, SyncOK, TablesOK, FindBillingAccount
  <2> QED
    BY <2>3, <2>4, <1>p
<1>3. CASE UpsertBillingAccount(h)
  <2> DEFINE b == IF sent[event[h]].named THEN sent[event[h]].sub ELSE existing[h].names
             a == [status |-> Said(h).status, tier |-> TierOf(Said(h)), names |-> b]
  <2>1. /\ Owner(h) \in Owners /\ Said(h) \in Subscriptions /\ sent[event[h]].named \in BOOLEAN
        /\ sent[event[h]].sub \in Names /\ sent[event[h]].sub \in DOMAIN stripe[Owner(h)]
        /\ hookAt[h] = "account"
    BY <1>0, <1>3, EventSays DEF UpsertBillingAccount
  <2>b. b \in Names \cup {NoName} /\ b \in {NoName} \cup DOMAIN stripe[Owner(h)]
    <3>1. existing[h] \in Accounts /\ existing[h].names \in {NoName} \cup DOMAIN stripe[Owner(h)]
      BY <1>0, <2>1 DEF HooksOK
    <3>2. existing[h].names \in Names \cup {NoName}
      BY <3>1 DEF Accounts
    <3> QED
      BY <2>1, <3>1, <3>2
  <2>2. a \in Accounts /\ a.names = b
    <3> HIDE DEF b
    <3> QED
      BY <2>1, <2>b, AccountOf DEF Answers
  <2>3. Upsert(Owner(h), a)
    BY <1>3 DEF UpsertBillingAccount
  <2> HIDE DEF a
  <2>4. stalest' \in Orders /\ account' \in [Owners -> Accounts]
    BY <1>0, <2>1, <2>2, <2>3, Upserts DEF TablesOK
  <2>9. \A o \in Owners : account'[o].names \in {NoName} \cup DOMAIN stripe[o]
    <3>1. account' = [account EXCEPT ![Owner(h)] = a]
      BY <2>3 DEF Upsert
    <3> HIDE DEF b
    <3> QED
      BY <1>0, <2>1, <2>2, <2>b, <3>1 DEF TablesOK
  <2>5. activated' \in [Owners -> Nat]
    <3>1. PICK k \in {0, 1} : activated' = [activated EXCEPT ![Owner(h)] = @ + k]
      <4> DEFINE paid == /\ ResolvePlanTier([status |-> Said(h).status, tier |-> TierOf(Said(h)),
                                             names |-> b]) # "free"
                         /\ ResolvePlanTier(account[Owner(h)]) = "free"
      <4>1. activated' = [activated EXCEPT ![Owner(h)] = @ + IF paid THEN 1 ELSE 0]
        BY <1>3 DEF UpsertBillingAccount
      <4> HIDE DEF paid
      <4> QED
        BY <4>1
    <3>2. activated[Owner(h)] + k \in Nat
      BY <1>0, <2>1 DEF TablesOK
    <3> QED
      BY <1>0, <2>1, <3>1, <3>2 DEF TablesOK
  <2>6. TablesOK'
    BY <1>0, <1>3, <2>4, <2>5, <2>9 DEF TablesOK, UpsertBillingAccount
  <2>7. StripeOK' /\ SyncOK'
    BY <1>0, <1>3 DEF StripeOK, SyncOK, UpsertBillingAccount
  <2>8. HooksOK'
    <3>1. hookAt' = [hookAt EXCEPT ![h] = IF sent[event[h]].named THEN "row" ELSE "idle"]
          /\ event' = [event EXCEPT ![h] = IF sent[event[h]].named THEN event[h] ELSE 0]
          /\ existing' = [existing EXCEPT ![h] = NoAccount] /\ sent' = sent /\ stripe' = stripe
      BY <1>3 DEF UpsertBillingAccount
    <3> QED
      BY <1>0, <1>n, <2>1, <3>1 DEF HooksOK, Owner
  <2> QED
    BY <2>6, <2>7, <2>8, <1>p
<1>4. CASE UpsertBillingSubscription(h)
  <2>1. Owner(h) \in Owners /\ Said(h) \in Answers /\ sent[event[h]].sub \in Names
    BY <1>0, <1>4, EventSays DEF UpsertBillingSubscription, Answers
  <2>5. subscriptionRow' \in [Owners -> [Names -> Answers]]
    BY <1>0, <1>4, <2>1 DEF TablesOK, UpsertBillingSubscription
  <2>2. TablesOK'
    BY <1>0, <1>4, <2>5 DEF TablesOK, UpsertBillingSubscription
  <2>3. StripeOK' /\ SyncOK'
    BY <1>0, <1>4 DEF StripeOK, SyncOK, UpsertBillingSubscription
  <2>4. HooksOK'
    BY <1>0, <1>4 DEF HooksOK, UpsertBillingSubscription, Owner
  <2> QED
    BY <2>2, <2>3, <2>4, <1>p
<1>5. CASE WebhookFails(h)
  <2>1. billingFailures' \in 0..MaxBillingFailures
    BY <1>0, <1>5, BillingAssumption DEF TablesOK, WebhookFails
  <2>2. TablesOK'
    BY <1>0, <1>5, <2>1 DEF TablesOK, WebhookFails
  <2>3. StripeOK' /\ SyncOK'
    BY <1>0, <1>5 DEF StripeOK, SyncOK, WebhookFails
  <2>4. HooksOK'
    BY <1>0, <1>n, <1>5 DEF HooksOK, WebhookFails, Owner
  <2> QED
    BY <2>2, <2>3, <2>4, <1>p
<1> QED
  BY <1>1, <1>2, <1>3, <1>4, <1>5, <1>p DEF WebhookStep

(* The calls of the sync run keep the types. *)
LEMMA SyncSteps ==
    ASSUME BillingInv, ListBillingAccounts \/ SyncStep \/ SyncFails
    PROVE  BillingInv'
<1>0. StripeOK /\ HooksOK /\ SyncOK /\ TablesOK
  BY BillingParts
<1>n. NoSubscription \in Answers
  BY DEF Answers
<1>h. ASSUME syncAt # "idle"
      PROVE  /\ batch # <<>> /\ Head(batch) \in Batches /\ Tail(batch) \in Seq(Batches)
             /\ Head(batch).owner \in Owners /\ Head(batch).sub \in Names
             /\ Head(batch).sub \in DOMAIN stripe[Head(batch).owner]
             /\ \A i \in DOMAIN Tail(batch) :
                   Tail(batch)[i].sub \in DOMAIN stripe[Tail(batch)[i].owner]
  <2>1. batch \in Seq(Batches) /\ batch # <<>> /\ Head(batch) = batch[1] /\ 1 \in DOMAIN batch
    BY <1>0, <1>h DEF SyncOK
  <2>2. batch[1] \in Batches /\ Tail(batch) \in Seq(Batches)
    BY <2>1
  <2>3. \A i \in DOMAIN Tail(batch) : i + 1 \in DOMAIN batch /\ Tail(batch)[i] = batch[i + 1]
    BY <2>1
  <2> QED
    BY <1>0, <2>1, <2>2, <2>3 DEF SyncOK, Batches
<1>p. (StripeOK' /\ HooksOK' /\ SyncOK' /\ TablesOK') => BillingInv'
  BY BillingParts, PTL
<1>1. CASE ListBillingAccounts
  <2> DEFINE known == KnownOf(Stalest(stalest))
             k == IF Len(known) < SyncLimit THEN Len(known) ELSE SyncLimit
  <2>1. known \in Seq(Listed)
    BY <1>0, KnownTyped DEF TablesOK, Orders, Stalest
  <2>2. known # <<>> /\ batch' = SubSeq(known, 1, k) /\ syncAt' = "get" /\ fetched' = fetched
    BY <1>1 DEF ListBillingAccounts
  <2> HIDE DEF known
  <2>3. Len(known) \in Nat \ {0}
    BY <2>1, <2>2
  <2>4. k \in 1..Len(known)
    BY <2>3, SyncLimitAssumption
  <2> HIDE DEF k
  <2>5. batch' \in Seq(Listed) /\ Len(batch') = k
    BY <2>1, <2>2, <2>4
  <2>6. batch' # <<>>
    BY <2>3, <2>4, <2>5
  <2>9. ASSUME NEW i \in DOMAIN batch'
        PROVE  batch'[i] \in Batches /\ batch'[i].sub \in DOMAIN stripe[batch'[i].owner]
    <3>1. batch'[i] \in Listed
      BY <2>5
    <3>2. /\ batch'[i].owner \in Owners /\ batch'[i].sub \in Names /\ batch'[i] \in Batches
          /\ batch'[i].sub = account[batch'[i].owner].names
      BY <3>1 DEF Listed, Batches
    <3>3. batch'[i].sub # NoName
      BY <3>2 DEF Names, NoName
    <3> QED
      BY <1>0, <3>2, <3>3 DEF TablesOK
  <2>7. SyncOK'
    <3>0. stripe' = stripe
      BY <1>1 DEF ListBillingAccounts
    <3>1. batch' \in Seq(Batches)
      BY <2>5, <2>9
    <3> QED
      BY <1>0, <2>2, <2>6, <2>9, <3>0, <3>1 DEF SyncOK
  <2>8. StripeOK' /\ HooksOK' /\ TablesOK'
    BY <1>0, <1>1 DEF StripeOK, HooksOK, TablesOK, ListBillingAccounts, Owner
  <2> QED
    BY <2>7, <2>8, <1>p
<1>2. CASE GetSubscription
  <2>1. stripe[Head(batch).owner][Head(batch).sub] \in Answers
    BY <1>0, <1>2, <1>h DEF GetSubscription, StripeOK, Answers
  <2>2. SyncOK'
    BY <1>0, <1>2, <2>1 DEF SyncOK, GetSubscription
  <2>3. StripeOK' /\ HooksOK' /\ TablesOK'
    BY <1>0, <1>2 DEF StripeOK, HooksOK, TablesOK, GetSubscription, Owner
  <2> QED
    BY <2>2, <2>3, <1>p
<1>3. CASE SyncSubscription
  <2>4. subscriptionRow' \in [Owners -> [Names -> Answers]]
    BY <1>0, <1>3, <1>h DEF TablesOK, SyncOK, SyncSubscription
  <2>1. TablesOK'
    BY <1>0, <1>3, <2>4 DEF TablesOK, SyncSubscription
  <2>2. SyncOK'
    BY <1>0, <1>3 DEF SyncOK, SyncSubscription
  <2>3. StripeOK' /\ HooksOK'
    BY <1>0, <1>3 DEF StripeOK, HooksOK, SyncSubscription, Owner
  <2> QED
    BY <2>1, <2>2, <2>3, <1>p
<1>4. CASE SyncAccount
  <2> DEFINE a == [status |-> fetched.status, tier |-> TierOf(fetched), names |-> Head(batch).sub]
  <2>3. /\ Head(batch).owner \in Owners /\ Tail(batch) \in Seq(Batches)
        /\ Head(batch).sub \in Names /\ Head(batch).sub \in DOMAIN stripe[Head(batch).owner]
    BY <1>4, <1>h DEF SyncAccount
  <2>1. a \in Accounts /\ a.names = Head(batch).sub
    <3>1. fetched \in Answers
      BY <1>0 DEF SyncOK
    <3> QED
      BY <2>3, <3>1, AccountOf
  <2>2. Upsert(Head(batch).owner, a)
    BY <1>4 DEF SyncAccount
  <2> HIDE DEF a
  <2>4. stalest' \in Orders /\ account' \in [Owners -> Accounts]
    BY <1>0, <2>1, <2>2, <2>3, Upserts DEF TablesOK
  <2>8. \A o \in Owners : account'[o].names \in {NoName} \cup DOMAIN stripe[o]
    <3>1. account' = [account EXCEPT ![Head(batch).owner] = a]
      BY <2>2 DEF Upsert
    <3> QED
      BY <1>0, <2>1, <2>3, <3>1 DEF TablesOK
  <2>5. TablesOK'
    BY <1>0, <1>4, <2>4, <2>8 DEF TablesOK, SyncAccount
  <2>6. SyncOK'
    BY <1>n, <1>4, <1>h, <2>3 DEF SyncOK, SyncAccount
  <2>7. StripeOK' /\ HooksOK'
    BY <1>0, <1>4 DEF StripeOK, HooksOK, SyncAccount, Owner
  <2> QED
    BY <2>5, <2>6, <2>7, <1>p
<1>5. CASE SyncFails
  <2>1. billingFailures' \in 0..MaxBillingFailures
    BY <1>0, <1>5, BillingAssumption DEF TablesOK, SyncFails
  <2>2. TablesOK'
    BY <1>0, <1>5, <2>1 DEF TablesOK, SyncFails
  <2>3. SyncOK'
    BY <1>n, <1>5 DEF SyncOK, SyncFails
  <2>4. StripeOK' /\ HooksOK'
    BY <1>0, <1>5 DEF StripeOK, HooksOK, SyncFails, Owner
  <2> QED
    BY <2>2, <2>3, <2>4, <1>p
<1> QED
  BY <1>1, <1>2, <1>3, <1>4, <1>5, <1>p DEF SyncStep

(* Every step keeps them. *)
LEMMA BillingKeeps == BillingInv /\ [BillingNext]_billingVars => BillingInv'
<1> SUFFICES ASSUME BillingInv, [BillingNext]_billingVars PROVE BillingInv'
  OBVIOUS
<1>1. CASE UNCHANGED billingVars
  <2>1. StripeOK /\ HooksOK /\ SyncOK /\ TablesOK
    BY BillingParts
  <2>2. StripeOK' /\ HooksOK' /\ SyncOK' /\ TablesOK'
    BY <1>1, <2>1 DEF billingVars, StripeOK, HooksOK, SyncOK, TablesOK, Owner
  <2>3. (StripeOK' /\ HooksOK' /\ SyncOK' /\ TablesOK') => BillingInv'
    BY BillingParts, PTL
  <2> QED
    BY <2>2, <2>3
<1> QED
  BY <1>1, StripeSteps, HookSteps, SyncSteps DEF BillingNext

(* An event is of an owner and of one of its subscriptions, and so is the name of an account, of
   what a request has read of one and of what a run has listed; a request that has begun has an
   event, a run that has begun has accounts left, and each owner stands once in the sync's order. *)
THEOREM BillingTypes == BillingSpec => []BillingTypeOK
<1>1. BillingInv => BillingTypeOK
  BY DEF BillingInv
<1> QED
  BY <1>1, BillingKeeps, BillingStarts, PTL DEF BillingSpec
-----------------------------------------------------------------------------
USE RetryLimitAssumption, NumbersAssumption, DefinitionAssumption, AlertsAssumption

(* An event (its rule and number), a row, and a copy of a row, in general. *)
AllKeys == Rules \X Nat \X Channels
Rows == [status : {"queued", "delivered", "failed"}, tries : Nat, exhausted : BOOLEAN,
         due : BOOLEAN, messages : Nat]
Copies == [key : AllKeys, tries : Nat]
Places == {"idle", "rule", "record", "channels", "create", "send", "update"}
Works == [at : Places, signal : Nat \X Nat, rules : SUBSET Rules, rule : Rules \cup {"none"},
          event : Nat, channels : SUBSET Channels, channel : Channels \cup {"none"}, ok : BOOLEAN]
RetryBatches == [at : {"idle", "send", "update"}, left : SUBSET Copies, key : AllKeys \cup {<<>>},
            ok : BOOLEAN]

(* The calls of a dispatch that are about an event. *)
EventPlaces == {"channels", "create", "send", "update"}

(* What a dispatch holds at its places. *)
WorkTypes(w) ==
    /\ w.at # "idle" => w.signal \in Times \X Severities
    /\ w.at = "idle" => w = Idle
    /\ w.at \in {"rule", "record"} => w.event = 0
    /\ w.at = "record" \/ w.at \in EventPlaces => w.rule \in Rules
    /\ w.at \in EventPlaces => w.event # 0
    /\ w.at \in {"send", "update"} => w.channel \in Channels \ w.channels

TypeInv ==
    /\ live \subseteq Rules /\ enabled \subseteq Channels /\ switched \subseteq Channels
    /\ events \in [Rules -> Seq(Times \X Severities)]
    /\ DOMAIN attempts \subseteq AllKeys
    /\ attempts \in [DOMAIN attempts -> Rows]
    /\ dispatch \in [Dispatchers -> Works]
    /\ \A d \in Dispatchers : WorkTypes(dispatch[d])
    /\ retry \in RetryBatches
    /\ signals \in 0..MaxSignals /\ toggles \in 0..MaxToggles
    /\ alertFailures \in 0..MaxAlertFailures
    /\ served \subseteq Times \X Severities

(* A rule that is gone has no events, a row has an event, and a worker has one that is
   still there or whose rule is gone, for itself. *)
At(d, P) == dispatch[d].at \in P

EventsInv ==
    /\ \A r \in Rules \ live : events[r] = <<>>
    /\ \A k \in DOMAIN attempts : k[2] \in DOMAIN events[k[1]]
    /\ \A d \in Dispatchers :
          At(d, EventPlaces) /\ dispatch[d].rule \in live
             => dispatch[d].event \in DOMAIN events[dispatch[d].rule]
    /\ \A d, e \in Dispatchers :
          /\ d # e /\ At(d, EventPlaces) /\ At(e, EventPlaces)
          /\ dispatch[d].rule \in live
          => dispatch[d].rule # dispatch[e].rule \/ dispatch[d].event # dispatch[e].event

(* No two events of a rule have a key in common. *)
ApartInv ==
    \A r \in Rules : \A i, j \in DOMAIN events[r] :
        i # j => DedupKey(r, events[r][i]) # DedupKey(r, events[r][j])

(* The rules a dispatch has done with are covered. *)
Covered(r, s) ==
    \E i \in DOMAIN events[r] :
       /\ ObservedAt(s) < ObservedAt(events[r][i]) + Window(r)
       /\ Definition[r].renotify => Severity(events[r][i]) >= Severity(s)

Ahead(w, r) == r \in w.rules \/ (w.at = "record" /\ w.rule = r)

CoverInv ==
    /\ CoveredSignals
    /\ \A d \in Dispatchers : ~At(d, {"idle"}) =>
          \A r \in live : ~Ahead(dispatch[d], r) /\ Wanted(r, dispatch[d].signal)
                            => Covered(r, dispatch[d].signal)

(* The row of a channel that a dispatch has still to do is not there, and the one it
   sends for is queued. *)
HandledInv ==
    \A d \in Dispatchers :
       /\ At(d, {"channels"}) =>
             \A c \in Channels : <<dispatch[d].rule, dispatch[d].event, c>> \notin DOMAIN attempts
       /\ At(d, {"create", "send", "update"}) =>
             \A c \in dispatch[d].channels :
                <<dispatch[d].rule, dispatch[d].event, c>> \notin DOMAIN attempts
       /\ At(d, {"send", "update"}) /\ dispatch[d].rule \in live =>
             Key(d) \in DOMAIN attempts /\ attempts[Key(d)].status = "queued"

(* The batch has rows that failed, or whose rule is gone. *)
BatchInv ==
    /\ \A row \in retry.left :
          \/ row.key \in DOMAIN attempts /\ attempts[row.key].status = "failed"
          \/ row.key[1] \notin live
    /\ \A one, other \in retry.left : one.key = other.key => one = other
    /\ retry.at = "update" => \E row \in retry.left : row.key = retry.key

(* A row that may be sent for has had no more messages than there were failures. *)
PaidInv ==
    \A k \in DOMAIN attempts :
       /\ attempts[k].messages <= 1 + alertFailures
       /\ attempts[k].status = "failed" /\ ~(retry.at = "update" /\ retry.key = k /\ retry.ok)
             => attempts[k].messages <= alertFailures
       /\ \A d \in Dispatchers : Key(d) = k =>
             /\ At(d, {"send"}) => attempts[k].messages = 0
             /\ At(d, {"update"}) /\ ~dispatch[d].ok => attempts[k].messages <= alertFailures

(* A channel of an event has an answer. *)
Answered(r, i, c) ==
    <<r, i, c>> \in DOMAIN attempts /\ attempts[<<r, i, c>>].status # "queued"

(* A worker that goes through the channels leaves those behind it answered. *)
AnswerInv ==
    \A d \in Dispatchers : At(d, {"create", "send", "update"}) /\ dispatch[d].rule \in live =>
       \A c \in (ChannelsOf[dispatch[d].rule] \cap enabled) \ switched :
          \/ c \in dispatch[d].channels
          \/ At(d, {"send", "update"}) /\ c = dispatch[d].channel
          \/ Answered(dispatch[d].rule, dispatch[d].event, c)
-----------------------------------------------------------------------------
(* A work that moves on keeps its type. *)
LEMMA WorkTyped ==
    ASSUME TypeInv, NEW d \in Dispatchers, NEW w \in Works, WorkTypes(w), Goes(d, w)
    PROVE  /\ dispatch' \in [Dispatchers -> Works]
           /\ \A e \in Dispatchers : WorkTypes(dispatch'[e])
           /\ dispatch'[d] = w
           /\ \A e \in Dispatchers \ {d} : dispatch'[e] = dispatch[e]
BY DEF TypeInv, Goes

(* The message of a key is counted in its row, or nowhere. *)
LEMMA SentTyped ==
    ASSUME TypeInv, NEW k, NEW arrives \in BOOLEAN, NEW ok \in BOOLEAN, Sent(k, arrives, ok)
    PROVE  /\ DOMAIN attempts' = DOMAIN attempts
           /\ attempts' \in [DOMAIN attempts -> Rows]
           /\ alertFailures' \in 0..MaxAlertFailures
           /\ alertFailures <= alertFailures'
           /\ arrives /\ ~ok => alertFailures' = alertFailures + 1
           /\ \A j \in DOMAIN attempts : j # k => attempts'[j] = attempts[j]
           /\ \A j \in DOMAIN attempts :
                 attempts'[j].status = attempts[j].status
           /\ k \in DOMAIN attempts =>
                 attempts'[k].messages = attempts[k].messages + (IF arrives THEN 1 ELSE 0)
<1> USE DEF TypeInv
<1>1. CASE k \in DOMAIN attempts /\ arrives
  <2>1. attempts[k] \in Rows
    BY <1>1
  <2>2. attempts' = [attempts EXCEPT ![k].messages = @ + 1]
    BY <1>1 DEF Sent
  <2>3. [attempts[k] EXCEPT !.messages = @ + 1] \in Rows
    <3>1. PICK m \in Nat : m = attempts[k].messages + 1
      BY <2>1 DEF Rows
    <3>2. [attempts[k] EXCEPT !.messages = m] \in Rows
      BY <2>1 DEF Rows
    <3> QED
      BY <3>1, <3>2
  <2>4. /\ DOMAIN attempts' = DOMAIN attempts
        /\ \A j \in DOMAIN attempts : j # k => attempts'[j] = attempts[j]
        /\ attempts'[k] = [attempts[k] EXCEPT !.messages = @ + 1]
        /\ attempts' \in [DOMAIN attempts -> Rows]
    BY <1>1, <2>1, <2>2, <2>3
  <2>5. attempts'[k].messages = attempts[k].messages + 1 /\ attempts'[k].status = attempts[k].status
    BY <2>1, <2>4 DEF Rows
  <2> QED
    BY <1>1, <2>4, <2>5 DEF Sent
<1>2. CASE ~(k \in DOMAIN attempts /\ arrives)
  <2>1. attempts' = attempts
    BY <1>2 DEF Sent
  <2>2. k \in DOMAIN attempts => attempts[k].messages \in Nat
    BY DEF Rows
  <2> QED
    BY <1>2, <2>1, <2>2 DEF Sent
<1> QED
  BY <1>1, <1>2

(* A row that gets an outcome. *)
LEMMA UpdatedTyped ==
    ASSUME NEW row \in Rows, NEW tries \in Nat, NEW ok \in BOOLEAN
    PROVE  /\ Updated(row, tries, ok) \in Rows
           /\ Updated(row, tries, ok).status = IF ok THEN "delivered" ELSE "failed"
           /\ Updated(row, tries, ok).messages = row.messages
<1>1. CASE ok
  <2> DEFINE new == [row EXCEPT !.status = "delivered", !.tries = tries, !.exhausted = FALSE,
                                !.due = FALSE]
  <2>1. Updated(row, tries, ok) = new
    BY <1>1 DEF Updated
  <2>2. new \in Rows /\ new.status = "delivered" /\ new.messages = row.messages
    BY DEF Rows
  <2> QED
    BY <1>1, <2>1, <2>2
<1>2. CASE ~ok
  <2>1. PICK n \in Nat : n = tries + 1
    OBVIOUS
  <2> DEFINE new(last) == [row EXCEPT !.status = "failed", !.tries = n, !.exhausted = last, !.due = FALSE]
  <2>2. \A last \in BOOLEAN :
           new(last) \in Rows /\ new(last).status = "failed" /\ new(last).messages = row.messages
    BY DEF Rows
  <2>3. CASE n >= RetryLimit
    <3>1. Updated(row, tries, ok) = new(TRUE)
      BY <1>2, <2>1, <2>3 DEF Updated
    <3> QED
      BY <1>2, <2>2, <3>1
  <2>4. CASE ~(n >= RetryLimit)
    <3>0. (tries + 1 >= RetryLimit) = FALSE
      BY <2>1, <2>4
    <3>1. Updated(row, tries, ok) = new(FALSE)
      <4>1. Updated(row, tries, ok)
              = [row EXCEPT !.status = "failed", !.tries = tries + 1,
                            !.exhausted = (tries + 1 >= RetryLimit), !.due = FALSE]
        BY <1>2, Zenon DEF Updated
      <4> QED
        BY <2>1, <3>0, <4>1, Zenon
    <3> QED
      BY <1>2, <2>2, <3>1
  <2> QED
    BY <2>3, <2>4
<1> QED
  BY <1>1, <1>2

(* The row of a key gets an outcome. *)
LEMMA OutcomeTyped ==
    ASSUME TypeInv, NEW k \in DOMAIN attempts, NEW tries \in Nat, NEW ok \in BOOLEAN,
           attempts' = [attempts EXCEPT ![k] = Updated(@, tries, ok)]
    PROVE  /\ DOMAIN attempts' = DOMAIN attempts
           /\ attempts' \in [DOMAIN attempts -> Rows]
           /\ \A j \in DOMAIN attempts : j # k => attempts'[j] = attempts[j]
           /\ attempts'[k].status = IF ok THEN "delivered" ELSE "failed"
           /\ attempts'[k].messages = attempts[k].messages
<1>1. attempts[k] \in Rows
  BY DEF TypeInv
<1>2. attempts'[k] = Updated(attempts[k], tries, ok)
  OBVIOUS
<1>3. Updated(attempts[k], tries, ok) \in Rows
  BY <1>1, UpdatedTyped
<1>4. /\ DOMAIN attempts' = DOMAIN attempts
      /\ \A j \in DOMAIN attempts : j # k => attempts'[j] = attempts[j]
  OBVIOUS
<1>5. attempts' \in [DOMAIN attempts -> Rows]
  BY <1>2, <1>3, <1>4 DEF TypeInv
<1>6. /\ Updated(attempts[k], tries, ok).status = IF ok THEN "delivered" ELSE "failed"
      /\ Updated(attempts[k], tries, ok).messages = attempts[k].messages
  BY <1>1, UpdatedTyped
<1> QED
  BY ONLY <1>2, <1>4, <1>5, <1>6

(* The copies of a batch are of rows. *)
LEMMA CopiesTyped ==
    ASSUME TypeInv, NEW row \in retry.left
    PROVE  row.key \in AllKeys /\ row.tries \in Nat
BY DEF TypeInv, RetryBatches, Copies

(* The empty store has its types. *)
LEMMA InitTypes == AlertInit => TypeInv
<1> SUFFICES ASSUME AlertInit PROVE TypeInv
  OBVIOUS
<1>1. Idle \in Works /\ WorkTypes(Idle)
  BY DEF Idle, Works, Places, WorkTypes, EventPlaces
<1>2. NoBatch \in RetryBatches
  BY DEF NoBatch, RetryBatches
<1>3. DOMAIN attempts = {} /\ attempts \in [DOMAIN attempts -> Rows]
  BY DEF AlertInit
<1>4. events \in [Rules -> Seq(Times \X Severities)]
  BY DEF AlertInit
<1> QED
  BY <1>1, <1>2, <1>3, <1>4 DEF AlertInit, TypeInv

(* The work after each call of a dispatch is one. *)
LEMMA DispatchTyped ==
    ASSUME TypeInv, NEW d \in Dispatchers,
           (\E s \in Times \X Severities : Signal(d, s)) \/ DispatchStep(d) \/ StopDispatch(d)
    PROVE  /\ dispatch' \in [Dispatchers -> Works]
           /\ \A e \in Dispatchers : WorkTypes(dispatch'[e])
<1> DEFINE w == dispatch[d]
<1>w. w \in Works /\ WorkTypes(w)
  BY DEF TypeInv
<1>i. Idle \in Works /\ WorkTypes(Idle)
  BY DEF Idle, Works, Places, WorkTypes, EventPlaces
<1>l. live \in SUBSET Rules /\ enabled \in SUBSET Channels /\ events \in [Rules -> Seq(Times \X Severities)]
  BY DEF TypeInv
<1> SUFFICES \E v \in Works : WorkTypes(v) /\ Goes(d, v)
  BY WorkTyped
<1>1. ASSUME NEW s \in Times \X Severities, Signal(d, s) PROVE \E v \in Works : WorkTypes(v) /\ Goes(d, v)
  <2>1. [Idle EXCEPT !.at = "rule", !.signal = s, !.rules = live] \in Works
    BY <1>l DEF Idle, Works, Places
  <2>2. WorkTypes([Idle EXCEPT !.at = "rule", !.signal = s, !.rules = live])
    BY DEF Idle, WorkTypes, EventPlaces
  <2> QED
    BY <1>1, <2>1, <2>2 DEF Signal
<1>2. ASSUME NEW r \in Rules, FindLatest(d, r) PROVE \E v \in Works : WorkTypes(v) /\ Goes(d, v)
  <2> DEFINE left == [w EXCEPT !.rules = @ \ {r}]
             chosen == [left EXCEPT !.at = "record", !.rule = r]
  <2>1. left \in Works /\ WorkTypes(left)
    BY <1>w, <1>2 DEF FindLatest, Works, WorkTypes, EventPlaces
  <2>2. chosen \in Works /\ WorkTypes(chosen)
    BY <1>w, <1>2 DEF FindLatest, Works, WorkTypes, EventPlaces, Places
  <2> QED
    BY <1>2, <2>1, <2>2 DEF FindLatest
<1>3. CASE Finish(d)
  BY <1>3, <1>i DEF Finish
<1>4. CASE Record(d)
  <2> DEFINE next == [w EXCEPT !.at = "rule", !.rule = "none"]
             recorded == [w EXCEPT !.at = "channels", !.event = Len(events[w.rule]) + 1]
  <2>1. next \in Works /\ WorkTypes(next)
    BY <1>w, <1>4 DEF Record, Works, WorkTypes, EventPlaces, Places
  <2>2. w.rule \in Rules /\ Len(events[w.rule]) \in Nat
    BY <1>w, <1>l, <1>4 DEF Record, WorkTypes
  <2>3. recorded \in Works /\ WorkTypes(recorded)
    <3>1. PICK n \in Nat \ {0} : n = Len(events[w.rule]) + 1
      BY <2>2
    <3>2. recorded = [w EXCEPT !.at = "channels", !.event = n]
      BY <3>1
    <3>3. [w EXCEPT !.at = "channels", !.event = n] \in Works
      BY <1>w DEF Works, Places
    <3>4. WorkTypes([w EXCEPT !.at = "channels", !.event = n])
      BY <1>w, <1>4, <2>2 DEF Record, Works, WorkTypes, EventPlaces
    <3> QED
      BY <3>2, <3>3, <3>4
  <2> QED
    BY <1>4, <1>i, <2>1, <2>3 DEF Record
<1>5. CASE ListChannels(d)
  <2>1. [w EXCEPT !.at = "create", !.channels = enabled \cap ChannelsOf[w.rule]] \in Works
    BY <1>w, <1>l DEF Works, Places
  <2>2. WorkTypes([w EXCEPT !.at = "create", !.channels = enabled \cap ChannelsOf[w.rule]])
    BY <1>w, <1>5 DEF ListChannels, Works, WorkTypes, EventPlaces
  <2> QED
    BY <1>5, <2>1, <2>2 DEF ListChannels
<1>6. CASE ChannelsDone(d)
  <2> DEFINE next == [w EXCEPT !.at = "rule", !.rule = "none", !.event = 0, !.channel = "none"]
  <2>1. next \in Works /\ WorkTypes(next)
    BY <1>w, <1>6 DEF ChannelsDone, Works, WorkTypes, EventPlaces, Places
  <2> QED
    BY <1>6, <2>1 DEF ChannelsDone
<1>7. ASSUME NEW c \in Channels, CreateAttempt(d, c) PROVE \E v \in Works : WorkTypes(v) /\ Goes(d, v)
  <2> DEFINE next == [w EXCEPT !.at = "send", !.channels = @ \ {c}, !.channel = c]
  <2>1. next \in Works /\ WorkTypes(next)
    BY <1>w, <1>7 DEF CreateAttempt, Works, WorkTypes, EventPlaces, Places
  <2> QED
    BY <1>7, <1>i, <2>1 DEF CreateAttempt
<1>8. CASE Send(d)
  <2>1. PICK ok \in BOOLEAN : Goes(d, [w EXCEPT !.at = "update", !.ok = ok])
    BY <1>8 DEF Send
  <2>2. [w EXCEPT !.at = "update", !.ok = ok] \in Works /\ WorkTypes([w EXCEPT !.at = "update", !.ok = ok])
    BY <1>w, <1>8 DEF Send, Works, WorkTypes, EventPlaces, Places
  <2> QED
    BY <2>1, <2>2
<1>9. CASE UpdateAttempt(d)
  <2> DEFINE next == [w EXCEPT !.at = "create", !.channel = "none", !.ok = FALSE]
  <2>1. next \in Works /\ WorkTypes(next)
    BY <1>w, <1>9 DEF UpdateAttempt, Works, WorkTypes, EventPlaces, Places
  <2> QED
    BY <1>9, <1>i, <2>1 DEF UpdateAttempt
<1>10. CASE StopDispatch(d)
  BY <1>10, <1>i DEF StopDispatch
<1> QED
  BY <1>1, <1>2, <1>3, <1>4, <1>5, <1>6, <1>7, <1>8, <1>9, <1>10 DEF DispatchStep

(* What the retry batch holds after each of its calls. *)
LEMMA RetryTyped ==
    ASSUME TypeInv, RetryStep \/ StopRetry
    PROVE  retry' \in RetryBatches
<1>r. retry \in RetryBatches
  BY DEF TypeInv
<1>n. NoBatch \in RetryBatches
  BY DEF NoBatch, RetryBatches
<1>1. CASE ListRetryable
  <2> DEFINE rows == {[key |-> k, tries |-> attempts[k].tries] : k \in {k \in DOMAIN attempts : Retryable(k)}}
  <2>1. rows \in SUBSET Copies
    BY DEF TypeInv, Copies, Rows
  <2>2. retry' = [NoBatch EXCEPT !.at = "send", !.left = rows]
    BY <1>1 DEF ListRetryable
  <2> HIDE DEF rows
  <2> QED
    BY <2>1, <2>2 DEF NoBatch, RetryBatches
<1>2. CASE Resend
  <2>1. PICK row \in retry.left, ok \in BOOLEAN :
           retry' = [retry EXCEPT !.at = "update", !.key = row.key, !.ok = ok]
    BY <1>2 DEF Resend
  <2>2. row.key \in AllKeys
    BY CopiesTyped
  <2> QED
    BY <1>r, <2>1, <2>2 DEF RetryBatches
<1>3. CASE UpdateRetried
  <2>1. PICK row \in retry.left :
           \/ retry' = NoBatch
           \/ retry' = [NoBatch EXCEPT !.at = "send", !.left = retry.left \ {row}]
    BY <1>3 DEF UpdateRetried
  <2>2. retry.left \ {row} \in SUBSET Copies
    BY <1>r DEF RetryBatches
  <2>3. [NoBatch EXCEPT !.at = "send", !.left = retry.left \ {row}] \in RetryBatches
    BY <2>2 DEF NoBatch, RetryBatches
  <2> QED
    BY ONLY <1>n, <2>1, <2>3
<1>4. CASE StopRetry
  BY <1>4, <1>n DEF StopRetry
<1> QED
  BY <1>1, <1>2, <1>3, <1>4 DEF RetryStep
(* What a call may do to the rows. *)
RowsTyped ==
    /\ DOMAIN attempts' \subseteq AllKeys
    /\ attempts' \in [DOMAIN attempts' -> Rows]

(* Rows that stay have their types. *)
LEMMA RowsKept == ASSUME TypeInv, UNCHANGED attempts PROVE RowsTyped
BY DEF TypeInv, RowsTyped

(* CreateAttempts adds one queued row. *)
LEMMA CreateTyped ==
    ASSUME TypeInv, NEW d \in Dispatchers, NEW c \in Channels, CreateAttempt(d, c)
    PROVE  /\ RowsTyped
           /\ dispatch[d].rule \in live =>
                 LET k == <<dispatch[d].rule, dispatch[d].event, c>> IN
                 /\ DOMAIN attempts' = DOMAIN attempts \cup {k}
                 /\ attempts'[k] = Queued
                 /\ \A j \in DOMAIN attempts : j # k => attempts'[j] = attempts[j]
           /\ dispatch[d].rule \notin live => attempts' = attempts
<1> DEFINE k == <<dispatch[d].rule, dispatch[d].event, c>>
<1>1. CASE dispatch[d].rule \notin live
  <2>1. attempts' = attempts
    BY <1>1 DEF CreateAttempt
  <2> QED
    BY <1>1, <2>1, RowsKept
<1>2. CASE dispatch[d].rule \in live
  <2>1. attempts' = [j \in DOMAIN attempts \cup {k} |-> IF j = k THEN NewAttempt ELSE attempts[j]]
    BY <1>2 DEF CreateAttempt
  <2>2. k \in AllKeys
    BY <1>2 DEF TypeInv, Works, AllKeys
  <2>3. NewAttempt \in Rows
    BY DEF NewAttempt, Queued, Rows
  <2> HIDE DEF k
  <2>4. /\ DOMAIN attempts' = DOMAIN attempts \cup {k}
        /\ attempts'[k] = Queued
        /\ \A j \in DOMAIN attempts : j # k => attempts'[j] = attempts[j]
    BY <2>1 DEF NewAttempt
  <2>5. RowsTyped
    BY <2>1, <2>2, <2>3 DEF RowsTyped, TypeInv
  <2> QED
    BY <1>2, <2>4, <2>5 DEF k
<1> QED
  BY <1>1, <1>2

(* UpdateAttempt settles the row of one dispatch. *)
LEMMA UpdateTyped ==
    ASSUME TypeInv, NEW d \in Dispatchers, UpdateAttempt(d)
    PROVE  /\ RowsTyped
           /\ Key(d) \in DOMAIN attempts =>
                 /\ DOMAIN attempts' = DOMAIN attempts
                 /\ \A j \in DOMAIN attempts : j # Key(d) => attempts'[j] = attempts[j]
                 /\ attempts'[Key(d)].status = IF dispatch[d].ok THEN "delivered" ELSE "failed"
                 /\ attempts'[Key(d)].messages = attempts[Key(d)].messages
           /\ Key(d) \notin DOMAIN attempts => attempts' = attempts
<1>1. CASE Key(d) \notin DOMAIN attempts
  <2>1. attempts' = attempts
    BY <1>1 DEF UpdateAttempt
  <2> QED
    BY <1>1, <2>1, RowsKept
<1>2. CASE Key(d) \in DOMAIN attempts
  <2>1. attempts' = [attempts EXCEPT ![Key(d)] = Updated(@, 0, dispatch[d].ok)]
    BY <1>2 DEF UpdateAttempt
  <2>2. dispatch[d].ok \in BOOLEAN
    BY DEF TypeInv, Works
  <2>3. /\ DOMAIN attempts' = DOMAIN attempts
        /\ attempts' \in [DOMAIN attempts -> Rows]
        /\ \A j \in DOMAIN attempts : j # Key(d) => attempts'[j] = attempts[j]
        /\ attempts'[Key(d)].status = IF dispatch[d].ok THEN "delivered" ELSE "failed"
        /\ attempts'[Key(d)].messages = attempts[Key(d)].messages
    BY <1>2, <2>1, <2>2, OutcomeTyped
  <2> QED
    BY <1>2, <2>3 DEF RowsTyped, TypeInv
<1> QED
  BY <1>1, <1>2

(* The retry pass settles the row it has in hand. *)
LEMMA RetriedTyped ==
    ASSUME TypeInv, NEW row \in retry.left, retry.key = row.key,
           IF row.key \in DOMAIN attempts
           THEN attempts' = [attempts EXCEPT ![row.key] = Updated(@, row.tries, retry.ok)]
           ELSE UNCHANGED attempts
    PROVE  /\ RowsTyped
           /\ DOMAIN attempts' = DOMAIN attempts
           /\ \A j \in DOMAIN attempts : j # row.key => attempts'[j] = attempts[j]
           /\ row.key \in DOMAIN attempts =>
                 /\ attempts'[row.key].status = IF retry.ok THEN "delivered" ELSE "failed"
                 /\ attempts'[row.key].messages = attempts[row.key].messages
<1>1. CASE row.key \notin DOMAIN attempts
  BY <1>1, RowsKept
<1>2. CASE row.key \in DOMAIN attempts
  <2>1. row.tries \in Nat /\ retry.ok \in BOOLEAN
    BY CopiesTyped DEF TypeInv, RetryBatches
  <2>3. /\ DOMAIN attempts' = DOMAIN attempts
        /\ attempts' \in [DOMAIN attempts -> Rows]
        /\ \A j \in DOMAIN attempts : j # row.key => attempts'[j] = attempts[j]
        /\ attempts'[row.key].status = IF retry.ok THEN "delivered" ELSE "failed"
        /\ attempts'[row.key].messages = attempts[row.key].messages
    BY <1>2, <2>1, OutcomeTyped
  <2> QED
    BY <1>2, <2>3 DEF RowsTyped, TypeInv
<1> QED
  BY <1>1, <1>2

(* A row whose backoff ends is due, and stays as it was otherwise. *)
LEMMA BackoffTyped ==
    ASSUME TypeInv, NEW k \in DOMAIN attempts, BackoffEnds(k)
    PROVE  /\ RowsTyped
           /\ DOMAIN attempts' = DOMAIN attempts
           /\ \A j \in DOMAIN attempts : attempts'[j].status = attempts[j].status
                                          /\ attempts'[j].messages = attempts[j].messages
<1>1. attempts[k] \in Rows /\ attempts' = [attempts EXCEPT ![k].due = TRUE]
  BY DEF TypeInv, BackoffEnds
<1>2. /\ [attempts[k] EXCEPT !.due = TRUE] \in Rows
      /\ [attempts[k] EXCEPT !.due = TRUE].status = attempts[k].status
      /\ [attempts[k] EXCEPT !.due = TRUE].messages = attempts[k].messages
  BY <1>1 DEF Rows
<1>3. DOMAIN attempts' = DOMAIN attempts /\ attempts'[k] = [attempts[k] EXCEPT !.due = TRUE]
        /\ \A j \in DOMAIN attempts : j # k => attempts'[j] = attempts[j]
  BY <1>1
<1> QED
  BY <1>1, <1>2, <1>3 DEF TypeInv, RowsTyped

(* The rows of a rule that goes go with it. *)
LEMMA DeleteTyped ==
    ASSUME TypeInv, NEW r \in Rules, DeleteRule(r)
    PROVE  /\ RowsTyped
           /\ DOMAIN attempts' = {k \in DOMAIN attempts : k[1] # r}
           /\ \A j \in DOMAIN attempts' : attempts'[j] = attempts[j]
           /\ events' \in [Rules -> Seq(Times \X Severities)]
           /\ events'[r] = <<>>
           /\ \A q \in Rules : q # r => events'[q] = events[q]
<1>1. attempts' = [k \in {k \in DOMAIN attempts : k[1] # r} |-> attempts[k]]
  BY DEF DeleteRule
<1>2. <<>> \in Seq(Times \X Severities)
  OBVIOUS
<1> QED
  BY <1>1, <1>2 DEF TypeInv, RowsTyped, DeleteRule

(* A recorded event has its type, and so has the work that goes on with it. *)
LEMMA RecordTyped ==
    ASSUME TypeInv, NEW d \in Dispatchers, Record(d)
    PROVE  \/ events' = events /\ ~At(d, EventPlaces)' /\ dispatch'[d].event = 0
           \/ LET r == dispatch[d].rule
                  s == dispatch[d].signal
              IN
              /\ r \in live /\ s \in Times \X Severities
              /\ \A i \in DOMAIN events[r] : DedupKey(r, events[r][i]) # DedupKey(r, s)
              /\ events' \in [Rules -> Seq(Times \X Severities)]
              /\ Len(events'[r]) = Len(events[r]) + 1
              /\ events'[r][Len(events[r]) + 1] = s
              /\ \A i \in DOMAIN events[r] : events'[r][i] = events[r][i]
              /\ \A q \in Rules : q # r => events'[q] = events[q]
              /\ Goes(d, [dispatch[d] EXCEPT !.at = "channels", !.event = Len(events[r]) + 1])
<1> DEFINE r == dispatch[d].rule
           s == dispatch[d].signal
<1>1. dispatch[d] \in Works /\ WorkTypes(dispatch[d]) /\ dispatch[d].at = "record"
  BY DEF TypeInv, Record
<1>2. s \in Times \X Severities /\ r \in Rules /\ dispatch[d].event = 0
  BY <1>1 DEF WorkTypes
<1>3. CASE UNCHANGED events /\ (Goes(d, Idle) \/ Goes(d, [dispatch[d] EXCEPT !.at = "rule", !.rule = "none"]))
  <2>1. dispatch'[d] = Idle \/ dispatch'[d] = [dispatch[d] EXCEPT !.at = "rule", !.rule = "none"]
    BY <1>3 DEF Goes, TypeInv
  <2>2. dispatch'[d].at \in {"idle", "rule"} /\ dispatch'[d].event = 0
    <3>1. CASE dispatch'[d] = Idle
      BY <3>1 DEF Idle
    <3>2. CASE dispatch'[d] = [dispatch[d] EXCEPT !.at = "rule", !.rule = "none"]
      <4>1. /\ [dispatch[d] EXCEPT !.at = "rule", !.rule = "none"].event = dispatch[d].event
            /\ [dispatch[d] EXCEPT !.at = "rule", !.rule = "none"].at = "rule"
        BY <1>1 DEF Works
      <4> QED
        BY <1>2, <3>2, <4>1
    <3> QED
      BY <2>1, <3>1, <3>2
  <2> QED
    BY <1>3, <2>2 DEF At, EventPlaces
<1>4. CASE /\ r \in live
           /\ ~\E i \in DOMAIN events[r] : DedupKey(r, events[r][i]) = DedupKey(r, s)
           /\ events' = [events EXCEPT ![r] = Append(@, s)]
           /\ Goes(d, [dispatch[d] EXCEPT !.at = "channels", !.event = Len(events[r]) + 1])
  <2>1. events[r] \in Seq(Times \X Severities) /\ events'[r] = Append(events[r], s)
    BY <1>2, <1>4 DEF TypeInv
  <2>2. /\ events'[r] \in Seq(Times \X Severities) /\ Len(events'[r]) = Len(events[r]) + 1
        /\ events'[r][Len(events[r]) + 1] = s
        /\ \A i \in DOMAIN events[r] : events'[r][i] = events[r][i]
    <3> DEFINE q == events[r]
    <3>1. q \in Seq(Times \X Severities) /\ s \in Times \X Severities /\ events'[r] = Append(q, s)
      BY <1>2, <2>1
    <3> HIDE DEF q, s
    <3>2. /\ Append(q, s) \in Seq(Times \X Severities) /\ Len(Append(q, s)) = Len(q) + 1
          /\ Append(q, s)[Len(q) + 1] = s
          /\ \A i \in DOMAIN q : Append(q, s)[i] = q[i]
      BY <3>1
    <3> QED
      BY <3>1, <3>2 DEF q, s
  <2>3. events' \in [Rules -> Seq(Times \X Severities)] /\ \A q \in Rules : q # r => events'[q] = events[q]
    BY <1>4, <2>2 DEF TypeInv
  <2> QED
    BY <1>2, <1>4, <2>2, <2>3
<1> QED
  BY <1>3, <1>4 DEF Record

(* Every call keeps the types. *)
LEMMA TypesKept == TypeInv /\ [AlertNext]_alertVars => TypeInv'
<1> SUFFICES ASSUME TypeInv, [AlertNext]_alertVars PROVE TypeInv'
  OBVIOUS
<1>t. /\ {MaxSignals, MaxToggles, MaxAlertFailures} \subseteq Nat
      /\ signals \in 0..MaxSignals /\ toggles \in 0..MaxToggles /\ alertFailures \in 0..MaxAlertFailures
  BY DEF TypeInv
<1> DEFINE Worked(d) == /\ dispatch' \in [Dispatchers -> Works]
                        /\ \A e \in Dispatchers : WorkTypes(dispatch'[e])
<1>1. ASSUME NEW d \in Dispatchers, NEW s \in Times \X Severities, Signal(d, s) PROVE TypeInv'
  <2>1. Worked(d)
    BY <1>1, DispatchTyped
  <2>2. signals' \in 0..MaxSignals
    BY <1>1, <1>t DEF Signal
  <2> QED
    BY <1>1, <2>1, <2>2 DEF Signal, TypeInv
<1>2. ASSUME NEW d \in Dispatchers, NEW r \in Rules, FindLatest(d, r) PROVE TypeInv'
  <2>1. Worked(d)
    BY <1>2, DispatchTyped DEF DispatchStep
  <2> QED
    BY <1>2, <2>1 DEF FindLatest, TypeInv
<1>3. ASSUME NEW d \in Dispatchers, Finish(d) PROVE TypeInv'
  <2>1. Worked(d)
    BY <1>3, DispatchTyped DEF DispatchStep
  <2>2. dispatch[d].signal \in Times \X Severities
    BY <1>3 DEF Finish, TypeInv, WorkTypes
  <2> QED
    BY <1>3, <2>1, <2>2 DEF Finish, TypeInv
<1>4. ASSUME NEW d \in Dispatchers, Record(d) PROVE TypeInv'
  <2>1. Worked(d)
    BY <1>4, DispatchTyped DEF DispatchStep
  <2>2. events' \in [Rules -> Seq(Times \X Severities)]
    BY <1>4, RecordTyped DEF TypeInv
  <2> QED
    BY <1>4, <2>1, <2>2 DEF Record, TypeInv
<1>5. ASSUME NEW d \in Dispatchers, ListChannels(d) \/ ChannelsDone(d) PROVE TypeInv'
  <2>1. Worked(d)
    BY <1>5, DispatchTyped DEF DispatchStep
  <2> QED
    BY <1>5, <2>1 DEF ListChannels, ChannelsDone, TypeInv
<1>6. ASSUME NEW d \in Dispatchers, NEW c \in Channels, CreateAttempt(d, c) PROVE TypeInv'
  <2>1. Worked(d)
    BY <1>6, DispatchTyped DEF DispatchStep
  <2>2. RowsTyped
    BY <1>6, CreateTyped
  <2> QED
    BY <1>6, <2>1, <2>2 DEF CreateAttempt, TypeInv, RowsTyped
<1>7. ASSUME NEW d \in Dispatchers, Send(d) PROVE TypeInv'
  <2>1. Worked(d)
    BY <1>7, DispatchTyped DEF DispatchStep
  <2>2. RowsTyped /\ alertFailures' \in 0..MaxAlertFailures
    BY <1>7, SentTyped DEF Send, TypeInv, RowsTyped
  <2> QED
    BY <1>7, <2>1, <2>2 DEF Send, TypeInv, RowsTyped
<1>8. ASSUME NEW d \in Dispatchers, UpdateAttempt(d) PROVE TypeInv'
  <2>1. Worked(d)
    BY <1>8, DispatchTyped DEF DispatchStep
  <2>2. RowsTyped
    BY <1>8, UpdateTyped
  <2> QED
    BY <1>8, <2>1, <2>2 DEF UpdateAttempt, TypeInv, RowsTyped
<1>9. ASSUME NEW d \in Dispatchers, StopDispatch(d) PROVE TypeInv'
  <2>1. Worked(d)
    BY <1>9, DispatchTyped
  <2>2. alertFailures' \in 0..MaxAlertFailures
    BY <1>9, <1>t DEF StopDispatch
  <2> QED
    BY <1>9, <2>1, <2>2 DEF StopDispatch, TypeInv
<1>10. CASE ListRetryable
  <2>1. retry' \in RetryBatches
    BY <1>10, RetryTyped DEF RetryStep
  <2> QED
    BY <1>10, <2>1 DEF ListRetryable, TypeInv
<1>11. CASE Resend
  <2>1. retry' \in RetryBatches
    BY <1>11, RetryTyped DEF RetryStep
  <2>2. RowsTyped /\ alertFailures' \in 0..MaxAlertFailures
    BY <1>11, SentTyped DEF Resend, TypeInv, RowsTyped
  <2> QED
    BY <1>11, <2>1, <2>2 DEF Resend, TypeInv, RowsTyped
<1>12. CASE UpdateRetried
  <2>1. retry' \in RetryBatches
    BY <1>12, RetryTyped DEF RetryStep
  <2>2. PICK row \in retry.left :
           /\ retry.key = row.key
           /\ IF row.key \in DOMAIN attempts
              THEN attempts' = [attempts EXCEPT ![row.key] = Updated(@, row.tries, retry.ok)]
              ELSE UNCHANGED attempts
    BY <1>12 DEF UpdateRetried
  <2>3. RowsTyped
    BY <2>2, RetriedTyped
  <2> QED
    BY <1>12, <2>1, <2>3 DEF UpdateRetried, TypeInv, RowsTyped
<1>13. CASE StopRetry
  <2>1. retry' \in RetryBatches
    BY <1>13, RetryTyped
  <2>2. alertFailures' \in 0..MaxAlertFailures
    BY <1>13, <1>t DEF StopRetry
  <2> QED
    BY <1>13, <2>1, <2>2 DEF StopRetry, TypeInv
<1>14. ASSUME NEW k \in DOMAIN attempts, BackoffEnds(k) PROVE TypeInv'
  <2>1. RowsTyped
    BY <1>14, BackoffTyped
  <2> QED
    BY <1>14, <2>1 DEF BackoffEnds, TypeInv, RowsTyped
<1>15. ASSUME NEW c \in Channels, ToggleChannel(c) PROVE TypeInv'
  <2>1. toggles' \in 0..MaxToggles
    BY <1>15, <1>t DEF ToggleChannel
  <2> QED
    BY <1>15, <2>1 DEF ToggleChannel, TypeInv
<1>16. ASSUME NEW r \in Rules, DeleteRule(r) PROVE TypeInv'
  <2>1. toggles' \in 0..MaxToggles
    BY <1>16, <1>t DEF DeleteRule
  <2>2. RowsTyped /\ events' \in [Rules -> Seq(Times \X Severities)]
    BY <1>16, DeleteTyped
  <2> QED
    BY <1>16, <2>1, <2>2 DEF DeleteRule, TypeInv, RowsTyped
<1>17. CASE UNCHANGED alertVars
  BY <1>17 DEF alertVars, TypeInv
<1> QED
  BY <1>1, <1>2, <1>3, <1>4, <1>5, <1>6, <1>7, <1>8, <1>9, <1>10, <1>11, <1>12, <1>13, <1>14, <1>15,
     <1>16, <1>17 DEF AlertNext, DispatchStep, RetryStep

(* The types hold throughout. *)
LEMMA Types == AlertSpec => []TypeInv
BY InitTypes, TypesKept, PTL DEF AlertSpec
-----------------------------------------------------------------------------
(* What a step does to the events: nothing, and no worker gets one; *)
EventsKept ==
    /\ events' = events /\ live' = live
    /\ \A d \in Dispatchers : At(d, EventPlaces)' =>
          /\ At(d, EventPlaces)
          /\ dispatch'[d].rule = dispatch[d].rule /\ dispatch'[d].event = dispatch[d].event

(* or a worker adds one. *)
RecordsEvent(d) ==
    LET r == dispatch[d].rule
        s == dispatch[d].signal
    IN
    /\ live' = live /\ attempts' = attempts
    /\ enabled' = enabled /\ switched' = switched /\ retry' = retry
    /\ alertFailures' = alertFailures /\ served' = served
    /\ At(d, {"record"}) /\ r \in live /\ s \in Times \X Severities
    /\ \A i \in DOMAIN events[r] : DedupKey(r, events[r][i]) # DedupKey(r, s)
    /\ Len(events'[r]) = Len(events[r]) + 1
    /\ events'[r][Len(events[r]) + 1] = s
    /\ \A i \in DOMAIN events[r] : events'[r][i] = events[r][i]
    /\ \A q \in Rules : q # r => events'[q] = events[q]
    /\ dispatch'[d] = [dispatch[d] EXCEPT !.at = "channels", !.event = Len(events[r]) + 1]
    /\ \A e \in Dispatchers \ {d} : dispatch'[e] = dispatch[e]

(* Who records an event goes to the channels with it. *)
LEMMA RecordsTo ==
    ASSUME TypeInv, NEW d \in Dispatchers, RecordsEvent(d)
    PROVE  dispatch'[d].at = "channels"
<1>1. dispatch[d] \in Works
  BY DEF TypeInv
<1>2. dispatch'[d] = [dispatch[d] EXCEPT !.at = "channels", !.event = Len(events[dispatch[d].rule]) + 1]
  BY DEF RecordsEvent
<1> QED
  BY ONLY <1>1, <1>2 DEF Works

(* The step of one worker keeps events when its own work gets none. *)
LEMMA OneKeeps ==
    ASSUME TypeInv, NEW d \in Dispatchers, NEW w, Goes(d, w), events' = events, live' = live,
           w.at \in EventPlaces => /\ At(d, EventPlaces)
                                   /\ w.rule = dispatch[d].rule /\ w.event = dispatch[d].event
    PROVE  EventsKept
BY DEF TypeInv, Goes, At, EventsKept

(* Recording adds the event of one signal to one rule. *)
LEMMA RecordMoves ==
    ASSUME TypeInv, NEW d \in Dispatchers, Record(d), ~(events' = events /\ ~At(d, EventPlaces)')
    PROVE  RecordsEvent(d)
<1>1. \A w : Goes(d, w) => dispatch'[d] = w /\ \A e \in Dispatchers \ {d} : dispatch'[e] = dispatch[e]
  BY DEF Goes, TypeInv
<1> QED
  BY <1>1, RecordTyped DEF Record, RecordsEvent, At

(* What one step does to the events. *)
LEMMA EventMoves ==
    ASSUME TypeInv, [AlertNext]_alertVars
    PROVE  \/ EventsKept
           \/ \E d \in Dispatchers : RecordsEvent(d)
           \/ \E r \in Rules : DeleteRule(r)
<1>w. \A d \in Dispatchers : dispatch[d] \in Works
  BY DEF TypeInv
<1>i. Idle.at \notin EventPlaces
  BY DEF Idle, EventPlaces
<1>1. ASSUME NEW d \in Dispatchers, NEW s \in Times \X Severities, Signal(d, s) PROVE EventsKept
  <2>1. [Idle EXCEPT !.at = "rule", !.signal = s, !.rules = live].at = "rule"
    BY DEF Idle
  <2> QED
    BY <1>1, <2>1, OneKeeps DEF Signal, EventPlaces
<1>2. ASSUME NEW d \in Dispatchers, NEW r \in Rules, FindLatest(d, r) PROVE EventsKept
  <2> DEFINE left == [dispatch[d] EXCEPT !.rules = @ \ {r}]
             chosen == [left EXCEPT !.at = "record", !.rule = r]
  <2>1. left.at \notin EventPlaces /\ chosen.at \notin EventPlaces
    BY <1>w, <1>2 DEF FindLatest, EventPlaces, Works
  <2> HIDE DEF left, chosen
  <2>2. Goes(d, left) \/ Goes(d, chosen)
    BY <1>2 DEF FindLatest, left, chosen
  <2> QED
    BY <1>2, <2>1, <2>2, OneKeeps DEF FindLatest
<1>3. ASSUME NEW d \in Dispatchers, Finish(d) \/ StopDispatch(d) PROVE EventsKept
  BY <1>i, <1>3, OneKeeps DEF Finish, StopDispatch
<1>4. ASSUME NEW d \in Dispatchers, Record(d) PROVE EventsKept \/ RecordsEvent(d)
  <2>1. CASE events' = events /\ ~At(d, EventPlaces)'
    <3>1. \A e \in Dispatchers \ {d} : dispatch'[e] = dispatch[e]
      BY <1>4 DEF Record, Goes, TypeInv
    <3> QED
      BY <1>4, <2>1, <3>1 DEF Record, EventsKept, At
  <2> QED
    BY <1>4, <2>1, RecordMoves
<1>5. ASSUME NEW d \in Dispatchers, ListChannels(d) PROVE EventsKept
  <2> DEFINE w == [dispatch[d] EXCEPT !.at = "create", !.channels = enabled \cap ChannelsOf[dispatch[d].rule]]
  <2>1. w.rule = dispatch[d].rule /\ w.event = dispatch[d].event
    BY <1>w DEF Works
  <2>2. Goes(d, w) /\ At(d, EventPlaces)
    BY <1>5 DEF ListChannels, At, EventPlaces
  <2> HIDE DEF w
  <2> QED
    BY <1>5, <2>1, <2>2, OneKeeps DEF ListChannels
<1>6. ASSUME NEW d \in Dispatchers, ChannelsDone(d) PROVE EventsKept
  <2> DEFINE w == [dispatch[d] EXCEPT !.at = "rule", !.rule = "none", !.event = 0, !.channel = "none"]
  <2>1. w.at \notin EventPlaces
    BY <1>w DEF Works, EventPlaces
  <2>2. Goes(d, w)
    BY <1>6 DEF ChannelsDone
  <2> HIDE DEF w
  <2> QED
    BY <1>6, <2>1, <2>2, OneKeeps DEF ChannelsDone
<1>7. ASSUME NEW d \in Dispatchers, NEW c \in Channels, CreateAttempt(d, c) PROVE EventsKept
  <2> DEFINE w == [dispatch[d] EXCEPT !.at = "send", !.channels = @ \ {c}, !.channel = c]
  <2>1. w.rule = dispatch[d].rule /\ w.event = dispatch[d].event
    BY <1>w DEF Works
  <2>2. (Goes(d, w) \/ Goes(d, Idle)) /\ At(d, EventPlaces)
    BY <1>7 DEF CreateAttempt, At, EventPlaces
  <2> HIDE DEF w
  <2> QED
    BY <1>i, <1>7, <2>1, <2>2, OneKeeps DEF CreateAttempt
<1>8. ASSUME NEW d \in Dispatchers, Send(d) PROVE EventsKept
  <2>1. PICK ok \in BOOLEAN : Goes(d, [dispatch[d] EXCEPT !.at = "update", !.ok = ok])
    BY <1>8 DEF Send
  <2> DEFINE w == [dispatch[d] EXCEPT !.at = "update", !.ok = ok]
  <2>2. w.rule = dispatch[d].rule /\ w.event = dispatch[d].event
    BY <1>w DEF Works
  <2>3. Goes(d, w) /\ At(d, EventPlaces)
    BY <1>8, <2>1 DEF Send, At, EventPlaces
  <2> HIDE DEF w
  <2> QED
    BY <1>8, <2>2, <2>3, OneKeeps DEF Send
<1>9. ASSUME NEW d \in Dispatchers, UpdateAttempt(d) PROVE EventsKept
  <2> DEFINE w == [dispatch[d] EXCEPT !.at = "create", !.channel = "none", !.ok = FALSE]
  <2>1. w.rule = dispatch[d].rule /\ w.event = dispatch[d].event
    BY <1>w DEF Works
  <2>2. (Goes(d, w) \/ Goes(d, Idle)) /\ At(d, EventPlaces)
    BY <1>9 DEF UpdateAttempt, At, EventPlaces
  <2> HIDE DEF w
  <2> QED
    BY <1>i, <1>9, <2>1, <2>2, OneKeeps DEF UpdateAttempt
<1>10. ASSUME dispatch' = dispatch, events' = events, live' = live PROVE EventsKept
  BY <1>10 DEF EventsKept, At
<1>11. ASSUME RetryStep \/ StopRetry PROVE EventsKept
  BY <1>10, <1>11 DEF RetryStep, ListRetryable, Resend, UpdateRetried, StopRetry
<1>12. ASSUME (\E k \in DOMAIN attempts : BackoffEnds(k)) \/ (\E c \in Channels : ToggleChannel(c))
       PROVE  EventsKept
  BY <1>10, <1>12 DEF BackoffEnds, ToggleChannel
<1>13. CASE UNCHANGED alertVars
  BY <1>10, <1>13 DEF alertVars
<1> QED
  BY <1>1, <1>2, <1>3, <1>4, <1>5, <1>6, <1>7, <1>8, <1>9, <1>11, <1>12, <1>13
     DEF AlertNext, DispatchStep

(* A step leaves the events that are there, and their rules, or clears a rule that goes. *)
LEMMA EventsStay ==
    ASSUME TypeInv, [AlertNext]_alertVars
    PROVE  /\ live' \subseteq live
           /\ \A r \in live' : \A i \in DOMAIN events[r] :
                 i \in DOMAIN events'[r] /\ events'[r][i] = events[r][i]
<1> USE DEF TypeInv
<1>1. CASE EventsKept
  BY <1>1 DEF EventsKept
<1>2. ASSUME NEW d \in Dispatchers, RecordsEvent(d)
      PROVE  /\ live' \subseteq live
             /\ \A r \in live' : \A i \in DOMAIN events[r] :
                   i \in DOMAIN events'[r] /\ events'[r][i] = events[r][i]
  <2>1. ASSUME NEW r \in live, NEW i \in DOMAIN events[r]
        PROVE  i \in DOMAIN events'[r] /\ events'[r][i] = events[r][i]
    <3>1. CASE r # dispatch[d].rule
      BY <1>2, <2>1, <3>1 DEF RecordsEvent
    <3>2. CASE r = dispatch[d].rule
      <4>1. events'[r] \in Seq(Times \X Severities) /\ events[r] \in Seq(Times \X Severities)
        BY <2>1, TypesKept
      <4>2. Len(events'[r]) = Len(events[r]) + 1 /\ events'[r][i] = events[r][i]
        BY <1>2, <2>1, <3>2 DEF RecordsEvent
      <4>3. /\ DOMAIN events[r] = 1..Len(events[r]) /\ DOMAIN events'[r] = 1..Len(events'[r])
            /\ Len(events[r]) \in Nat
        BY ONLY <4>1
      <4> QED
        BY ONLY <2>1, <4>2, <4>3
    <3> QED
      BY <3>1, <3>2
  <2> QED
    BY <1>2, <2>1 DEF RecordsEvent
<1>3. ASSUME NEW r \in Rules, DeleteRule(r)
      PROVE  /\ live' \subseteq live
             /\ \A q \in live' : \A i \in DOMAIN events[q] :
                   i \in DOMAIN events'[q] /\ events'[q][i] = events[q][i]
  <2>1. live' = live \ {r} /\ \A q \in Rules : q # r => events'[q] = events[q]
    BY <1>3, DeleteTyped DEF DeleteRule
  <2> QED
    BY <2>1
<1> QED
  BY <1>1, <1>2, <1>3, EventMoves

(* A row that appears is one of a worker that goes through the channels of its event. *)
LEMMA RowsComeFrom ==
    ASSUME TypeInv, [AlertNext]_alertVars, NEW k \in DOMAIN attempts'
    PROVE  \/ k \in DOMAIN attempts
           \/ /\ EventsKept
              /\ \E d \in Dispatchers, c \in Channels :
                    /\ CreateAttempt(d, c) /\ dispatch[d].rule \in live
                    /\ k = <<dispatch[d].rule, dispatch[d].event, c>>
<1>1. ASSUME NEW d \in Dispatchers, NEW c \in Channels, CreateAttempt(d, c)
      PROVE  \/ k \in DOMAIN attempts
             \/ EventsKept /\ dispatch[d].rule \in live
                 /\ k = <<dispatch[d].rule, dispatch[d].event, c>>
  <2>1. EventsKept
    <3>1. ~\E r \in Rules : DeleteRule(r)
      BY <1>1 DEF DeleteRule, CreateAttempt
    <3>2. ~\E e \in Dispatchers : RecordsEvent(e)
      <4>1. SUFFICES ASSUME NEW e \in Dispatchers, RecordsEvent(e) PROVE FALSE
        OBVIOUS
      <4>2. events'[dispatch[e].rule] # events[dispatch[e].rule]
        BY <4>1 DEF RecordsEvent, TypeInv
      <4> QED
        BY <1>1, <4>2 DEF CreateAttempt
    <3> QED
      BY <3>1, <3>2, EventMoves
  <2>2. CASE dispatch[d].rule \in live
    <3>1. DOMAIN attempts' = DOMAIN attempts \cup {<<dispatch[d].rule, dispatch[d].event, c>>}
      BY <1>1, <2>2, CreateTyped
    <3> QED
      BY <2>1, <2>2, <3>1
  <2>3. CASE dispatch[d].rule \notin live
    BY <1>1, <2>3, CreateTyped
  <2> QED
    BY <2>2, <2>3
<1>2. ASSUME NEW d \in Dispatchers, Send(d) PROVE k \in DOMAIN attempts
  BY <1>2, SentTyped DEF Send
<1>3. ASSUME NEW d \in Dispatchers, UpdateAttempt(d) PROVE k \in DOMAIN attempts
  BY <1>3, UpdateTyped
<1>4. CASE Resend
  BY <1>4, SentTyped DEF Resend
<1>5. CASE UpdateRetried
  <2>1. PICK row \in retry.left :
           /\ retry.key = row.key
           /\ IF row.key \in DOMAIN attempts
              THEN attempts' = [attempts EXCEPT ![row.key] = Updated(@, row.tries, retry.ok)]
              ELSE UNCHANGED attempts
    BY <1>5 DEF UpdateRetried
  <2> QED
    BY <2>1, RetriedTyped
<1>6. ASSUME NEW j \in DOMAIN attempts, BackoffEnds(j) PROVE k \in DOMAIN attempts
  BY <1>6, BackoffTyped
<1>7. ASSUME NEW r \in Rules, DeleteRule(r) PROVE k \in DOMAIN attempts
  BY <1>7, DeleteTyped
<1>8. CASE UNCHANGED attempts
  BY <1>8
<1>9. ASSUME NEW d \in Dispatchers,
             \/ \E s \in Times \X Severities : Signal(d, s)
             \/ \E r \in Rules : FindLatest(d, r)
             \/ Finish(d) \/ Record(d) \/ ListChannels(d) \/ ChannelsDone(d) \/ StopDispatch(d)
      PROVE  UNCHANGED attempts
  BY <1>9 DEF Signal, FindLatest, Finish, Record, ListChannels, ChannelsDone, StopDispatch
<1>10. ListRetryable \/ StopRetry \/ (\E c \in Channels : ToggleChannel(c)) \/ UNCHANGED alertVars
         => UNCHANGED attempts
  BY DEF ListRetryable, StopRetry, ToggleChannel, alertVars
<1> QED
  BY <1>1, <1>2, <1>3, <1>4, <1>5, <1>6, <1>7, <1>8, <1>9, <1>10 DEF AlertNext, DispatchStep, RetryStep

(* The events that a worker has and that rows have. *)
LEMMA EventsInvKept ==
    ASSUME TypeInv, EventsInv, [AlertNext]_alertVars
    PROVE  EventsInv'
<1>t. TypeInv'
  BY TypesKept
<1>l. /\ live \subseteq Rules /\ live' \subseteq live
      /\ \A r \in live' : \A i \in DOMAIN events[r] :
            i \in DOMAIN events'[r] /\ events'[r][i] = events[r][i]
  BY EventsStay DEF TypeInv
<1>1. CASE EventsKept
  <2>1. \A r \in Rules \ live' : events'[r] = <<>>
    BY <1>1 DEF EventsKept, EventsInv
  <2>2. ASSUME NEW k \in DOMAIN attempts' PROVE k[2] \in DOMAIN events'[k[1]]
    <3>1. CASE k \in DOMAIN attempts
      BY <1>1, <3>1 DEF EventsKept, EventsInv
    <3>2. CASE k \notin DOMAIN attempts
      <4>1. PICK d \in Dispatchers, c \in Channels :
               /\ CreateAttempt(d, c) /\ dispatch[d].rule \in live
               /\ k = <<dispatch[d].rule, dispatch[d].event, c>>
        BY <3>2, RowsComeFrom
      <4>2. At(d, EventPlaces)
        BY <4>1 DEF CreateAttempt, At, EventPlaces
      <4> QED
        BY <1>1, <4>1, <4>2 DEF EventsKept, EventsInv
    <3> QED
      BY <3>1, <3>2
  <2> QED
    BY <1>1, <2>1, <2>2 DEF EventsKept, EventsInv
<1>2. ASSUME NEW d \in Dispatchers, RecordsEvent(d) PROVE EventsInv'
  <2> DEFINE r == dispatch[d].rule
             n == Len(events[r]) + 1
  <2>1. /\ r \in live /\ r \in Rules /\ live' = live /\ attempts' = attempts
        /\ \A q \in Rules : q # r => events'[q] = events[q]
        /\ Len(events'[r]) = n
        /\ events[r] \in Seq(Times \X Severities) /\ events'[r] \in Seq(Times \X Severities)
        /\ \A e \in Dispatchers \ {d} : dispatch'[e] = dispatch[e]
    BY <1>2, <1>t DEF RecordsEvent, TypeInv
  <2>2. dispatch'[d].rule = r /\ dispatch'[d].event = n /\ dispatch'[d].at = "channels"
    BY <1>2 DEF RecordsEvent, TypeInv, Works
  <2>3. n \in DOMAIN events'[r] /\ n \notin DOMAIN events[r] /\ DOMAIN events[r] \subseteq DOMAIN events'[r]
    BY ONLY <2>1
  <2>4. \A q \in Rules \ live' : events'[q] = <<>>
    BY <2>1 DEF EventsInv
  <2>5. ASSUME NEW k \in DOMAIN attempts' PROVE k[2] \in DOMAIN events'[k[1]]
    <3>1. k \in AllKeys /\ k[2] \in DOMAIN events[k[1]]
      BY <2>1, <2>5 DEF EventsInv, TypeInv
    <3>2. k[1] \in Rules
      BY <3>1 DEF AllKeys
    <3> QED
      BY <2>1, <2>3, <3>1, <3>2
  <2>6. ASSUME NEW e \in Dispatchers, At(e, EventPlaces)', dispatch'[e].rule \in live'
        PROVE  dispatch'[e].event \in DOMAIN events'[dispatch'[e].rule]
    <3>1. CASE e = d
      BY <2>2, <2>3, <3>1
    <3>2. CASE e # d
      <4>1. dispatch'[e] = dispatch[e] /\ At(e, EventPlaces) /\ dispatch[e].rule \in live
        BY <2>1, <2>6, <3>2 DEF At
      <4>2. dispatch[e].event \in DOMAIN events[dispatch[e].rule]
        BY <4>1 DEF EventsInv
      <4> QED
        BY <1>l, <2>1, <4>1, <4>2
    <3> QED
      BY <3>1, <3>2
  <2>7. ASSUME NEW e \in Dispatchers, e # d, At(e, EventPlaces)', dispatch'[e].rule = r
        PROVE  dispatch'[e].event # n
    <3>1. dispatch'[e] = dispatch[e] /\ At(e, EventPlaces)
      BY <2>1, <2>7 DEF At
    <3>2. dispatch[e].event \in DOMAIN events[r]
      BY <2>1, <2>7, <3>1 DEF EventsInv
    <3> QED
      BY <2>3, <3>1, <3>2
  <2>8. ASSUME NEW e \in Dispatchers, NEW f \in Dispatchers,
               e # f, At(e, EventPlaces)', At(f, EventPlaces)', dispatch'[e].rule \in live'
        PROVE  dispatch'[e].rule # dispatch'[f].rule \/ dispatch'[e].event # dispatch'[f].event
    <3>1. CASE e = d
      BY <2>2, <2>7, <2>8, <3>1
    <3>2. CASE f = d
      BY <2>2, <2>7, <2>8, <3>2
    <3>3. CASE e # d /\ f # d
      BY <2>1, <2>8, <3>3 DEF EventsInv, At
    <3> QED
      BY <3>1, <3>2, <3>3
  <2> QED
    BY <2>4, <2>5, <2>6, <2>8 DEF EventsInv
<1>3. ASSUME NEW r \in Rules, DeleteRule(r) PROVE EventsInv'
  <2>1. /\ live' = live \ {r} /\ dispatch' = dispatch /\ events'[r] = <<>>
        /\ \A q \in Rules : q # r => events'[q] = events[q]
        /\ DOMAIN attempts' = {k \in DOMAIN attempts : k[1] # r}
    BY <1>3, DeleteTyped DEF DeleteRule
  <2>2. \A q \in Rules \ live' : events'[q] = <<>>
    BY <2>1 DEF EventsInv
  <2>3. ASSUME NEW k \in DOMAIN attempts' PROVE k[2] \in DOMAIN events'[k[1]]
    <3>1. k \in DOMAIN attempts /\ k \in AllKeys /\ k[1] # r
      BY <2>1, <2>3 DEF TypeInv
    <3>2. k[1] \in Rules
      BY <3>1 DEF AllKeys
    <3> QED
      BY <2>1, <3>1, <3>2 DEF EventsInv
  <2> QED
    BY <1>l, <2>1, <2>2, <2>3 DEF EventsInv, At
<1> QED
  BY <1>1, <1>2, <1>3, EventMoves
-----------------------------------------------------------------------------
(* Division into windows. *)
LEMMA Bucket ==
    ASSUME NEW a \in Nat, NEW n \in Nat \ {0}
    PROVE  /\ a \div n \in Nat
           /\ n * (a \div n) <= a
           /\ a < n * (a \div n) + n
<1>1. a \div n \in Nat /\ a % n \in 0..(n - 1) /\ a = n * (a \div n) + (a % n)
  OBVIOUS
<1>2. n * (a \div n) \in Nat
  BY <1>1
<1> QED
  BY <1>1, <1>2

(* Two times of one window are less than a window apart. *)
LEMMA SameBucket ==
    ASSUME NEW a \in Nat, NEW b \in Nat, NEW n \in Nat \ {0}, a \div n = b \div n
    PROVE  a < b + n
<1>1. PICK m \in Nat : m = n * (b \div n)
  BY Bucket
<1> QED
  BY <1>1, Bucket

(* Two times less than a window apart are in one window or in neighbouring ones. *)
LEMMA NextBucket ==
    ASSUME NEW a \in Nat, NEW b \in Nat, NEW n \in Nat \ {0}, a <= b, b <= a + n - 1
    PROVE  b \div n \in {a \div n, (a \div n) + 1}
<1>1. PICK p \in Nat, q \in Nat : p = a \div n /\ q = b \div n
  BY Bucket
<1>2. n * p <= a /\ a < n * p + n /\ n * q <= b /\ b < n * q + n /\ n * p \in Nat /\ n * q \in Nat
  BY <1>1, Bucket
<1>3. ASSUME q < p PROVE FALSE
  <2>1. PICK k \in Nat : p = q + 1 + k
    <3>1. p - q - 1 \in Nat
      BY <1>3
    <3> QED
      BY <3>1
  <2>2. n * p = n * q + n + n * k /\ n * k \in Nat
    BY <2>1
  <2> QED
    BY <1>2, <2>2
<1>4. ASSUME p + 1 < q PROVE FALSE
  <2>1. PICK k \in Nat : q = p + 2 + k
    <3>1. q - p - 2 \in Nat
      BY <1>4
    <3> QED
      BY <3>1
  <2>2. n * q = n * p + n + n + n * k /\ n * k \in Nat
    BY <2>1
  <2> QED
    BY <1>2, <2>2
<1> QED
  BY <1>1, <1>3, <1>4

(* The window of a rule is a positive number of ticks. *)
LEMMA WindowTyped == ASSUME NEW r \in Rules PROVE Window(r) \in Nat \ {0}
BY DEF Window

(* Events of a rule have keys of their own. *)
LEMMA ApartInvKept ==
    ASSUME TypeInv, EventsInv, ApartInv, [AlertNext]_alertVars
    PROVE  ApartInv'
<1>t. TypeInv'
  BY TypesKept
<1>1. CASE EventsKept
  BY <1>1 DEF EventsKept, ApartInv
<1>2. ASSUME NEW d \in Dispatchers, RecordsEvent(d) PROVE ApartInv'
  <2> DEFINE r == dispatch[d].rule
             n == Len(events[r]) + 1
             s == dispatch[d].signal
  <2>1. /\ r \in Rules /\ Len(events'[r]) = n /\ events'[r][n] = s
        /\ events[r] \in Seq(Times \X Severities) /\ events'[r] \in Seq(Times \X Severities)
        /\ \A q \in Rules : q # r => events'[q] = events[q]
        /\ \A i \in DOMAIN events[r] : events'[r][i] = events[r][i]
        /\ \A i \in DOMAIN events[r] : DedupKey(r, events[r][i]) # DedupKey(r, s)
    BY <1>2, <1>t DEF RecordsEvent, TypeInv
  <2>2. DOMAIN events'[r] = DOMAIN events[r] \cup {n}
    BY ONLY <2>1
  <2>3. ASSUME NEW i \in DOMAIN events'[r], NEW j \in DOMAIN events'[r], i # j
        PROVE  DedupKey(r, events'[r][i]) # DedupKey(r, events'[r][j])
    <3>1. CASE i = n
      BY <2>1, <2>2, <2>3, <3>1
    <3>2. CASE j = n
      BY <2>1, <2>2, <2>3, <3>2
    <3>3. CASE i # n /\ j # n
      BY <2>1, <2>2, <2>3, <3>3 DEF ApartInv
    <3> QED
      BY <3>1, <3>2, <3>3
  <2>4. ASSUME NEW q \in Rules, NEW i \in DOMAIN events'[q], NEW j \in DOMAIN events'[q], i # j
        PROVE  DedupKey(q, events'[q][i]) # DedupKey(q, events'[q][j])
    <3>1. CASE q = r
      BY <2>3, <2>4, <3>1
    <3>2. CASE q # r
      BY <2>1, <2>4, <3>2 DEF ApartInv
    <3> QED
      BY <3>1, <3>2
  <2> QED
    BY <2>4 DEF ApartInv
<1>3. ASSUME NEW r \in Rules, DeleteRule(r) PROVE ApartInv'
  <2>1. events'[r] = <<>> /\ \A q \in Rules : q # r => events'[q] = events[q]
    BY <1>3, DeleteTyped
  <2>2. DOMAIN events'[r] = {}
    BY <2>1
  <2> QED
    BY <2>1, <2>2 DEF ApartInv
<1> QED
  BY <1>1, <1>2, <1>3, EventMoves

(* A window of time falls into two buckets, so it sees two events of a severity. *)
LEMMA TwoPerWindow ==
    ASSUME TypeInv, ApartInv
    PROVE  AtMostTwoPerWindow
<1> SUFFICES ASSUME NEW r \in Rules, NEW s \in Times \X Severities
             PROVE  Cardinality({i \in DOMAIN events[r] :
                       /\ Severity(events[r][i]) = Severity(s)
                       /\ ObservedAt(events[r][i]) \in ObservedAt(s)..(ObservedAt(s) + Window(r) - 1)}) <= 2
  BY DEF AtMostTwoPerWindow
<1> DEFINE near == {i \in DOMAIN events[r] :
                       /\ Severity(events[r][i]) = Severity(s)
                       /\ ObservedAt(events[r][i]) \in ObservedAt(s)..(ObservedAt(s) + Window(r) - 1)}
           first == ObservedAt(s) \div Window(r)
           buckets == {first, first + 1}
           bucket == [i \in near |-> ObservedAt(events[r][i]) \div Window(r)]
<1>w. Window(r) \in Nat \ {0}
  BY WindowTyped
<1>e. \A i \in DOMAIN events[r] : ObservedAt(events[r][i]) \in Nat /\ events[r][i] \in Times \X Severities
  BY DEF TypeInv, ObservedAt
<1>s. ObservedAt(s) \in Nat /\ first \in Nat
  BY <1>w, Bucket DEF ObservedAt
<1>1. ASSUME NEW i \in near PROVE bucket[i] \in buckets
  <2>1. /\ ObservedAt(events[r][i]) \in Nat /\ ObservedAt(s) <= ObservedAt(events[r][i])
        /\ ObservedAt(events[r][i]) <= ObservedAt(s) + Window(r) - 1
    BY <1>w, <1>e, <1>s
  <2>2. ObservedAt(events[r][i]) \div Window(r) \in {first, first + 1}
    BY <1>w, <1>s, <2>1, NextBucket
  <2> QED
    BY <2>2
<1>2. ASSUME NEW i \in near, NEW j \in near, i # j PROVE bucket[i] # bucket[j]
  <2>1. DedupKey(r, events[r][i]) # DedupKey(r, events[r][j])
    BY <1>2 DEF ApartInv
  <2>2. Severity(events[r][i]) = Severity(events[r][j])
    BY <1>2
  <2> QED
    BY <2>1, <2>2 DEF DedupKey
<1> HIDE DEF near, first
<1>3. bucket \in [near -> buckets] /\ \A i, j \in near : i # j => bucket[i] # bucket[j]
  BY <1>1, <1>2
<1>4. IsFiniteSet(buckets) /\ Cardinality(buckets) = 2
  <2>1. IsFiniteSet({first}) /\ Cardinality({first}) = 1
    BY FS_Singleton
  <2>2. buckets = {first} \cup {first + 1} /\ first + 1 \notin {first}
    BY <1>s
  <2>3. /\ IsFiniteSet({first} \cup {first + 1})
        /\ Cardinality({first} \cup {first + 1}) = Cardinality({first}) + 1
    BY <2>1, <2>2, FS_AddElement
  <2>4. 1 + 1 = 2
    OBVIOUS
  <2> QED
    BY <2>1, <2>2, <2>3, <2>4, Zenon
<1>5. IsFiniteSet(near) /\ Cardinality(near) <= Cardinality(buckets)
  <2> HIDE DEF bucket, buckets
  <2>1. bucket \in Injection(near, buckets)
    BY <1>3 DEF IsInjective, Injection
  <2> QED
    BY <1>4, <2>1, FS_Injection
<1> QED
  BY <1>4, <1>5 DEF near
-----------------------------------------------------------------------------
(* Covered, after a step. *)
CoveredAfter(r, s) ==
    \E i \in DOMAIN events'[r] :
       /\ ObservedAt(s) < ObservedAt(events'[r][i]) + Window(r)
       /\ Definition[r].renotify => Severity(events'[r][i]) >= Severity(s)

(* An event that covers a rule for a signal goes on doing so. *)
LEMMA CoveredStays ==
    ASSUME TypeInv, [AlertNext]_alertVars, NEW r \in live', NEW s, Covered(r, s)
    PROVE  CoveredAfter(r, s)
BY EventsStay DEF Covered, CoveredAfter

(* A rule that is cooling is covered: the signal is within the cooldown of an event. *)
LEMMA CoolingCovers ==
    ASSUME TypeInv, NEW r \in Rules, NEW s \in Times \X Severities, Cooling(r, s)
    PROVE  Covered(r, s)
<1>1. PICK i \in DOMAIN events[r] :
         /\ Definition[r].cooldown > 0
         /\ ObservedAt(s) < ObservedAt(events[r][i]) + Definition[r].cooldown
         /\ Definition[r].renotify => Severity(s) <= Severity(events[r][i])
  BY DEF Cooling
<1>2. events[r][i] \in Times \X Severities
  BY DEF TypeInv
<1>3. Severity(s) \in Nat /\ Severity(events[r][i]) \in Nat
  BY <1>2 DEF Severity
<1> QED
  BY <1>1, <1>3 DEF Covered, Window

(* A rule that has an event of the signal's key is covered: it is of the same window. *)
LEMMA KnownCovers ==
    ASSUME NEW r \in Rules, NEW s \in Times \X Severities, NEW e \in Times \X Severities,
           DedupKey(r, e) = DedupKey(r, s)
    PROVE  ObservedAt(s) < ObservedAt(e) + Window(r) /\ Severity(e) >= Severity(s)
<1>1. ObservedAt(s) \in Nat /\ ObservedAt(e) \in Nat /\ Severity(s) \in Nat /\ Severity(e) \in Nat
  BY DEF ObservedAt, Severity
<1>2. ObservedAt(e) \div Window(r) = ObservedAt(s) \div Window(r) /\ Severity(e) = Severity(s)
  BY DEF DedupKey
<1>3. ObservedAt(s) < ObservedAt(e) + Window(r)
  BY <1>1, <1>2, SameBucket, WindowTyped
<1> QED
  BY <1>1, <1>2, <1>3

(* A worker that goes on with its signal and passes over no rule. *)
GoesOn(e) ==
    dispatch'[e].at # "idle" =>
       /\ ~At(e, {"idle"}) /\ dispatch'[e].signal = dispatch[e].signal
       /\ \A r \in Rules : Ahead(dispatch[e], r) => Ahead(dispatch'[e], r)

(* What a worker goes by after a step. *)
CoverOf(e) ==
    \A r \in live' :
       dispatch'[e].at # "idle" /\ ~Ahead(dispatch'[e], r) /\ Wanted(r, dispatch'[e].signal)
          => CoveredAfter(r, dispatch'[e].signal)

(* A dispatch that goes on to its next rule leaves no rule uncovered behind it. *)
LEMMA GoingOnCovers ==
    ASSUME TypeInv, CoverInv, [AlertNext]_alertVars, NEW e \in Dispatchers, GoesOn(e)
    PROVE  CoverOf(e)
<1> SUFFICES ASSUME NEW r \in live', dispatch'[e].at # "idle", ~Ahead(dispatch'[e], r),
                    Wanted(r, dispatch'[e].signal)
             PROVE  CoveredAfter(r, dispatch'[e].signal)
  BY DEF CoverOf
<1>1. r \in live /\ r \in Rules
  BY EventsStay DEF TypeInv
<1>2. ~At(e, {"idle"}) /\ dispatch'[e].signal = dispatch[e].signal /\ ~Ahead(dispatch[e], r)
  BY <1>1 DEF GoesOn
<1>3. Covered(r, dispatch[e].signal)
  BY <1>1, <1>2 DEF CoverInv
<1> QED
  BY <1>2, <1>3, CoveredStays

(* Each call of a dispatch leaves the rules it has done with covered. *)
LEMMA EachCovers ==
    ASSUME TypeInv, CoverInv, [AlertNext]_alertVars, NEW e \in Dispatchers
    PROVE  CoverOf(e)
<1>w. \A d \in Dispatchers : dispatch[d] \in Works /\ WorkTypes(dispatch[d])
  BY DEF TypeInv
<1>g. ASSUME NEW d \in Dispatchers, NEW w, Goes(d, w)
      PROVE  dispatch'[d] = w /\ \A f \in Dispatchers \ {d} : dispatch'[f] = dispatch[f]
  BY <1>g DEF Goes, TypeInv
<1>s. ASSUME dispatch'[e] = dispatch[e] \/ dispatch'[e] = Idle PROVE CoverOf(e)
  <2>1. Idle.at = "idle"
    BY DEF Idle
  <2>2. GoesOn(e)
    BY <1>s, <2>1 DEF GoesOn, At
  <2> QED
    BY <2>2, GoingOnCovers
<1>1. ASSUME NEW d \in Dispatchers, NEW s \in Times \X Severities, Signal(d, s) PROVE CoverOf(e)
  <2>1. CASE e # d
    BY <1>1, <1>g, <1>s, <2>1 DEF Signal
  <2>2. CASE e = d
    <3>1. dispatch'[e] = [Idle EXCEPT !.at = "rule", !.signal = s, !.rules = live] /\ live' = live
      BY <1>1, <1>g, <2>2 DEF Signal
    <3>2. dispatch'[e].rules = live
      BY <3>1 DEF Idle
    <3> QED
      BY <3>1, <3>2 DEF CoverOf, Ahead
  <2> QED
    BY <2>1, <2>2
<1>2. ASSUME NEW d \in Dispatchers, NEW r \in Rules, FindLatest(d, r) PROVE CoverOf(e)
  <2>1. CASE e # d
    BY <1>2, <1>g, <1>s, <2>1 DEF FindLatest
  <2>2. CASE e = d
    <3> DEFINE left == [dispatch[d] EXCEPT !.rules = @ \ {r}]
               chosen == [left EXCEPT !.at = "record", !.rule = r]
    <3>0. /\ dispatch[d].at = "rule" /\ live' = live /\ events' = events
          /\ dispatch[d].signal \in Times \X Severities
      BY <1>2, <1>w DEF FindLatest, WorkTypes
    <3>1. /\ left.at = "rule" /\ left.signal = dispatch[d].signal /\ left.rules = dispatch[d].rules \ {r}
          /\ chosen.at = "record" /\ chosen.rule = r /\ chosen.signal = dispatch[d].signal
          /\ chosen.rules = dispatch[d].rules \ {r}
      BY <1>w, <3>0 DEF Works
    <3> HIDE DEF left, chosen
    <3>2. CASE /\ dispatch'[d] = left
               /\ Wanted(r, dispatch[d].signal) => Cooling(r, dispatch[d].signal)
      <4> SUFFICES ASSUME NEW q \in live', ~Ahead(left, q), Wanted(q, dispatch[d].signal)
                   PROVE  CoveredAfter(q, dispatch[d].signal)
        BY <2>2, <3>1, <3>2 DEF CoverOf
      <4>1. q \in live /\ q \in Rules
        BY <3>0 DEF TypeInv
      <4>2. CASE q = r
        BY <3>0, <3>2, <4>1, <4>2, CoolingCovers, CoveredStays
      <4>3. CASE q # r
        <5>1. ~Ahead(dispatch[d], q)
          BY <3>0, <3>1, <4>3 DEF Ahead
        <5>2. Covered(q, dispatch[d].signal)
          BY <3>0, <4>1, <5>1 DEF CoverInv, At
        <5> QED
          BY <5>2, CoveredStays
      <4> QED
        BY <4>2, <4>3
    <3>3. CASE dispatch'[d] = chosen
      <4>1. \A q \in Rules : Ahead(dispatch[d], q) => Ahead(chosen, q)
        BY <3>0, <3>1 DEF Ahead
      <4>2. GoesOn(d)
        BY <3>0, <3>1, <3>3, <4>1 DEF GoesOn, At
      <4> QED
        BY <2>2, <4>2, GoingOnCovers
    <3>4. \/ dispatch'[d] = chosen
          \/ /\ dispatch'[d] = left
             /\ Wanted(r, dispatch[d].signal) => Cooling(r, dispatch[d].signal)
      BY <1>2, <1>g DEF FindLatest, left, chosen
    <3> QED
      BY <3>2, <3>3, <3>4
  <2> QED
    BY <2>1, <2>2
<1>3. ASSUME NEW d \in Dispatchers, Finish(d) \/ StopDispatch(d) PROVE CoverOf(e)
  BY <1>3, <1>g, <1>s DEF Finish, StopDispatch
<1>4. ASSUME NEW d \in Dispatchers, Record(d) PROVE CoverOf(e)
  <2>1. CASE e # d
    BY <1>4, <1>g, <1>s, <2>1 DEF Record
  <2>2. CASE e = d
    <3> DEFINE r == dispatch[d].rule
               s == dispatch[d].signal
    <3>0. /\ dispatch[d].at = "record" /\ live' = live /\ r \in Rules /\ s \in Times \X Severities
          /\ dispatch[d] \in Works /\ live \subseteq Rules
      BY <1>4, <1>w DEF Record, WorkTypes, TypeInv
    <3>1. CASE dispatch'[d] = Idle
      BY <1>s, <2>2, <3>1
    (* Everybody is covered who was, and so is r. *)
    <3>2. ASSUME NEW w, dispatch'[d] = w, w.signal = s, w.rules = dispatch[d].rules, CoveredAfter(r, s)
          PROVE  CoverOf(e)
      <4> SUFFICES ASSUME NEW q \in live', ~Ahead(w, q), Wanted(q, s) PROVE CoveredAfter(q, s)
        BY <2>2, <3>2 DEF CoverOf
      <4>1. CASE q = r
        BY <3>2, <4>1
      <4>2. CASE q # r
        <5>1. ~Ahead(dispatch[d], q)
          BY <3>2, <4>2 DEF Ahead
        <5>2. Covered(q, s)
          BY <3>0, <5>1 DEF CoverInv, At
        <5> QED
          BY <5>2, CoveredStays
      <4> QED
        BY <4>1, <4>2
    <3>3. CASE /\ r \in live /\ dispatch'[d] = [dispatch[d] EXCEPT !.at = "rule", !.rule = "none"]
               /\ \E i \in DOMAIN events[r] : DedupKey(r, events[r][i]) = DedupKey(r, s)
      <4>1. PICK i \in DOMAIN events[r] : DedupKey(r, events[r][i]) = DedupKey(r, s)
        BY <3>3
      <4>2. events[r][i] \in Times \X Severities
        BY <3>0, <4>1 DEF TypeInv
      <4>3. Covered(r, s)
        BY <3>0, <4>1, <4>2, KnownCovers DEF Covered
      <4>4. CoveredAfter(r, s)
        BY <3>0, <3>3, <4>3, CoveredStays
      <4>5. /\ [dispatch[d] EXCEPT !.at = "rule", !.rule = "none"].signal = s
            /\ [dispatch[d] EXCEPT !.at = "rule", !.rule = "none"].rules = dispatch[d].rules
        BY <3>0 DEF Works
      <4> QED
        BY <3>2, <3>3, <4>4, <4>5
    <3>4. CASE RecordsEvent(d)
      <4> DEFINE n == Len(events[r]) + 1
      <4>1. /\ dispatch'[d] = [dispatch[d] EXCEPT !.at = "channels", !.event = n]
            /\ events'[r][n] = s /\ Len(events'[r]) = n
        BY <3>4 DEF RecordsEvent
      <4>2. events[r] \in Seq(Times \X Severities) /\ events'[r] \in Seq(Times \X Severities)
        BY <3>0, TypesKept DEF TypeInv
      <4>3. n \in DOMAIN events'[r]
        BY ONLY <4>1, <4>2
      <4>4. ObservedAt(s) < ObservedAt(s) + Window(r) /\ Severity(s) >= Severity(s)
        <5>1. ObservedAt(s) \in Nat /\ Severity(s) \in Nat /\ Window(r) \in Nat \ {0}
          BY <3>0, WindowTyped DEF ObservedAt, Severity
        <5> QED
          BY ONLY <5>1
      <4>5. CoveredAfter(r, s)
        BY <4>1, <4>3, <4>4 DEF CoveredAfter
      <4>6. /\ [dispatch[d] EXCEPT !.at = "channels", !.event = n].signal = s
            /\ [dispatch[d] EXCEPT !.at = "channels", !.event = n].rules = dispatch[d].rules
        BY <3>0 DEF Works
      <4> QED
        BY <3>2, <4>1, <4>5, <4>6
    <3>5. \/ dispatch'[d] = Idle
          \/ /\ r \in live /\ dispatch'[d] = [dispatch[d] EXCEPT !.at = "rule", !.rule = "none"]
             /\ \E i \in DOMAIN events[r] : DedupKey(r, events[r][i]) = DedupKey(r, s)
          \/ RecordsEvent(d)
      <4>1. CASE events' = events /\ ~At(d, EventPlaces)'
        <5>1. dispatch'[d].at \notin EventPlaces
          BY <4>1 DEF At
        <5>2. [dispatch[d] EXCEPT !.at = "channels", !.event = Len(events[r]) + 1].at = "channels"
          BY <3>0 DEF Works
        <5> QED
          BY <1>4, <1>g, <5>1, <5>2 DEF Record, EventPlaces
      <4>2. CASE ~(events' = events /\ ~At(d, EventPlaces)')
        BY <1>4, <4>2, RecordMoves
      <4> QED
        BY <4>1, <4>2
    <3> QED
      BY <3>1, <3>3, <3>4, <3>5
  <2> QED
    BY <2>1, <2>2
<1>5. ASSUME NEW d \in Dispatchers, NEW w, Goes(d, w), w.signal = dispatch[d].signal,
             w.rules = dispatch[d].rules, dispatch[d].at \notin {"idle", "record"}
      PROVE  CoverOf(e)
  <2>1. CASE e # d
    BY <1>5, <1>g, <1>s, <2>1
  <2>2. CASE e = d
    <3>1. dispatch'[e] = w
      BY <1>5, <1>g, <2>2
    <3>2. GoesOn(e)
      BY <1>5, <2>2, <3>1 DEF GoesOn, Ahead, At
    <3> QED
      BY <3>2, GoingOnCovers
  <2> QED
    BY <2>1, <2>2
<1>6. ASSUME NEW d \in Dispatchers, ListChannels(d) PROVE CoverOf(e)
  <2> DEFINE w == [dispatch[d] EXCEPT !.at = "create", !.channels = enabled \cap ChannelsOf[dispatch[d].rule]]
  <2>1. w.signal = dispatch[d].signal /\ w.rules = dispatch[d].rules
    BY <1>w DEF Works
  <2>2. Goes(d, w) /\ dispatch[d].at = "channels"
    BY <1>6 DEF ListChannels
  <2> HIDE DEF w
  <2> QED
    BY <1>5, <2>1, <2>2
<1>7. ASSUME NEW d \in Dispatchers, ChannelsDone(d) PROVE CoverOf(e)
  <2> DEFINE w == [dispatch[d] EXCEPT !.at = "rule", !.rule = "none", !.event = 0, !.channel = "none"]
  <2>1. w.signal = dispatch[d].signal /\ w.rules = dispatch[d].rules
    BY <1>w DEF Works
  <2>2. Goes(d, w) /\ dispatch[d].at = "create"
    BY <1>7 DEF ChannelsDone
  <2> HIDE DEF w
  <2> QED
    BY <1>5, <2>1, <2>2
<1>8. ASSUME NEW d \in Dispatchers, NEW c \in Channels, CreateAttempt(d, c) PROVE CoverOf(e)
  <2> DEFINE w == [dispatch[d] EXCEPT !.at = "send", !.channels = @ \ {c}, !.channel = c]
  <2>1. w.signal = dispatch[d].signal /\ w.rules = dispatch[d].rules
    BY <1>w DEF Works
  <2>2. (Goes(d, w) \/ Goes(d, Idle)) /\ dispatch[d].at = "create"
    BY <1>8 DEF CreateAttempt
  <2> HIDE DEF w
  <2>3. CASE Goes(d, Idle)
    BY <1>g, <1>s, <2>3
  <2> QED
    BY <1>5, <2>1, <2>2, <2>3
<1>9. ASSUME NEW d \in Dispatchers, Send(d) PROVE CoverOf(e)
  <2>1. PICK ok \in BOOLEAN : Goes(d, [dispatch[d] EXCEPT !.at = "update", !.ok = ok])
    BY <1>9 DEF Send
  <2> DEFINE w == [dispatch[d] EXCEPT !.at = "update", !.ok = ok]
  <2>2. w.signal = dispatch[d].signal /\ w.rules = dispatch[d].rules
    BY <1>w DEF Works
  <2>3. Goes(d, w) /\ dispatch[d].at = "send"
    BY <1>9, <2>1 DEF Send
  <2> HIDE DEF w
  <2> QED
    BY <1>5, <2>2, <2>3
<1>10. ASSUME NEW d \in Dispatchers, UpdateAttempt(d) PROVE CoverOf(e)
  <2> DEFINE w == [dispatch[d] EXCEPT !.at = "create", !.channel = "none", !.ok = FALSE]
  <2>1. w.signal = dispatch[d].signal /\ w.rules = dispatch[d].rules
    BY <1>w DEF Works
  <2>2. (Goes(d, w) \/ Goes(d, Idle)) /\ dispatch[d].at = "update"
    BY <1>10 DEF UpdateAttempt
  <2> HIDE DEF w
  <2>3. CASE Goes(d, Idle)
    BY <1>g, <1>s, <2>3
  <2> QED
    BY <1>5, <2>1, <2>2, <2>3
<1>11. ASSUME \/ RetryStep \/ StopRetry \/ UNCHANGED alertVars
              \/ \E k \in DOMAIN attempts : BackoffEnds(k)
              \/ \E c \in Channels : ToggleChannel(c)
              \/ \E r \in Rules : DeleteRule(r)
       PROVE  CoverOf(e)
  <2>1. dispatch' = dispatch
    BY <1>11 DEF RetryStep, ListRetryable, Resend, UpdateRetried, StopRetry, BackoffEnds, ToggleChannel,
                 DeleteRule, alertVars
  <2> QED
    BY <1>s, <2>1
<1> QED
  BY <1>1, <1>2, <1>3, <1>4, <1>6, <1>7, <1>8, <1>9, <1>10, <1>11 DEF AlertNext, DispatchStep

(* Who was covered stays so, and a dispatch that ends has covered every rule. *)
LEMMA CoverInvKept ==
    ASSUME TypeInv, CoverInv, [AlertNext]_alertVars
    PROVE  CoverInv'
<1>1. ASSUME NEW s \in served', NEW r \in live', Wanted(r, s) PROVE CoveredAfter(r, s)
  <2>1. r \in live
    BY EventsStay
  <2>2. CASE s \in served
    <3>1. Covered(r, s)
      BY <1>1, <2>1, <2>2 DEF CoverInv, CoveredSignals, Covered
    <3> QED
      BY <3>1, CoveredStays
  <2>3. CASE s \notin served
    <3>1. PICK d \in Dispatchers : Finish(d)
      BY <2>3 DEF AlertNext, DispatchStep, RetryStep, Signal, FindLatest, Record, ListChannels,
                  ChannelsDone, CreateAttempt, Send, UpdateAttempt, StopDispatch, ListRetryable, Resend,
                  UpdateRetried, StopRetry, BackoffEnds, ToggleChannel, DeleteRule, alertVars
    <3>2. s = dispatch[d].signal /\ dispatch[d].at = "rule" /\ dispatch[d].rules = {}
      BY <2>3, <3>1 DEF Finish
    <3>3. Covered(r, s)
      BY <1>1, <2>1, <3>2 DEF CoverInv, Ahead, At
    <3> QED
      BY <3>3, CoveredStays
  <2> QED
    BY <2>2, <2>3
<1>2. ASSUME NEW d \in Dispatchers, dispatch'[d].at # "idle", NEW r \in live',
             ~Ahead(dispatch'[d], r), Wanted(r, dispatch'[d].signal)
      PROVE  CoveredAfter(r, dispatch'[d].signal)
  BY <1>2, EachCovers DEF CoverOf
<1> QED
  BY <1>1, <1>2 DEF CoverInv, CoveredSignals, CoveredAfter, Covered, At, Ahead, Wanted
-----------------------------------------------------------------------------
(* What a step does to the work of a dispatcher that is about an event. *)
SameEvent(d) == dispatch'[d].rule = dispatch[d].rule /\ dispatch'[d].event = dispatch[d].event

Lists(d) ==
    /\ ListChannels(d) /\ SameEvent(d)
    /\ dispatch[d].at = "channels" /\ dispatch'[d].at = "create"
    /\ dispatch'[d].channels = enabled \cap ChannelsOf[dispatch[d].rule]

Creates(d, c) ==
    /\ CreateAttempt(d, c) /\ SameEvent(d) /\ dispatch[d].rule \in live
    /\ dispatch[d].at = "create" /\ dispatch'[d].at = "send"
    /\ c \in dispatch[d].channels
    /\ dispatch'[d].channels = dispatch[d].channels \ {c} /\ dispatch'[d].channel = c

Sends(d) ==
    /\ Send(d) /\ SameEvent(d)
    /\ dispatch[d].at = "send" /\ dispatch'[d].at = "update"
    /\ dispatch'[d].channels = dispatch[d].channels /\ dispatch'[d].channel = dispatch[d].channel
    /\ \E arrives \in BOOLEAN : Sent(Key(d), arrives, dispatch'[d].ok)

Updates(d) ==
    /\ UpdateAttempt(d) /\ SameEvent(d) /\ Key(d) \in DOMAIN attempts
    /\ dispatch[d].at = "update" /\ dispatch'[d].at = "create"
    /\ dispatch'[d].channels = dispatch[d].channels

(* It comes to the end of its channels, its rule goes, it fails. *)
Leaves(d) ==
    /\ ~At(d, EventPlaces)'
    /\ At(d, EventPlaces) =>
          \/ dispatch[d].at = "create" /\ dispatch[d].channels = {}
                /\ UNCHANGED <<live, enabled, events, attempts, retry, alertFailures, switched>>
          \/ dispatch[d].rule \notin live
          \/ dispatch[d].at = "update" /\ Key(d) \notin DOMAIN attempts
          \/ StopDispatch(d)

(* What the calls of a dispatch do to the rows, the failures and the works. *)
LEMMA DispatchMoves ==
    ASSUME TypeInv, [AlertNext]_alertVars, NEW d \in Dispatchers
    PROVE  \/ dispatch'[d] = dispatch[d]
           \/ RecordsEvent(d) \/ Lists(d) \/ (\E c \in Channels : Creates(d, c))
           \/ Sends(d) \/ Updates(d) \/ Leaves(d)
<1> DEFINE Moved == \/ dispatch'[d] = dispatch[d]
                    \/ RecordsEvent(d) \/ Lists(d) \/ (\E c \in Channels : Creates(d, c))
                    \/ Sends(d) \/ Updates(d) \/ Leaves(d)
<1>w. dispatch[d] \in Works
  BY DEF TypeInv
<1>g. ASSUME NEW e \in Dispatchers, NEW w, Goes(e, w)
      PROVE  dispatch'[e] = w /\ (e # d => dispatch'[d] = dispatch[d])
  BY <1>g DEF Goes, TypeInv
<1>i. Idle.at = "idle"
  BY DEF Idle
<1>1. ASSUME NEW s \in Times \X Severities, Signal(d, s) PROVE Leaves(d)
  <2>1. [Idle EXCEPT !.at = "rule", !.signal = s, !.rules = live].at = "rule"
    BY DEF Idle
  <2> QED
    BY <1>1, <1>g, <2>1 DEF Signal, Leaves, At, EventPlaces
<1>2. ASSUME NEW r \in Rules, FindLatest(d, r) PROVE Leaves(d)
  <2> DEFINE left == [dispatch[d] EXCEPT !.rules = @ \ {r}]
             chosen == [left EXCEPT !.at = "record", !.rule = r]
  <2>1. left.at = "rule" /\ chosen.at = "record"
    BY <1>w, <1>2 DEF FindLatest, Works
  <2> HIDE DEF left, chosen
  <2>2. Goes(d, left) \/ Goes(d, chosen)
    BY <1>2 DEF FindLatest, left, chosen
  <2> QED
    BY <1>g, <1>2, <2>1, <2>2 DEF FindLatest, Leaves, At, EventPlaces
<1>3. CASE Finish(d)
  BY <1>3, <1>g, <1>i DEF Finish, Leaves, At, EventPlaces
<1>4. CASE Record(d)
  BY <1>4, RecordMoves DEF Leaves, Record, At, EventPlaces
<1>5. CASE ListChannels(d)
  <2> DEFINE w == [dispatch[d] EXCEPT !.at = "create", !.channels = enabled \cap ChannelsOf[dispatch[d].rule]]
  <2>1. /\ w.at = "create" /\ w.channels = enabled \cap ChannelsOf[dispatch[d].rule]
        /\ w.rule = dispatch[d].rule /\ w.event = dispatch[d].event
    BY <1>w DEF Works
  <2> HIDE DEF w
  <2>2. dispatch'[d] = w
    BY <1>5, <1>g DEF ListChannels, w
  <2> QED
    BY <1>5, <2>1, <2>2 DEF ListChannels, Lists, SameEvent
<1>6. CASE ChannelsDone(d)
  <2> DEFINE w == [dispatch[d] EXCEPT !.at = "rule", !.rule = "none", !.event = 0, !.channel = "none"]
  <2>1. w.at = "rule"
    BY <1>w DEF Works
  <2> HIDE DEF w
  <2>2. dispatch'[d] = w
    BY <1>6, <1>g DEF ChannelsDone, w
  <2> QED
    BY <1>6, <2>1, <2>2 DEF ChannelsDone, Leaves, At, EventPlaces
<1>7. ASSUME NEW c \in Channels, CreateAttempt(d, c) PROVE Moved
  <2>1. CASE dispatch[d].rule \in live
    <3> DEFINE w == [dispatch[d] EXCEPT !.at = "send", !.channels = @ \ {c}, !.channel = c]
    <3>1. /\ w.at = "send" /\ w.channels = dispatch[d].channels \ {c} /\ w.channel = c
          /\ w.rule = dispatch[d].rule /\ w.event = dispatch[d].event
      BY <1>w DEF Works
    <3> HIDE DEF w
    <3>2. dispatch'[d] = w
      BY <1>7, <1>g, <2>1 DEF CreateAttempt, w
    <3>3. Creates(d, c)
      BY <1>7, <2>1, <3>1, <3>2 DEF CreateAttempt, Creates, SameEvent
    <3> QED
      BY <3>3
  <2>2. CASE dispatch[d].rule \notin live
    <3>1. dispatch'[d] = Idle
      BY <1>7, <1>g, <2>2 DEF CreateAttempt
    <3>2. Leaves(d)
      BY <1>i, <2>2, <3>1 DEF Leaves, At, EventPlaces
    <3> QED
      BY <3>2
  <2> QED
    BY <2>1, <2>2
<1>8. CASE Send(d)
  <2>1. PICK ok \in BOOLEAN, arrives \in BOOLEAN :
           Sent(Key(d), arrives, ok) /\ Goes(d, [dispatch[d] EXCEPT !.at = "update", !.ok = ok])
    BY <1>8 DEF Send
  <2> DEFINE w == [dispatch[d] EXCEPT !.at = "update", !.ok = ok]
  <2>2. /\ w.ok = ok /\ w.at = "update" /\ w.channels = dispatch[d].channels
        /\ w.channel = dispatch[d].channel /\ w.rule = dispatch[d].rule /\ w.event = dispatch[d].event
    BY <1>w DEF Works
  <2> HIDE DEF w
  <2>3. dispatch'[d] = w
    BY <1>g, <2>1 DEF w
  <2> QED
    BY <1>8, <2>1, <2>2, <2>3 DEF Send, Sends, SameEvent
<1>9. CASE UpdateAttempt(d)
  <2>1. CASE Key(d) \in DOMAIN attempts
    <3> DEFINE w == [dispatch[d] EXCEPT !.at = "create", !.channel = "none", !.ok = FALSE]
    <3>1. /\ w.at = "create" /\ w.channels = dispatch[d].channels
          /\ w.rule = dispatch[d].rule /\ w.event = dispatch[d].event
      BY <1>w DEF Works
    <3> HIDE DEF w
    <3>2. dispatch'[d] = w
      BY <1>9, <1>g, <2>1 DEF UpdateAttempt, w
    <3> QED
      BY <1>9, <2>1, <3>1, <3>2 DEF UpdateAttempt, Updates, SameEvent
  <2>2. CASE Key(d) \notin DOMAIN attempts
    BY <1>9, <1>g, <1>i, <2>2 DEF UpdateAttempt, Leaves, At, EventPlaces
  <2> QED
    BY <2>1, <2>2
<1>10. CASE StopDispatch(d)
  BY <1>10, <1>g, <1>i DEF StopDispatch, Leaves, At, EventPlaces
<1>11. ASSUME NEW e \in Dispatchers, e # d,
              (\E s \in Times \X Severities : Signal(e, s)) \/ DispatchStep(e) \/ StopDispatch(e)
       PROVE  dispatch'[d] = dispatch[d]
  <2>1. \E w : Goes(e, w)
    BY <1>11 DEF Signal, DispatchStep, FindLatest, Finish, Record, ListChannels, ChannelsDone,
       CreateAttempt,
                 Send, UpdateAttempt, StopDispatch
  <2> QED
    BY <1>11, <1>g, <2>1
<1>12. ASSUME \/ RetryStep \/ StopRetry \/ UNCHANGED alertVars
              \/ \E k \in DOMAIN attempts : BackoffEnds(k)
              \/ \E c \in Channels : ToggleChannel(c)
              \/ \E r \in Rules : DeleteRule(r)
       PROVE  dispatch'[d] = dispatch[d]
  BY <1>12 DEF RetryStep, ListRetryable, Resend, UpdateRetried, StopRetry, BackoffEnds, ToggleChannel,
               DeleteRule, alertVars
<1>13. (\E s \in Times \X Severities : Signal(d, s)) \/ DispatchStep(d) => Moved
  BY <1>1, <1>2, <1>3, <1>4, <1>5, <1>6, <1>7, <1>8, <1>9 DEF DispatchStep
<1> QED
  BY <1>10, <1>11, <1>12, <1>13 DEF AlertNext
-----------------------------------------------------------------------------
(* What a step does to a row: it is written anew, counts a message, gets an outcome. *)
RowMoves(j) ==
    \/ attempts'[j].status = attempts[j].status /\ attempts'[j].messages = attempts[j].messages
    \/ \E d \in Dispatchers, c \in Channels :
          /\ CreateAttempt(d, c) /\ dispatch[d].rule \in live
          /\ j = <<dispatch[d].rule, dispatch[d].event, c>>
    \/ \E d \in Dispatchers :
          Send(d) /\ j = Key(d) /\ attempts'[j].status = attempts[j].status
    \/ \E d \in Dispatchers :
          /\ UpdateAttempt(d) /\ j = Key(d)
          /\ attempts'[j].status = IF dispatch[d].ok THEN "delivered" ELSE "failed"
          /\ attempts'[j].messages = attempts[j].messages
    \/ \E row \in retry.left, arrives, ok \in BOOLEAN :
          /\ Sent(row.key, arrives, ok)
          /\ j = row.key /\ retry'.key = j /\ retry'.ok = ok
          /\ retry.at = "send" /\ retry'.at = "update" /\ retry'.left = retry.left
          /\ attempts'[j].status = attempts[j].status
    \/ \E row \in retry.left :
          /\ j = row.key /\ retry.key = j /\ retry.at = "update"
          /\ retry'.at # "update" /\ retry'.left \subseteq retry.left \ {row}
          /\ attempts'[j].status = IF retry.ok THEN "delivered" ELSE "failed"
          /\ attempts'[j].messages = attempts[j].messages

(* What one step does to the rows that are there. *)
LEMMA RowsStay ==
    ASSUME TypeInv, [AlertNext]_alertVars, NEW j \in DOMAIN attempts, j[1] \in live'
    PROVE  j \in DOMAIN attempts' /\ RowMoves(j)
<1>r. retry \in RetryBatches
  BY DEF TypeInv
<1>1. ASSUME NEW d \in Dispatchers, NEW c \in Channels, CreateAttempt(d, c)
      PROVE  j \in DOMAIN attempts' /\ RowMoves(j)
  <2>1. CASE dispatch[d].rule \in live
    <3> DEFINE k == <<dispatch[d].rule, dispatch[d].event, c>>
    <3>1. /\ DOMAIN attempts' = DOMAIN attempts \cup {k}
          /\ \A i \in DOMAIN attempts : i # k => attempts'[i] = attempts[i]
      BY <1>1, <2>1, CreateTyped
    <3>2. CASE j = k
      BY <1>1, <2>1, <3>1, <3>2 DEF RowMoves
    <3>3. CASE j # k
      BY <3>1, <3>3 DEF RowMoves
    <3> QED
      BY <3>2, <3>3
  <2>2. CASE dispatch[d].rule \notin live
    <3>1. attempts' = attempts
      BY <1>1, <2>2, CreateTyped
    <3> QED
      BY <3>1 DEF RowMoves
  <2> QED
    BY <2>1, <2>2
<1>2. ASSUME NEW d \in Dispatchers, Send(d) PROVE j \in DOMAIN attempts' /\ RowMoves(j)
  <2>1. PICK arrives \in BOOLEAN, ok \in BOOLEAN : Sent(Key(d), arrives, ok)
    BY <1>2 DEF Send
  <2>2. /\ DOMAIN attempts' = DOMAIN attempts
        /\ \A i \in DOMAIN attempts : i # Key(d) => attempts'[i] = attempts[i]
        /\ \A i \in DOMAIN attempts : attempts'[i].status = attempts[i].status
    <3> DEFINE k == Key(d)
    <3>1. Sent(k, arrives, ok)
      BY <2>1
    <3> HIDE DEF k
    <3>2. /\ DOMAIN attempts' = DOMAIN attempts
          /\ \A i \in DOMAIN attempts : i # k => attempts'[i] = attempts[i]
          /\ \A i \in DOMAIN attempts : attempts'[i].status = attempts[i].status
      BY <3>1, SentTyped
    <3> QED
      BY <3>2 DEF k
  <2> QED
    BY <1>2, <2>2 DEF RowMoves
<1>3. ASSUME NEW d \in Dispatchers, UpdateAttempt(d) PROVE j \in DOMAIN attempts' /\ RowMoves(j)
  <2>1. CASE Key(d) \in DOMAIN attempts
    <3>1. /\ DOMAIN attempts' = DOMAIN attempts
          /\ \A i \in DOMAIN attempts : i # Key(d) => attempts'[i] = attempts[i]
          /\ attempts'[Key(d)].status = IF dispatch[d].ok THEN "delivered" ELSE "failed"
          /\ attempts'[Key(d)].messages = attempts[Key(d)].messages
      BY <1>3, <2>1, UpdateTyped
    <3> QED
      BY <1>3, <3>1 DEF RowMoves
  <2>2. CASE Key(d) \notin DOMAIN attempts
    <3>1. attempts' = attempts
      BY <1>3, <2>2, UpdateTyped
    <3> QED
      BY <3>1 DEF RowMoves
  <2> QED
    BY <2>1, <2>2
<1>4. CASE Resend
  <2>1. PICK row \in retry.left, arrives \in BOOLEAN, ok \in BOOLEAN :
           /\ Sent(row.key, arrives, ok)
           /\ retry' = [retry EXCEPT !.at = "update", !.key = row.key, !.ok = ok]
    BY <1>4 DEF Resend
  <2>2. /\ retry'.key = row.key /\ retry'.ok = ok /\ retry'.at = "update" /\ retry'.left = retry.left
        /\ retry.at = "send"
    BY <1>r, <1>4, <2>1 DEF RetryBatches, Resend
  <2>3. /\ DOMAIN attempts' = DOMAIN attempts
        /\ \A i \in DOMAIN attempts : i # row.key => attempts'[i] = attempts[i]
        /\ \A i \in DOMAIN attempts : attempts'[i].status = attempts[i].status
    <3> DEFINE k == row.key
    <3>1. Sent(k, arrives, ok)
      BY <2>1
    <3> HIDE DEF k
    <3>2. /\ DOMAIN attempts' = DOMAIN attempts
          /\ \A i \in DOMAIN attempts : i # k => attempts'[i] = attempts[i]
          /\ \A i \in DOMAIN attempts : attempts'[i].status = attempts[i].status
      BY ONLY TypeInv, <3>1, SentTyped
    <3> QED
      BY <3>2 DEF k
  <2>4. CASE j = row.key
    BY <2>1, <2>2, <2>3, <2>4 DEF RowMoves
  <2>5. CASE j # row.key
    BY <2>3, <2>5 DEF RowMoves
  <2> QED
    BY <2>4, <2>5
<1>5. CASE UpdateRetried
  <2>1. PICK row \in retry.left :
           /\ retry.at = "update" /\ retry.key = row.key
           /\ IF row.key \in DOMAIN attempts
              THEN /\ attempts' = [attempts EXCEPT ![row.key] = Updated(@, row.tries, retry.ok)]
                   /\ retry' = IF retry.left \ {row} = {} THEN NoBatch
                               ELSE [NoBatch EXCEPT !.at = "send", !.left = retry.left \ {row}]
              ELSE retry' = NoBatch /\ UNCHANGED attempts
    BY <1>5 DEF UpdateRetried
  <2>2. /\ DOMAIN attempts' = DOMAIN attempts
        /\ \A i \in DOMAIN attempts : i # row.key => attempts'[i] = attempts[i]
        /\ row.key \in DOMAIN attempts =>
              /\ attempts'[row.key].status = IF retry.ok THEN "delivered" ELSE "failed"
              /\ attempts'[row.key].messages = attempts[row.key].messages
    BY <2>1, RetriedTyped
  <2>3. retry'.at # "update" /\ retry'.left \subseteq retry.left \ {row}
    <3> DEFINE left == retry.left \ {row}
               next == [NoBatch EXCEPT !.at = "send", !.left = left]
    <3>1. next.at = "send" /\ next.left = left /\ NoBatch.at = "idle" /\ NoBatch.left = {}
      BY DEF NoBatch
    <3>2. retry' = NoBatch \/ retry' = next
      BY <2>1
    <3> HIDE DEF next
    <3> QED
      BY <3>1, <3>2
  <2>4. CASE j = row.key
    BY <2>1, <2>2, <2>3, <2>4 DEF RowMoves
  <2>5. CASE j # row.key
    BY <2>2, <2>5 DEF RowMoves
  <2> QED
    BY <2>4, <2>5
<1>6. ASSUME NEW k \in DOMAIN attempts, BackoffEnds(k) PROVE j \in DOMAIN attempts' /\ RowMoves(j)
  BY <1>6, BackoffTyped DEF RowMoves
<1>7. ASSUME NEW r \in Rules, DeleteRule(r) PROVE j \in DOMAIN attempts' /\ RowMoves(j)
  <2>1. j[1] # r
    BY <1>7 DEF DeleteRule
  <2> QED
    BY <1>7, <2>1, DeleteTyped DEF RowMoves
<1>8. ASSUME UNCHANGED attempts PROVE j \in DOMAIN attempts' /\ RowMoves(j)
  BY <1>8 DEF RowMoves
<1>9. ASSUME NEW d \in Dispatchers,
             \/ \E s \in Times \X Severities : Signal(d, s)
             \/ \E r \in Rules : FindLatest(d, r)
             \/ Finish(d) \/ Record(d) \/ ListChannels(d) \/ ChannelsDone(d) \/ StopDispatch(d)
      PROVE  UNCHANGED attempts
  BY <1>9 DEF Signal, FindLatest, Finish, Record, ListChannels, ChannelsDone, StopDispatch
<1>10. ListRetryable \/ StopRetry \/ (\E c \in Channels : ToggleChannel(c)) \/ UNCHANGED alertVars
         => UNCHANGED attempts
  BY DEF ListRetryable, StopRetry, ToggleChannel, alertVars
<1> QED
  BY <1>1, <1>2, <1>3, <1>4, <1>5, <1>6, <1>7, <1>8, <1>9, <1>10 DEF AlertNext, DispatchStep, RetryStep

(* Two workers have no event in common, so none has the row of another one. *)
LEMMA KeysApart ==
    ASSUME EventsInv, NEW d \in Dispatchers, NEW e \in Dispatchers, NEW b, NEW c,
           At(d, EventPlaces), At(e, EventPlaces), dispatch[d].rule \in live,
           <<dispatch[d].rule, dispatch[d].event, b>> = <<dispatch[e].rule, dispatch[e].event, c>>
    PROVE  d = e /\ b = c
BY DEF EventsInv

(* A row that is queued and that a worker has is nobody else's. *)
LEMMA QueuedStays ==
    ASSUME TypeInv, EventsInv, HandledInv, BatchInv, [AlertNext]_alertVars, NEW d \in Dispatchers,
           At(d, {"send", "update"}), dispatch[d].rule \in live', ~Updates(d)
    PROVE  /\ Key(d) \in DOMAIN attempts /\ Key(d) \in DOMAIN attempts'
           /\ attempts'[Key(d)].status = "queued"
           /\ attempts'[Key(d)].messages = attempts[Key(d)].messages \/ Send(d)
<1> DEFINE k == Key(d)
<1>1. dispatch[d].rule \in live /\ At(d, EventPlaces)
  BY EventsStay DEF At, EventPlaces
<1>2. k \in DOMAIN attempts /\ attempts[k].status = "queued"
  BY <1>1 DEF HandledInv
<1>3. k = <<dispatch[d].rule, dispatch[d].event, dispatch[d].channel>> /\ k[1] = dispatch[d].rule
  BY DEF Key
<1> HIDE DEF k
<1>4. k \in DOMAIN attempts' /\ RowMoves(k)
  BY <1>2, <1>3, RowsStay
<1>5. ASSUME NEW e \in Dispatchers, NEW c \in Channels, CreateAttempt(e, c),
             k = <<dispatch[e].rule, dispatch[e].event, c>>
      PROVE  FALSE
  <2>1. dispatch[e].at = "create" /\ At(e, EventPlaces)
    BY <1>5 DEF CreateAttempt, At, EventPlaces
  <2>2. d = e
    BY <1>1, <1>3, <1>5, <2>1, KeysApart
  <2> QED
    BY <2>1, <2>2 DEF At
<1>6. ASSUME NEW e \in Dispatchers, UpdateAttempt(e), k = Key(e)
      PROVE  FALSE
  <2>1. dispatch[e].at = "update" /\ At(e, EventPlaces)
    BY <1>6 DEF UpdateAttempt, At, EventPlaces
  <2>2. d = e
    BY <1>1, <1>3, <1>6, <2>1, KeysApart DEF Key
  <2>3. Updates(d) \/ Leaves(d) \/ dispatch'[d] = dispatch[d]
    BY <1>6, <2>1, <2>2, DispatchMoves DEF RecordsEvent, Lists, Creates, Sends, At
  <2>4. dispatch'[d] = [dispatch[d] EXCEPT !.at = "create", !.channel = "none", !.ok = FALSE]
    BY <1>2, <1>6, <2>2 DEF UpdateAttempt, Goes, TypeInv, k
  <2>5. dispatch'[d].at = "create"
    BY <2>4 DEF TypeInv, Works
  <2> QED
    BY <2>1, <2>2, <2>3, <2>5 DEF Leaves, At, EventPlaces
<1>7. ASSUME NEW row \in retry.left, k = row.key
      PROVE  FALSE
  BY <1>1, <1>2, <1>3, <1>7 DEF BatchInv
<1>8. ASSUME NEW e \in Dispatchers, Send(e), k = Key(e) PROVE e = d
  <2>1. At(e, EventPlaces)
    BY <1>8 DEF Send, At, EventPlaces
  <2> QED
    BY <1>1, <1>3, <1>8, <2>1, KeysApart DEF Key
<1> QED
  BY <1>2, <1>4, <1>5, <1>6, <1>7, <1>8 DEF RowMoves, k

(* A row that a worker has not come to does not appear. *)
LEMMA AbsentStays ==
    ASSUME TypeInv, EventsInv, [AlertNext]_alertVars, NEW d \in Dispatchers, NEW c \in Channels,
           At(d, EventPlaces), <<dispatch[d].rule, dispatch[d].event, c>> \notin DOMAIN attempts,
           ~Creates(d, c)
    PROVE  <<dispatch[d].rule, dispatch[d].event, c>> \notin DOMAIN attempts'
<1> DEFINE k == <<dispatch[d].rule, dispatch[d].event, c>>
<1> SUFFICES ASSUME k \in DOMAIN attempts' PROVE FALSE
  OBVIOUS
<1>1. PICK e \in Dispatchers, b \in Channels :
         /\ CreateAttempt(e, b) /\ dispatch[e].rule \in live
         /\ k = <<dispatch[e].rule, dispatch[e].event, b>>
  BY RowsComeFrom
<1>2. dispatch[e].at = "create" /\ At(e, EventPlaces)
  BY <1>1 DEF CreateAttempt, At, EventPlaces
<1>3. e = d /\ b = c
  BY <1>1, <1>2, KeysApart
<1>4. dispatch'[d] = [dispatch[d] EXCEPT !.at = "send", !.channels = @ \ {c}, !.channel = c]
  BY <1>1, <1>3 DEF CreateAttempt, Goes, TypeInv
<1>5. /\ dispatch'[d].at = "send" /\ dispatch'[d].rule = dispatch[d].rule
      /\ dispatch'[d].event = dispatch[d].event
      /\ dispatch'[d].channels = dispatch[d].channels \ {c} /\ dispatch'[d].channel = c
  BY <1>4 DEF TypeInv, Works
<1>6. Creates(d, c)
  BY <1>1, <1>2, <1>3, <1>5 DEF Creates, SameEvent, CreateAttempt
<1> QED
  BY <1>6

(* The rows of channels to come stay away; the row a worker sends for stays queued. *)
LEMMA HandledInvKept ==
    ASSUME TypeInv, EventsInv, HandledInv, BatchInv, [AlertNext]_alertVars
    PROVE  HandledInv'
<1>t. TypeInv'
  BY TypesKept
<1>1. ASSUME NEW d \in Dispatchers, At(d, {"channels"})', NEW c \in Channels
      PROVE  <<dispatch'[d].rule, dispatch'[d].event, c>> \notin DOMAIN attempts'
  <2>1. dispatch'[d].at = "channels"
    BY <1>1 DEF At
  <2>2. CASE dispatch'[d] = dispatch[d]
    <3>1. At(d, {"channels"}) /\ At(d, EventPlaces) /\ dispatch[d].at # "create"
      BY <2>1, <2>2 DEF At, EventPlaces
    <3>2. <<dispatch[d].rule, dispatch[d].event, c>> \notin DOMAIN attempts
      BY <3>1 DEF HandledInv
    <3> QED
      BY <2>2, <3>1, <3>2, AbsentStays DEF Creates
  <2>3. CASE RecordsEvent(d)
    <3> DEFINE r == dispatch[d].rule
               n == Len(events[r]) + 1
    <3>1. dispatch'[d].rule = r /\ dispatch'[d].event = n /\ attempts' = attempts
      BY <2>3 DEF RecordsEvent, TypeInv, Works
    <3>2. events[r] \in Seq(Times \X Severities)
      BY <2>3 DEF RecordsEvent, TypeInv
    <3>3. n \notin DOMAIN events[r]
      BY ONLY <3>2
    <3>4. <<r, n, c>> \in DOMAIN attempts => n \in DOMAIN events[r]
      BY DEF EventsInv
    <3> QED
      BY <3>1, <3>3, <3>4
  <2>4. ~Leaves(d)
    BY <2>1 DEF Leaves, At, EventPlaces
  <2> QED
    BY <2>1, <2>2, <2>3, <2>4, DispatchMoves DEF Lists, Creates, Sends, Updates
<1>2. ASSUME NEW d \in Dispatchers, At(d, {"create", "send", "update"})', NEW c \in dispatch'[d].channels
      PROVE  <<dispatch'[d].rule, dispatch'[d].event, c>> \notin DOMAIN attempts'
  <2>1. c \in Channels /\ dispatch'[d].at \in {"create", "send", "update"}
    BY <1>t, <1>2 DEF TypeInv, Works, At
  <2>2. /\ At(d, EventPlaces) /\ SameEvent(d) /\ ~Creates(d, c)
        /\ dispatch[d].at = "channels" \/ c \in dispatch[d].channels
    <3>1. ~Creates(d, c)
      BY <1>2 DEF Creates
    <3>2. CASE dispatch'[d] = dispatch[d]
      BY <1>2, <2>1, <3>1, <3>2 DEF At, EventPlaces, SameEvent
    <3>3. CASE Lists(d)
      BY <3>1, <3>3 DEF Lists, At, EventPlaces
    <3>4. ASSUME NEW b \in Channels, Creates(d, b) PROVE At(d, EventPlaces) /\ SameEvent(d) /\ c \in dispatch[d].channels
      BY <1>2, <3>4 DEF Creates, At, EventPlaces
    <3>5. CASE Sends(d) \/ Updates(d)
      BY <1>2, <3>1, <3>5 DEF Sends, Updates, At, EventPlaces
    <3>6. ~Leaves(d)
      BY <2>1 DEF Leaves, At, EventPlaces
    <3>7. ~RecordsEvent(d)
      BY <2>1, RecordsTo
    <3> QED
      BY <3>1, <3>2, <3>3, <3>4, <3>5, <3>6, <3>7, DispatchMoves
  <2>3. <<dispatch[d].rule, dispatch[d].event, c>> \notin DOMAIN attempts
    BY <2>1, <2>2 DEF HandledInv, At, EventPlaces
  <2> QED
    BY <2>1, <2>2, <2>3, AbsentStays DEF SameEvent
<1>3. ASSUME NEW d \in Dispatchers, At(d, {"send", "update"})', dispatch'[d].rule \in live'
      PROVE  LET k == <<dispatch'[d].rule, dispatch'[d].event, dispatch'[d].channel>>
             IN  k \in DOMAIN attempts' /\ attempts'[k].status = "queued"
  <2>1. dispatch'[d].at \in {"send", "update"}
    BY <1>3 DEF At
  <2>2. CASE dispatch'[d] = dispatch[d] \/ Sends(d)
    <3>1. /\ At(d, {"send", "update"}) /\ dispatch[d].rule = dispatch'[d].rule
          /\ dispatch[d].event = dispatch'[d].event /\ dispatch[d].channel = dispatch'[d].channel
      BY <2>1, <2>2 DEF Sends, SameEvent, At
    <3>2. ~Updates(d)
      BY <2>1 DEF Updates
    <3> QED
      BY <1>3, <3>1, <3>2, QueuedStays DEF Key
  <2>3. ASSUME NEW c \in Channels, Creates(d, c)
        PROVE  LET k == <<dispatch'[d].rule, dispatch'[d].event, dispatch'[d].channel>>
               IN  k \in DOMAIN attempts' /\ attempts'[k].status = "queued"
    <3> DEFINE k == <<dispatch[d].rule, dispatch[d].event, c>>
    <3>1. DOMAIN attempts' = DOMAIN attempts \cup {k} /\ attempts'[k] = Queued
      BY <2>3, CreateTyped DEF Creates
    <3>2. Queued.status = "queued"
      BY DEF Queued
    <3>3. dispatch'[d].rule = dispatch[d].rule /\ dispatch'[d].event = dispatch[d].event
            /\ dispatch'[d].channel = c
      BY <2>3 DEF Creates, SameEvent
    <3> QED
      BY <3>1, <3>2, <3>3
  <2>4. ~Leaves(d) /\ ~RecordsEvent(d)
    BY <2>1, RecordsTo DEF Leaves, At, EventPlaces
  <2> QED
    BY <2>1, <2>2, <2>3, <2>4, DispatchMoves DEF Lists, Updates
<1> QED
  BY <1>1, <1>2, <1>3 DEF HandledInv, Key

(* What the retry pass does to the row it has in hand. *)
LEMMA RetriedMoves ==
    ASSUME UpdateRetried
    PROVE  \E row \in retry.left :
              /\ retry.at = "update" /\ retry.key = row.key /\ retry'.at # "update"
              /\ retry'.left \subseteq retry.left \ {row}
<1>1. PICK row \in retry.left :
         /\ retry.at = "update" /\ retry.key = row.key
         /\ \/ retry' = NoBatch
            \/ retry' = [NoBatch EXCEPT !.at = "send", !.left = retry.left \ {row}]
  BY DEF UpdateRetried
<1> DEFINE next == [NoBatch EXCEPT !.at = "send", !.left = retry.left \ {row}]
<1>2. next.at = "send" /\ next.left = retry.left \ {row} /\ NoBatch.at = "idle" /\ NoBatch.left = {}
  BY DEF NoBatch
<1>3. retry' = NoBatch \/ retry' = next
  BY <1>1
<1> HIDE DEF next
<1> QED
  BY <1>1, <1>2, <1>3

(* What a step does to the retry batch. *)
LEMMA RetryMoves ==
    ASSUME TypeInv, [AlertNext]_alertVars
    PROVE  \/ retry' = retry
           \/ ListRetryable
           \/ \E row \in retry.left :
                 /\ retry.at = "send" /\ retry'.at = "update" /\ retry'.key = row.key
                 /\ retry'.left = retry.left
           \/ \E row \in retry.left :
                 /\ retry.at = "update" /\ retry.key = row.key /\ retry'.at # "update"
                 /\ retry'.left \subseteq retry.left \ {row} /\ UpdateRetried
           \/ StopRetry
<1>r. retry \in RetryBatches
  BY DEF TypeInv
<1>1. CASE Resend
  BY <1>1, <1>r DEF Resend, RetryBatches
<1>2. CASE UpdateRetried
  BY <1>2, RetriedMoves
<1>3. ASSUME NEW d \in Dispatchers,
             (\E s \in Times \X Severities : Signal(d, s)) \/ DispatchStep(d) \/ StopDispatch(d)
      PROVE  retry' = retry
  BY <1>3 DEF Signal, DispatchStep, FindLatest, Finish, Record, ListChannels, ChannelsDone,
     CreateAttempt,
              Send, UpdateAttempt, StopDispatch
<1>4. ASSUME \/ \E k \in DOMAIN attempts : BackoffEnds(k)
             \/ \E c \in Channels : ToggleChannel(c)
             \/ \E r \in Rules : DeleteRule(r)
             \/ UNCHANGED alertVars
      PROVE  retry' = retry
  BY <1>4 DEF BackoffEnds, ToggleChannel, DeleteRule, alertVars
<1> QED
  BY <1>1, <1>2, <1>3, <1>4 DEF AlertNext, RetryStep

(* The rows of the batch stay failed, or have gone with their rule. *)
LEMMA BatchInvKept ==
    ASSUME TypeInv, EventsInv, HandledInv, BatchInv, [AlertNext]_alertVars
    PROVE  BatchInv'
<1> DEFINE Stays(row) == \/ row.key \in DOMAIN attempts' /\ attempts'[row.key].status = "failed"
                         \/ row.key[1] \notin live'
(* A row of the batch keeps its status until the batch comes to it. *)
<1>1. ASSUME NEW row \in retry.left,
             ~(retry.at = "update" /\ retry.key = row.key /\ UpdateRetried)
      PROVE  Stays(row)
  <2> SUFFICES ASSUME row.key[1] \in live' PROVE Stays(row)
    OBVIOUS
  <2>1. row.key[1] \in live
    BY EventsStay
  <2>2. row.key \in DOMAIN attempts /\ attempts[row.key].status = "failed"
    BY <2>1 DEF BatchInv
  <2>3. row.key \in DOMAIN attempts' /\ RowMoves(row.key)
    BY <2>2, RowsStay
  <2>4. ASSUME NEW d \in Dispatchers, NEW c \in Channels, CreateAttempt(d, c),
               row.key = <<dispatch[d].rule, dispatch[d].event, c>>
        PROVE  FALSE
    BY <2>2, <2>4 DEF HandledInv, CreateAttempt, At
  <2>5. ASSUME NEW d \in Dispatchers, UpdateAttempt(d), row.key = Key(d)
        PROVE  FALSE
    <3>1. At(d, {"send", "update"}) /\ dispatch[d].rule = row.key[1]
      BY <2>5 DEF UpdateAttempt, At, Key
    <3> QED
      BY <2>1, <2>2, <2>5, <3>1 DEF HandledInv
  <2>6. ASSUME retry.key = row.key, retry.at = "update", retry'.at # "update"
        PROVE  StopRetry
    BY <1>1, <2>6, RetryMoves DEF ListRetryable
  <2>7. StopRetry => attempts' = attempts
    BY DEF StopRetry
  <2> QED
    BY <2>2, <2>3, <2>4, <2>5, <2>6, <2>7 DEF RowMoves
<1>2. CASE retry' = retry
  <2>1. retry.at = "update" => ~UpdateRetried
    BY <1>2, RetriedMoves
  <2> QED
    BY <1>1, <1>2, <2>1 DEF BatchInv
<1>3. CASE ListRetryable
  <2> DEFINE rows == {[key |-> k, tries |-> attempts[k].tries] : k \in {k \in DOMAIN attempts : Retryable(k)}}
  <2>1. retry' = [NoBatch EXCEPT !.at = "send", !.left = rows] /\ attempts' = attempts
    BY <1>3 DEF ListRetryable
  <2>2. /\ \A row \in rows : row.key \in DOMAIN attempts /\ attempts[row.key].status = "failed"
        /\ \A one, other \in rows : one.key = other.key => one = other
    BY DEF Retryable
  <2> HIDE DEF rows
  <2>3. retry'.left = rows /\ retry'.at = "send"
    BY <2>1 DEF NoBatch
  <2> QED
    BY <2>1, <2>2, <2>3 DEF BatchInv
<1>4. ASSUME NEW row \in retry.left, retry.at = "send", retry'.at = "update", retry'.key = row.key,
             retry'.left = retry.left
      PROVE  BatchInv'
  BY <1>1, <1>4 DEF BatchInv
<1>5. ASSUME NEW row \in retry.left, retry.at = "update", retry.key = row.key, retry'.at # "update",
             retry'.left \subseteq retry.left \ {row}
      PROVE  BatchInv'
  <2>1. ASSUME NEW other \in retry'.left PROVE Stays(other)
    <3>1. other \in retry.left /\ other.key # row.key
      BY <1>5, <2>1 DEF BatchInv
    <3> QED
      BY <1>1, <1>5, <3>1
  <2> QED
    BY <1>5, <2>1 DEF BatchInv
<1>6. CASE StopRetry
  <2>1. retry' = NoBatch /\ NoBatch.left = {} /\ NoBatch.at = "idle"
    BY <1>6 DEF StopRetry, NoBatch
  <2> QED
    BY <2>1 DEF BatchInv
<1> QED
  BY <1>2, <1>3, <1>4, <1>5, <1>6, RetryMoves
-----------------------------------------------------------------------------
(* Failures are only added. *)
LEMMA FailuresGrow ==
    ASSUME TypeInv, [AlertNext]_alertVars
    PROVE  alertFailures \in Nat /\ alertFailures' \in Nat /\ alertFailures <= alertFailures'
<1>1. alertFailures \in Nat /\ alertFailures' \in Nat
  BY TypesKept DEF TypeInv
<1>2. ASSUME NEW k, NEW arrives \in BOOLEAN, NEW ok \in BOOLEAN, Sent(k, arrives, ok)
      PROVE  alertFailures <= alertFailures'
  BY <1>1, <1>2 DEF Sent
<1>3. CASE Resend \/ \E d \in Dispatchers : Send(d)
  <2>1. \E k : \E arrives, ok \in BOOLEAN : Sent(k, arrives, ok)
    BY <1>3 DEF Resend, Send
  <2> QED
    BY <1>1, <1>2, <2>1
<1>4. CASE alertFailures' \in {alertFailures, alertFailures + 1}
  BY <1>1, <1>4
<1>5. ASSUME NEW d \in Dispatchers,
             \/ \E s \in Times \X Severities : Signal(d, s)
             \/ \E r \in Rules : FindLatest(d, r)
             \/ Finish(d) \/ Record(d) \/ ListChannels(d) \/ ChannelsDone(d)
             \/ \E c \in Channels : CreateAttempt(d, c)
             \/ UpdateAttempt(d) \/ StopDispatch(d)
      PROVE  alertFailures' \in {alertFailures, alertFailures + 1}
  BY <1>5 DEF Signal, FindLatest, Finish, Record, ListChannels, ChannelsDone, CreateAttempt,
     UpdateAttempt,
              StopDispatch
<1>6. ASSUME \/ ListRetryable \/ UpdateRetried \/ StopRetry
             \/ \E k \in DOMAIN attempts : BackoffEnds(k)
             \/ \E c \in Channels : ToggleChannel(c)
             \/ \E r \in Rules : DeleteRule(r)
             \/ UNCHANGED alertVars
      PROVE  alertFailures' \in {alertFailures, alertFailures + 1}
  BY <1>6 DEF ListRetryable, UpdateRetried, StopRetry, BackoffEnds, ToggleChannel, DeleteRule, alertVars
<1> QED
  BY <1>3, <1>4, <1>5, <1>6 DEF AlertNext, DispatchStep, RetryStep

(* The messages of a key are a number. *)
LEMMA MessagesTyped ==
    ASSUME TypeInv, NEW k \in DOMAIN attempts
    PROVE  attempts[k].messages \in Nat
BY DEF TypeInv, Rows

(* The row of a worker that sends has had no message, or one whose failure is counted. *)
LEMMA WorkersPay ==
    ASSUME TypeInv, EventsInv, HandledInv, BatchInv, PaidInv, [AlertNext]_alertVars,
           NEW d \in Dispatchers, NEW k \in DOMAIN attempts',
           k = <<dispatch'[d].rule, dispatch'[d].event, dispatch'[d].channel>>, k[1] \in live'
    PROVE  /\ dispatch'[d].at = "send" => attempts'[k].messages = 0
           /\ dispatch'[d].at = "update" /\ ~dispatch'[d].ok => attempts'[k].messages <= alertFailures'
<1>f. alertFailures \in Nat /\ alertFailures' \in Nat /\ alertFailures <= alertFailures'
  BY FailuresGrow
<1>1. CASE dispatch'[d] = dispatch[d] /\ dispatch[d].at \in {"send", "update"}
  <2>1. k = Key(d) /\ At(d, {"send", "update"}) /\ dispatch[d].rule \in live'
    BY <1>1 DEF Key, At
  <2>2. ~Updates(d) /\ ~Sends(d)
    BY <1>1 DEF Updates, Sends
  <2>3. ~Send(d)
    <3>1. ASSUME Send(d) PROVE FALSE
      <4>1. PICK ok \in BOOLEAN : dispatch'[d] = [dispatch[d] EXCEPT !.at = "update", !.ok = ok]
        BY <3>1 DEF Send, Goes, TypeInv
      <4>2. dispatch'[d].at = "update" /\ dispatch[d].at = "send"
        BY <3>1, <4>1 DEF Send, TypeInv, Works
      <4> QED
        BY <1>1, <4>2
    <3> QED
      BY <3>1
  <2>4. k \in DOMAIN attempts /\ attempts'[k].messages = attempts[k].messages
    BY <2>1, <2>2, <2>3, QueuedStays
  <2>5. /\ dispatch[d].at = "send" => attempts[k].messages = 0
        /\ dispatch[d].at = "update" /\ ~dispatch[d].ok => attempts[k].messages <= alertFailures
    BY <2>1, <2>4 DEF PaidInv, At
  <2>6. attempts[k].messages \in Nat
    BY <2>4, MessagesTyped
  <2> QED
    BY <1>1, <1>f, <2>4, <2>5, <2>6
<1>2. ASSUME NEW c \in Channels, Creates(d, c)
      PROVE  dispatch'[d].at = "send" /\ attempts'[k].messages = 0
  <2>1. k = <<dispatch[d].rule, dispatch[d].event, c>> /\ dispatch'[d].at = "send"
    BY <1>2 DEF Creates, SameEvent
  <2>2. attempts'[k] = Queued
    BY <1>2, <2>1, CreateTyped DEF Creates
  <2> QED
    BY <2>1, <2>2 DEF Queued
<1>3. ASSUME Sends(d)
      PROVE  dispatch'[d].at = "update" /\ (~dispatch'[d].ok => attempts'[k].messages <= alertFailures')
  <2>1. k = Key(d) /\ dispatch'[d].at = "update" /\ At(d, {"send"})
    BY <1>3 DEF Sends, SameEvent, Key, At
  <2>2. PICK arrives \in BOOLEAN : Sent(k, arrives, dispatch'[d].ok)
    BY <1>3, <2>1 DEF Sends
  <2>3. dispatch'[d].ok \in BOOLEAN
    BY TypesKept DEF TypeInv, Works
  <2>4. /\ DOMAIN attempts' = DOMAIN attempts
        /\ arrives /\ ~dispatch'[d].ok => alertFailures' = alertFailures + 1
        /\ k \in DOMAIN attempts =>
              attempts'[k].messages = attempts[k].messages + (IF arrives THEN 1 ELSE 0)
    BY <2>2, <2>3, SentTyped
  <2>5. attempts[k].messages = 0
    BY <2>1, <2>4 DEF PaidInv
  <2> QED
    BY <1>f, <2>1, <2>4, <2>5
<1>4. dispatch'[d].at \in {"send", "update"} => ~Leaves(d) /\ ~RecordsEvent(d) /\ ~Lists(d) /\ ~Updates(d)
  BY RecordsTo DEF Leaves, At, EventPlaces, Lists, Updates
<1> QED
  BY <1>1, <1>2, <1>3, <1>4, DispatchMoves
(* The rows of the batch have had messages whose failures are counted. *)
LEMMA RowsPay ==
    ASSUME TypeInv, EventsInv, HandledInv, BatchInv, PaidInv, [AlertNext]_alertVars,
           NEW k \in DOMAIN attempts, k \in DOMAIN attempts', k[1] \in live'
    PROVE  /\ attempts'[k].messages <= 1 + alertFailures'
           /\ attempts'[k].status = "failed" /\ ~(retry'.at = "update" /\ retry'.key = k /\ retry'.ok)
                => attempts'[k].messages <= alertFailures'
<1> DEFINE Paid == /\ attempts'[k].messages <= 1 + alertFailures'
                   /\ attempts'[k].status = "failed"
                         /\ ~(retry'.at = "update" /\ retry'.key = k /\ retry'.ok)
                         => attempts'[k].messages <= alertFailures'
<1>f. alertFailures \in Nat /\ alertFailures' \in Nat /\ alertFailures <= alertFailures'
  BY FailuresGrow
<1>m. attempts[k].messages \in Nat /\ k[1] \in live
  BY MessagesTyped, EventsStay
<1>p. /\ attempts[k].messages <= 1 + alertFailures
      /\ attempts[k].status = "failed" /\ ~(retry.at = "update" /\ retry.key = k /\ retry.ok)
            => attempts[k].messages <= alertFailures
  BY DEF PaidInv
<1>1. CASE attempts'[k].status = attempts[k].status /\ attempts'[k].messages = attempts[k].messages
  <2> SUFFICES ASSUME attempts'[k].status = "failed",
                      ~(retry'.at = "update" /\ retry'.key = k /\ retry'.ok),
                      retry.at = "update", retry.key = k, retry.ok
               PROVE  attempts'[k].messages <= alertFailures'
    BY <1>1, <1>f, <1>m, <1>p
  <2>1. CASE StopRetry
    <3>1. alertFailures' = alertFailures + 1
      BY <2>1 DEF StopRetry
    <3> QED
      BY <1>1, <1>f, <1>m, <1>p, <3>1
  <2>2. ~UpdateRetried
    <3> SUFFICES ASSUME UpdateRetried PROVE FALSE
      OBVIOUS
    <3>1. PICK row \in retry.left :
             /\ retry.key = row.key
             /\ IF row.key \in DOMAIN attempts
                THEN attempts' = [attempts EXCEPT ![row.key] = Updated(@, row.tries, retry.ok)]
                ELSE UNCHANGED attempts
      BY DEF UpdateRetried
    <3>2. attempts'[row.key].status = "delivered"
      BY <3>1, RetriedTyped
    <3> QED
      BY <3>1, <3>2
  <2>3. retry' # retry /\ ~ListRetryable
    BY DEF ListRetryable
  <2> QED
    BY <2>1, <2>2, <2>3, RetryMoves
<1>2. ASSUME NEW d \in Dispatchers, NEW c \in Channels, CreateAttempt(d, c),
             k = <<dispatch[d].rule, dispatch[d].event, c>>
      PROVE  FALSE
  BY <1>2 DEF HandledInv, CreateAttempt, At
<1>3. ASSUME NEW d \in Dispatchers, Send(d), k = Key(d), attempts'[k].status = attempts[k].status
      PROVE  Paid
  <2>1. At(d, {"send"}) /\ At(d, {"send", "update"}) /\ dispatch[d].rule = k[1]
    BY <1>3 DEF Send, At, Key
  <2>2. attempts[k].messages = 0 /\ attempts[k].status = "queued"
    BY <1>3, <1>m, <2>1 DEF PaidInv, HandledInv
  <2>3. PICK arrives \in BOOLEAN, ok \in BOOLEAN : Sent(k, arrives, ok)
    BY <1>3 DEF Send
  <2>4. attempts'[k].messages = attempts[k].messages + (IF arrives THEN 1 ELSE 0)
    BY <2>3, SentTyped
  <2>5. attempts'[k].status # "failed"
    BY <1>3, <2>2
  <2>6. attempts'[k].messages \in {0, 1}
    BY <2>2, <2>4
  <2>7. attempts'[k].messages <= 1 + alertFailures'
    BY <1>f, <2>6
  <2> QED
    BY <2>5, <2>7
<1>4. ASSUME NEW d \in Dispatchers, UpdateAttempt(d), k = Key(d),
             attempts'[k].status = IF dispatch[d].ok THEN "delivered" ELSE "failed",
             attempts'[k].messages = attempts[k].messages
      PROVE  Paid
  <2>1. ~dispatch[d].ok => attempts[k].messages <= alertFailures
    BY <1>4 DEF PaidInv, UpdateAttempt, At
  <2> QED
    BY <1>4, <1>f, <1>m, <1>p, <2>1
<1>5. ASSUME NEW row \in retry.left, NEW arrives \in BOOLEAN, NEW ok \in BOOLEAN,
             Sent(row.key, arrives, ok), k = row.key, retry'.key = k, retry'.ok = ok,
             retry.at = "send", retry'.at = "update"
      PROVE  Paid
  <2>1. attempts[k].status = "failed"
    BY <1>5, <1>m DEF BatchInv
  <2>2. attempts[k].messages <= alertFailures
    BY <1>5, <1>p, <2>1
  <2>3. Sent(k, arrives, ok)
    BY <1>5
  <2>4. /\ attempts'[k].messages = attempts[k].messages + (IF arrives THEN 1 ELSE 0)
        /\ arrives /\ ~ok => alertFailures' = alertFailures + 1
    BY <2>3, SentTyped
  <2> QED
    BY <1>5, <1>f, <1>m, <2>2, <2>4
<1>6. ASSUME NEW row \in retry.left, k = row.key, retry.key = k, retry.at = "update",
             attempts'[k].status = IF retry.ok THEN "delivered" ELSE "failed",
             attempts'[k].messages = attempts[k].messages
      PROVE  Paid
  <2>1. attempts[k].status = "failed"
    BY <1>6, <1>m DEF BatchInv
  <2> QED
    BY <1>6, <1>f, <1>m, <1>p, <2>1
<1>7. RowMoves(k)
  BY RowsStay
<1> QED
  BY <1>1, <1>2, <1>3, <1>4, <1>5, <1>6, <1>7 DEF RowMoves

(* Each message after the first stays paid for by a failure. *)
LEMMA PaidInvKept ==
    ASSUME TypeInv, EventsInv, HandledInv, BatchInv, PaidInv, [AlertNext]_alertVars
    PROVE  PaidInv'
<1>f. 0 <= alertFailures' /\ 0 <= 1 + alertFailures'
  <2>1. alertFailures' \in Nat
    BY FailuresGrow
  <2>2. \A n \in Nat : 0 <= n /\ 0 <= 1 + n
    OBVIOUS
  <2> QED
    BY <2>1, <2>2
<1>1. ASSUME NEW k \in DOMAIN attempts' PROVE k[1] \in live'
  <2>1. TypeInv' /\ EventsInv'
    BY TypesKept, EventsInvKept
  <2>2. k \in AllKeys /\ k[2] \in DOMAIN events'[k[1]]
    BY <2>1 DEF TypeInv, EventsInv
  <2>3. k[1] \in Rules
    BY <2>2 DEF AllKeys
  <2>4. ASSUME k[1] \notin live' PROVE FALSE
    <3>1. events'[k[1]] = <<>>
      BY <2>1, <2>3, <2>4 DEF EventsInv
    <3> QED
      BY <2>2, <3>1
  <2> QED
    BY <2>4
<1>2. ASSUME NEW k \in DOMAIN attempts'
      PROVE  /\ attempts'[k].messages <= 1 + alertFailures'
             /\ attempts'[k].status = "failed" /\ ~(retry'.at = "update" /\ retry'.key = k /\ retry'.ok)
                  => attempts'[k].messages <= alertFailures'
  <2>1. CASE k \in DOMAIN attempts
    BY <1>1, <1>2, <2>1, RowsPay
  <2>2. CASE k \notin DOMAIN attempts
    <3>1. PICK d \in Dispatchers, c \in Channels :
             /\ CreateAttempt(d, c) /\ dispatch[d].rule \in live
             /\ k = <<dispatch[d].rule, dispatch[d].event, c>>
      BY <2>2, RowsComeFrom
    <3>2. attempts'[k] = Queued
      BY <3>1, CreateTyped
    <3>3. attempts'[k].messages = 0
      BY <3>2 DEF Queued
    <3> QED
      BY <1>f, <3>3, Zenon
  <2> QED
    BY <2>1, <2>2
<1>3. ASSUME NEW k \in DOMAIN attempts', NEW d \in Dispatchers,
             k = <<dispatch'[d].rule, dispatch'[d].event, dispatch'[d].channel>>
      PROVE  /\ dispatch'[d].at = "send" => attempts'[k].messages = 0
             /\ dispatch'[d].at = "update" /\ ~dispatch'[d].ok => attempts'[k].messages <= alertFailures'
  BY <1>1, <1>3, WorkersPay
<1> QED
  BY <1>2, <1>3 DEF PaidInv, Key, At
-----------------------------------------------------------------------------
(* Answered, after a step. *)
AnsweredAfter(r, i, c) ==
    <<r, i, c>> \in DOMAIN attempts' /\ attempts'[<<r, i, c>>].status # "queued"

(* A row that has an outcome keeps one. *)
LEMMA AnsweredStays ==
    ASSUME TypeInv, EventsInv, HandledInv, [AlertNext]_alertVars,
           NEW r \in live', NEW i, NEW c, Answered(r, i, c)
    PROVE  AnsweredAfter(r, i, c)
<1> DEFINE k == <<r, i, c>>
<1>1. k \in DOMAIN attempts /\ attempts[k].status # "queued" /\ k[1] \in live'
  BY DEF Answered
<1>2. k \in DOMAIN attempts' /\ RowMoves(k)
  BY <1>1, RowsStay
<1>3. ASSUME NEW d \in Dispatchers, NEW b \in Channels, CreateAttempt(d, b),
             k = <<dispatch[d].rule, dispatch[d].event, b>>
      PROVE  FALSE
  BY <1>1, <1>3 DEF HandledInv, CreateAttempt, At
<1> QED
  BY <1>1, <1>2, <1>3 DEF RowMoves, AnsweredAfter

(* A channel that was on all the time after a step was before. *)
LEMMA OnBefore ==
    ASSUME [AlertNext]_alertVars, NEW c \in enabled' \ switched'
    PROVE  c \in enabled \ switched
<1>1. CASE enabled' = enabled /\ switched' = switched
  BY <1>1
<1>2. ASSUME NEW b \in Channels, ToggleChannel(b) PROVE c \in enabled \ switched
  BY <1>2 DEF ToggleChannel
<1>3. ASSUME NEW d \in Dispatchers,
             (\E s \in Times \X Severities : Signal(d, s)) \/ DispatchStep(d) \/ StopDispatch(d)
      PROVE  enabled' = enabled /\ switched' = switched
  BY <1>3 DEF Signal, DispatchStep, FindLatest, Finish, Record, ListChannels, ChannelsDone,
     CreateAttempt,
              Send, UpdateAttempt, StopDispatch
<1>4. ASSUME \/ RetryStep \/ StopRetry \/ UNCHANGED alertVars
             \/ \E k \in DOMAIN attempts : BackoffEnds(k)
             \/ \E r \in Rules : DeleteRule(r)
      PROVE  enabled' = enabled /\ switched' = switched
  BY <1>4 DEF RetryStep, ListRetryable, Resend, UpdateRetried, StopRetry, BackoffEnds, DeleteRule,
     alertVars
<1> QED
  BY <1>1, <1>2, <1>3, <1>4 DEF AlertNext

(* The channels that a worker has done with stay answered. *)
LEMMA AnswerInvKept ==
    ASSUME TypeInv, EventsInv, HandledInv, AnswerInv, [AlertNext]_alertVars
    PROVE  AnswerInv'
<1>1. SUFFICES ASSUME NEW d \in Dispatchers, dispatch'[d].at \in {"create", "send", "update"},
                      dispatch'[d].rule \in live',
                      NEW c \in (ChannelsOf[dispatch'[d].rule] \cap enabled') \ switched'
               PROVE  \/ c \in dispatch'[d].channels
                      \/ dispatch'[d].at \in {"send", "update"} /\ c = dispatch'[d].channel
                      \/ AnsweredAfter(dispatch'[d].rule, dispatch'[d].event, c)
  BY DEF AnswerInv, At, Answered, AnsweredAfter
<1> DEFINE Done == \/ c \in dispatch'[d].channels
                   \/ dispatch'[d].at \in {"send", "update"} /\ c = dispatch'[d].channel
                   \/ AnsweredAfter(dispatch'[d].rule, dispatch'[d].event, c)
<1>2. c \in enabled \ switched /\ dispatch'[d].rule \in live
  BY <1>1, OnBefore, EventsStay
(* How it was, for the work that goes on with its event. *)
<1>3. ASSUME SameEvent(d), dispatch[d].at \in {"create", "send", "update"}
      PROVE  \/ c \in dispatch[d].channels
             \/ dispatch[d].at \in {"send", "update"} /\ c = dispatch[d].channel
             \/ AnsweredAfter(dispatch'[d].rule, dispatch'[d].event, c)
  <2>1. \/ c \in dispatch[d].channels
        \/ dispatch[d].at \in {"send", "update"} /\ c = dispatch[d].channel
        \/ Answered(dispatch'[d].rule, dispatch'[d].event, c)
    BY <1>1, <1>2, <1>3 DEF AnswerInv, At, SameEvent
  <2> QED
    BY <1>1, <2>1, AnsweredStays
<1>4. CASE dispatch'[d] = dispatch[d]
  BY <1>1, <1>3, <1>4 DEF SameEvent
<1>5. CASE Lists(d)
  BY <1>1, <1>2, <1>5 DEF Lists, SameEvent
<1>6. ASSUME NEW b \in Channels, Creates(d, b) PROVE Done
  BY <1>1, <1>3, <1>6 DEF Creates
<1>7. CASE Sends(d)
  BY <1>1, <1>3, <1>7 DEF Sends
<1>8. CASE Updates(d)
  <2>1. dispatch[d].rule \in live /\ dispatch[d].at = "update" /\ SameEvent(d)
    BY <1>2, <1>8 DEF Updates, SameEvent
  <2>2. attempts'[Key(d)].status # "queued" /\ Key(d) \in DOMAIN attempts'
    BY <1>8, UpdateTyped DEF Updates
  <2>3. c = dispatch[d].channel => AnsweredAfter(dispatch'[d].rule, dispatch'[d].event, c)
    BY <2>1, <2>2 DEF AnsweredAfter, Key, SameEvent
  <2> QED
    BY <1>3, <1>8, <2>1, <2>3 DEF Updates
<1>9. ~Leaves(d) /\ ~RecordsEvent(d)
  BY <1>1, RecordsTo DEF Leaves, At, EventPlaces
<1> QED
  BY <1>4, <1>5, <1>6, <1>7, <1>8, <1>9, DispatchMoves

(* The events without an answer. *)
Silent == {e \in Rules \X (1..MaxSignals) : e[2] \in DOMAIN events[e[1]] /\ Unanswered(e[1], e[2])}

(* An event without an answer after a step was one before, or its worker has failed. *)
LEMMA SilentComesFrom ==
    ASSUME TypeInv, EventsInv, HandledInv, AnswerInv, [AlertNext]_alertVars, NEW e \in Silent'
    PROVE  \/ e \in Silent
           \/ \E d \in Dispatchers : StopDispatch(d) /\ e = <<dispatch[d].rule, dispatch[d].event>>
<1>t. TypeInv' /\ EventsInv'
  BY TypesKept, EventsInvKept
<1>0. PICK r \in Rules, i \in 1..MaxSignals : e = <<r, i>>
  BY DEF Silent
<1>1. PICK c \in (ChannelsOf[r] \cap enabled') \ switched' :
         /\ i \in DOMAIN events'[r]
         /\ ~AnsweredAfter(r, i, c)
         /\ \A d \in Dispatchers : dispatch'[d].rule # r \/ dispatch'[d].event # i
  BY <1>0 DEF Silent, Unanswered, AnsweredAfter
<1>2. r \in live' /\ r \in live
  <2>1. ASSUME r \notin live' PROVE FALSE
    <3>1. events'[r] = <<>>
      BY <1>t, <2>1 DEF EventsInv
    <3> QED
      BY <1>1, <3>1
  <2> QED
    BY <2>1, EventsStay
<1>3. c \in (ChannelsOf[r] \cap enabled) \ switched /\ ~Answered(r, i, c)
  BY <1>1, <1>2, OnBefore, AnsweredStays
<1>4. i \in DOMAIN events[r]
  <2>1. CASE EventsKept
    BY <1>1, <2>1 DEF EventsKept
  <2>2. ASSUME NEW d \in Dispatchers, RecordsEvent(d) PROVE i \in DOMAIN events[r]
    <3>1. CASE r # dispatch[d].rule
      BY <1>1, <2>2, <3>1 DEF RecordsEvent
    <3>2. CASE r = dispatch[d].rule
      <4> DEFINE n == Len(events[r]) + 1
      <4>1. Len(events'[r]) = n /\ dispatch'[d] = [dispatch[d] EXCEPT !.at = "channels", !.event = n]
        BY <2>2, <3>2 DEF RecordsEvent
      <4>2. dispatch'[d].rule = r /\ dispatch'[d].event = n
        BY <3>2, <4>1 DEF TypeInv, Works
      <4>3. i # n
        BY <1>1, <4>2
      <4>4. events[r] \in Seq(Times \X Severities) /\ events'[r] \in Seq(Times \X Severities)
        BY <1>t DEF TypeInv
      <4>5. i \in DOMAIN events'[r]
        BY <1>1
      <4> QED
        BY ONLY <4>1, <4>3, <4>4, <4>5
    <3> QED
      BY <3>1, <3>2
  <2>3. ASSUME NEW q \in Rules, DeleteRule(q) PROVE i \in DOMAIN events[r]
    <3>1. q # r /\ events'[r] = events[r]
      BY <1>2, <2>3, DeleteTyped DEF DeleteRule
    <3> QED
      BY <1>1, <3>1
  <2> QED
    BY <2>1, <2>2, <2>3, EventMoves
<1>5. CASE \A d \in Dispatchers : dispatch[d].rule # r \/ dispatch[d].event # i
  BY <1>0, <1>3, <1>4, <1>5 DEF Silent, Unanswered, Answered
<1>6. ASSUME NEW d \in Dispatchers, dispatch[d].rule = r, dispatch[d].event = i
      PROVE  StopDispatch(d)
  <2>1. dispatch[d] \in Works /\ WorkTypes(dispatch[d]) /\ i # 0
    BY DEF TypeInv
  <2>2. At(d, EventPlaces)
    BY <1>6, <2>1 DEF WorkTypes, Works, Places, At, EventPlaces, Idle
  <2>3. ~SameEvent(d) /\ dispatch'[d] # dispatch[d]
    BY <1>1, <1>6 DEF SameEvent
  <2>4. ~RecordsEvent(d)
    BY <2>2 DEF RecordsEvent, At, EventPlaces
  <2>5. Leaves(d)
    BY <2>3, <2>4, DispatchMoves DEF Lists, Creates, Sends, Updates
  <2>6. CASE dispatch[d].at = "create" /\ dispatch[d].channels = {}
    BY <1>2, <1>3, <1>6, <2>6 DEF AnswerInv, At
  <2>7. CASE dispatch[d].at = "update" /\ Key(d) \notin DOMAIN attempts
    BY <1>2, <1>6, <2>7 DEF HandledInv, At
  <2> QED
    BY <1>2, <1>6, <2>2, <2>5, <2>6, <2>7 DEF Leaves
<1> QED
  BY <1>0, <1>5, <1>6

(* Adding one element adds at most one to the size of a set. *)
LEMMA AtMostOneMore ==
    ASSUME NEW S, NEW T, NEW x, IsFiniteSet(S), T \subseteq S \cup {x}
    PROVE  Cardinality(T) \in Nat /\ Cardinality(S) \in Nat /\ Cardinality(T) <= Cardinality(S) + 1
<1>1. /\ IsFiniteSet(S \cup {x})
      /\ Cardinality(S \cup {x}) = IF x \in S THEN Cardinality(S) ELSE Cardinality(S) + 1
      /\ Cardinality(S) \in Nat
  BY FS_AddElement, FS_CardinalityType
<1>2. Cardinality(T) <= Cardinality(S \cup {x}) /\ IsFiniteSet(T)
  BY <1>1, FS_Subset
<1>3. Cardinality(T) \in Nat
  BY <1>2, FS_CardinalityType
<1> QED
  BY <1>1, <1>2, <1>3

(* There are finitely many silent events. *)
LEMMA SilentFinite == IsFiniteSet(Silent)
<1>1. IsFiniteSet(1..MaxSignals)
  BY FS_Interval
<1>2. IsFiniteSet(Rules \X (1..MaxSignals))
  BY <1>1, FS_Product
<1> QED
  BY <1>2, FS_Subset DEF Silent

SilentInv == Cardinality(Silent) <= alertFailures

(* A step adds a silent event only when it is a failure. *)
LEMMA SilentInvKept ==
    ASSUME TypeInv, EventsInv, HandledInv, AnswerInv, SilentInv, [AlertNext]_alertVars
    PROVE  SilentInv'
<1>f. alertFailures \in Nat /\ alertFailures' \in Nat /\ alertFailures <= alertFailures'
  BY FailuresGrow
<1>s. IsFiniteSet(Silent) /\ Cardinality(Silent) \in Nat
  BY SilentFinite, FS_CardinalityType
<1>1. ASSUME NEW d \in Dispatchers, StopDispatch(d) PROVE SilentInv'
  <2>1. ASSUME NEW f \in Dispatchers, StopDispatch(f) PROVE f = d
    <3>1. ASSUME f # d PROVE FALSE
      <4>1. dispatch'[f] = dispatch[f]
        BY <1>1, <3>1 DEF StopDispatch, Goes, TypeInv
      <4>2. dispatch'[f] = Idle /\ dispatch[f].at # "idle"
        BY <2>1 DEF StopDispatch, Goes, TypeInv
      <4> QED
        BY <4>1, <4>2 DEF Idle
    <3> QED
      BY <3>1
  <2>2. Silent' \subseteq Silent \cup {<<dispatch[d].rule, dispatch[d].event>>}
    BY <2>1, SilentComesFrom
  <2>3. Cardinality(Silent') \in Nat /\ Cardinality(Silent') <= Cardinality(Silent) + 1
    BY <1>s, <2>2, AtMostOneMore
  <2>4. alertFailures' = alertFailures + 1
    BY <1>1 DEF StopDispatch
  <2> QED
    BY <1>f, <1>s, <2>3, <2>4 DEF SilentInv
<1>2. CASE ~\E d \in Dispatchers : StopDispatch(d)
  <2>1. Silent' \subseteq Silent
    BY <1>2, SilentComesFrom
  <2>2. Cardinality(Silent') <= Cardinality(Silent) /\ IsFiniteSet(Silent')
    BY <1>s, <2>1, FS_Subset
  <2>3. Cardinality(Silent') \in Nat
    BY <2>2, FS_CardinalityType
  <2> QED
    BY <1>f, <1>s, <2>2, <2>3 DEF SilentInv
<1> QED
  BY <1>1, <1>2
-----------------------------------------------------------------------------
(* Everything that holds together. *)
AlertInv ==
    /\ TypeInv /\ EventsInv /\ ApartInv /\ CoverInv
    /\ HandledInv /\ BatchInv /\ PaidInv /\ AnswerInv /\ SilentInv

(* The invariant holds at first. *)
LEMMA InitHolds == AlertInit => AlertInv
<1> SUFFICES ASSUME AlertInit PROVE AlertInv
  OBVIOUS
<1>1. TypeInv
  BY InitTypes
<1>2. /\ \A d \in Dispatchers : dispatch[d].at = "idle"
      /\ \A r \in Rules : events[r] = <<>> /\ DOMAIN events[r] = {}
      /\ DOMAIN attempts = {} /\ retry = NoBatch /\ served = {}
  BY DEF AlertInit, Idle
<1>3. retry.left = {} /\ retry.at = "idle"
  BY <1>2 DEF NoBatch
<1>4. EventsInv /\ HandledInv /\ AnswerInv
  BY <1>1, <1>2 DEF EventsInv, HandledInv, AnswerInv, At, EventPlaces, TypeInv
<1>5. ApartInv /\ CoverInv
  BY <1>2 DEF ApartInv, CoverInv, CoveredSignals, At
<1>6. BatchInv /\ PaidInv
  BY <1>2, <1>3 DEF BatchInv, PaidInv
<1>7. SilentInv
  <2>1. Silent = {}
    BY <1>2 DEF Silent
  <2>2. Cardinality(Silent) = 0
    BY <2>1, FS_EmptySet
  <2>3. alertFailures = 0
    BY DEF AlertInit
  <2> QED
    BY <2>2, <2>3 DEF SilentInv
<1> QED
  BY <1>1, <1>4, <1>5, <1>6, <1>7 DEF AlertInv

(* Every step keeps the invariant. *)
LEMMA InvKept == AlertInv /\ [AlertNext]_alertVars => AlertInv'
BY TypesKept, EventsInvKept, ApartInvKept, CoverInvKept, HandledInvKept, BatchInvKept, PaidInvKept,
   AnswerInvKept, SilentInvKept DEF AlertInv

(* The invariant holds throughout. *)
LEMMA InvHolds == AlertSpec => []AlertInv
BY InitHolds, InvKept, PTL DEF AlertSpec

(* Whatever other workers record meanwhile, and although the cooldown is read before the   *)
(* event is inserted (alerts.go:59): a dispatch that ends has left no rule that wants the  *)
(* signal without an event of its window or later, and no window of time sees more than    *)
(* two events of a severity.                                                               *)
THEOREM CooldownHolds == AlertSpec => []CooldownKept
<1>1. AlertInv => CooldownKept
  BY TwoPerWindow DEF AlertInv, CoverInv, CooldownKept
<1> QED
  BY <1>1, InvHolds, PTL

(* A channel gets a message of an event once and once more for each failure, although the  *)
(* attempt is written before and after the message goes out (delivery.go:101); and an      *)
(* event leaves a channel that was on without an outcome only when a worker has failed.    *)
THEOREM DeliveryHolds == AlertSpec => []DeliveredPerFailure
<1>1. AlertInv => DeliveredPerFailure
  BY DEF AlertInv, PaidInv, SilentInv, Silent, DeliveredPerFailure, MessagesPerFailure, SilentPerFailure
<1> QED
  BY <1>1, InvHolds, PTL
-----------------------------------------------------------------------------
(* The tries of a row: given up after the last, and only then; a copy in the batch is of a
   row that was not. *)
TriesOf(row) ==
    /\ row.tries \in 0..RetryLimit
    /\ row.exhausted => row.tries = RetryLimit
    /\ row.status = "failed" /\ ~row.exhausted => row.tries < RetryLimit

RowsTried == \A k \in DOMAIN attempts : TriesOf(attempts[k])
CopiesTried == \A row \in retry.left : row.tries < RetryLimit
TriesInv == RowsTried /\ CopiesTried

(* A row that gets an outcome. *)
LEMMA UpdatedTries ==
    ASSUME NEW row \in Rows, NEW tries \in Nat, tries < RetryLimit, NEW ok \in BOOLEAN
    PROVE  TriesOf(Updated(row, tries, ok))
<1>1. CASE ok
  <2> DEFINE new == [row EXCEPT !.status = "delivered", !.tries = tries, !.exhausted = FALSE,
                                !.due = FALSE]
  <2>1. Updated(row, tries, ok) = new
    BY <1>1 DEF Updated
  <2>2. new.status = "delivered" /\ new.tries = tries /\ new.exhausted = FALSE
    BY DEF Rows
  <2> HIDE DEF new
  <2> QED
    BY <2>1, <2>2 DEF TriesOf
<1>2. CASE ~ok
  <2>1. PICK n \in Nat : n = tries + 1
    OBVIOUS
  <2> DEFINE new(last) == [row EXCEPT !.status = "failed", !.tries = n, !.exhausted = last, !.due = FALSE]
  <2>2. \A last \in BOOLEAN :
           new(last).status = "failed" /\ new(last).tries = n /\ new(last).exhausted = last
    BY DEF Rows
  <2>3. CASE n >= RetryLimit
    <3>1. Updated(row, tries, ok) = new(TRUE)
      BY <1>2, <2>1, <2>3 DEF Updated
    <3>2. n = RetryLimit
      BY <2>1, <2>3
    <3>3. new(TRUE).tries = n /\ new(TRUE).exhausted = TRUE
      BY <2>2
    <3> HIDE DEF new
    <3>4. Updated(row, tries, ok).tries = n /\ Updated(row, tries, ok).exhausted = TRUE
      BY ONLY <3>1, <3>3
    <3> QED
      BY <3>2, <3>4 DEF TriesOf
  <2>4. CASE ~(n >= RetryLimit)
    <3>0. (tries + 1 >= RetryLimit) = FALSE
      BY <2>1, <2>4
    <3>1. Updated(row, tries, ok) = new(FALSE)
      <4>1. Updated(row, tries, ok)
              = [row EXCEPT !.status = "failed", !.tries = tries + 1,
                            !.exhausted = (tries + 1 >= RetryLimit), !.due = FALSE]
        BY <1>2, Zenon DEF Updated
      <4> QED
        BY <2>1, <3>0, <4>1, Zenon
    <3>3. new(FALSE).tries = n /\ new(FALSE).exhausted = FALSE
      BY <2>2
    <3> HIDE DEF new
    <3>4. Updated(row, tries, ok).tries = n /\ Updated(row, tries, ok).exhausted = FALSE
      BY ONLY <3>1, <3>3
    <3> QED
      BY <2>4, <3>4 DEF TriesOf
  <2> QED
    BY <2>3, <2>4
<1> QED
  BY <1>1, <1>2

(* A message changes nothing of that. *)
LEMMA SentTries ==
    ASSUME TypeInv, RowsTried, NEW k, NEW arrives \in BOOLEAN, NEW ok \in BOOLEAN, Sent(k, arrives, ok)
    PROVE  RowsTried'
<1>1. CASE k \in DOMAIN attempts /\ arrives
  <2>1. attempts' = [attempts EXCEPT ![k].messages = @ + 1] /\ attempts[k] \in Rows
    BY <1>1 DEF Sent, TypeInv
  <2>2. PICK m : attempts' = [attempts EXCEPT ![k] = [attempts[k] EXCEPT !.messages = m]]
    BY <2>1
  <2>3. /\ [attempts[k] EXCEPT !.messages = m].tries = attempts[k].tries
        /\ [attempts[k] EXCEPT !.messages = m].status = attempts[k].status
        /\ [attempts[k] EXCEPT !.messages = m].exhausted = attempts[k].exhausted
    BY <2>1 DEF Rows
  <2>4. TriesOf([attempts[k] EXCEPT !.messages = m])
    BY <1>1, <2>3 DEF TriesOf, RowsTried
  <2>5. DOMAIN attempts' = DOMAIN attempts
        /\ \A j \in DOMAIN attempts : attempts'[j] = IF j = k THEN [attempts[k] EXCEPT !.messages = m] ELSE attempts[j]
    BY <2>2
  <2> QED
    BY <2>4, <2>5 DEF RowsTried, TriesOf
<1>2. CASE ~(k \in DOMAIN attempts /\ arrives)
  BY <1>2 DEF Sent, RowsTried, TriesOf
<1> QED
  BY <1>1, <1>2

(* An outcome after fewer tries than there may be. *)
LEMMA OutcomeTries ==
    ASSUME TypeInv, RowsTried, NEW k \in DOMAIN attempts, NEW tries \in Nat, tries < RetryLimit,
           NEW ok \in BOOLEAN, attempts' = [attempts EXCEPT ![k] = Updated(@, tries, ok)]
    PROVE  RowsTried'
<1>1. attempts[k] \in Rows
  BY DEF TypeInv
<1>2. TriesOf(Updated(attempts[k], tries, ok))
  BY <1>1, UpdatedTries
<1>3. DOMAIN attempts' = DOMAIN attempts
      /\ \A j \in DOMAIN attempts : attempts'[j] = IF j = k THEN Updated(attempts[k], tries, ok) ELSE attempts[j]
  OBVIOUS
<1> QED
  BY <1>2, <1>3 DEF RowsTried, TriesOf

(* Every step keeps the tries. *)
LEMMA TriesKept ==
    ASSUME TypeInv, TriesInv, [AlertNext]_alertVars
    PROVE  TriesInv'
<1>a. RowsTried /\ CopiesTried
  BY DEF TriesInv
<1>s. ASSUME attempts' = attempts PROVE RowsTried'
  BY <1>a, <1>s DEF RowsTried, TriesOf
<1>l. ASSUME retry'.left \subseteq retry.left PROVE CopiesTried'
  BY <1>a, <1>l DEF CopiesTried
<1>n. NoBatch.left = {}
  BY DEF NoBatch
<1>1. ASSUME NEW d \in Dispatchers, NEW c \in Channels, CreateAttempt(d, c) PROVE TriesInv'
  <2>1. retry' = retry
    BY <1>1 DEF CreateAttempt
  <2>2. CASE attempts' = attempts
    BY <1>s, <1>l, <2>1, <2>2 DEF TriesInv
  <2>3. CASE attempts' # attempts
    <3>1. PICK k : attempts' = [j \in DOMAIN attempts \cup {k} |-> IF j = k THEN NewAttempt ELSE attempts[j]]
      BY <1>1, <2>3 DEF CreateAttempt
    <3>2. TriesOf(NewAttempt)
      BY DEF NewAttempt, Queued, TriesOf
    <3>3. RowsTried'
      BY <1>a, <3>1, <3>2 DEF RowsTried, TriesOf
    <3> QED
      BY <1>l, <2>1, <3>3 DEF TriesInv
  <2> QED
    BY <2>2, <2>3
<1>2. ASSUME NEW d \in Dispatchers, Send(d) PROVE TriesInv'
  <2>1. \E arrives, ok \in BOOLEAN : Sent(Key(d), arrives, ok)
    BY <1>2 DEF Send
  <2>2. retry' = retry
    BY <1>2 DEF Send
  <2> QED
    BY <1>a, <1>l, <2>1, <2>2, SentTries DEF TriesInv
<1>3. ASSUME NEW d \in Dispatchers, UpdateAttempt(d) PROVE TriesInv'
  <2>1. retry' = retry
    BY <1>3 DEF UpdateAttempt
  <2>2. CASE Key(d) \in DOMAIN attempts
    <3>1. attempts' = [attempts EXCEPT ![Key(d)] = Updated(@, 0, dispatch[d].ok)]
      BY <1>3, <2>2 DEF UpdateAttempt
    <3>2. dispatch[d].ok \in BOOLEAN
      BY DEF TypeInv, Works
    <3>3. 0 \in Nat /\ 0 < RetryLimit
      OBVIOUS
    <3> QED
      BY <1>a, <1>l, <2>1, <2>2, <3>1, <3>2, <3>3, OutcomeTries DEF TriesInv
  <2>3. CASE Key(d) \notin DOMAIN attempts
    BY <1>3, <1>s, <1>l, <2>1, <2>3 DEF UpdateAttempt, TriesInv
  <2> QED
    BY <2>2, <2>3
<1>4. CASE ListRetryable
  <2> DEFINE copies == {[key |-> k, tries |-> attempts[k].tries] : k \in {k \in DOMAIN attempts : Retryable(k)}}
  <2>1. retry' = [NoBatch EXCEPT !.at = "send", !.left = copies] /\ attempts' = attempts
    BY <1>4 DEF ListRetryable
  <2>2. \A row \in copies : row.tries < RetryLimit
    BY <1>a DEF RowsTried, TriesOf, Retryable
  <2> HIDE DEF copies
  <2>3. retry'.left = copies
    BY <2>1 DEF NoBatch
  <2> QED
    BY <1>s, <2>1, <2>2, <2>3 DEF TriesInv, CopiesTried
<1>5. CASE Resend
  <2>1. PICK row \in retry.left : \E arrives, ok \in BOOLEAN :
           /\ Sent(row.key, arrives, ok)
           /\ retry' = [retry EXCEPT !.at = "update", !.key = row.key, !.ok = ok]
    BY <1>5 DEF Resend
  <2>2. retry'.left = retry.left
    BY <2>1 DEF TypeInv, RetryBatches
  <2> QED
    BY <1>a, <1>l, <2>1, <2>2, SentTries DEF TriesInv
<1>6. CASE UpdateRetried
  <2>1. PICK row \in retry.left :
           IF row.key \in DOMAIN attempts
           THEN attempts' = [attempts EXCEPT ![row.key] = Updated(@, row.tries, retry.ok)]
           ELSE UNCHANGED attempts
    BY <1>6 DEF UpdateRetried
  <2>2. row.tries \in Nat /\ row.tries < RetryLimit /\ retry.ok \in BOOLEAN
    BY <1>a, CopiesTyped DEF CopiesTried, TypeInv, RetryBatches
  <2>3. RowsTried'
    BY <1>a, <1>s, <2>1, <2>2, OutcomeTries
  <2>4. retry'.left \subseteq retry.left
    BY <1>6, RetriedMoves
  <2> QED
    BY <1>l, <2>3, <2>4 DEF TriesInv
<1>7. CASE StopRetry
  <2>1. retry'.left \subseteq retry.left /\ attempts' = attempts
    BY <1>7, <1>n DEF StopRetry
  <2> QED
    BY <1>s, <1>l, <2>1 DEF TriesInv
<1>8. ASSUME NEW k \in DOMAIN attempts, BackoffEnds(k) PROVE TriesInv'
  <2>1. attempts' = [attempts EXCEPT ![k] = [attempts[k] EXCEPT !.due = TRUE]] /\ retry' = retry
    BY <1>8 DEF BackoffEnds
  <2>2. /\ [attempts[k] EXCEPT !.due = TRUE].tries = attempts[k].tries
        /\ [attempts[k] EXCEPT !.due = TRUE].status = attempts[k].status
        /\ [attempts[k] EXCEPT !.due = TRUE].exhausted = attempts[k].exhausted
    BY DEF TypeInv, Rows
  <2>3. TriesOf([attempts[k] EXCEPT !.due = TRUE])
    BY <1>a, <2>2 DEF TriesOf, RowsTried
  <2>4. RowsTried'
    BY <1>a, <2>1, <2>3 DEF RowsTried, TriesOf
  <2> QED
    BY <1>l, <2>1, <2>4 DEF TriesInv
<1>9. ASSUME NEW r \in Rules, DeleteRule(r) PROVE TriesInv'
  <2>1. attempts' = [k \in {k \in DOMAIN attempts : k[1] # r} |-> attempts[k]] /\ retry' = retry
    BY <1>9 DEF DeleteRule
  <2>2. RowsTried'
    BY <1>a, <2>1 DEF RowsTried, TriesOf
  <2> QED
    BY <1>l, <2>1, <2>2 DEF TriesInv
<1>10. ASSUME attempts' = attempts, retry' = retry PROVE TriesInv'
  BY <1>s, <1>l, <1>10 DEF TriesInv
<1>11. ASSUME NEW d \in Dispatchers,
              \/ \E s \in Times \X Severities : Signal(d, s)
              \/ \E r \in Rules : FindLatest(d, r)
              \/ Finish(d) \/ Record(d) \/ ListChannels(d) \/ ChannelsDone(d) \/ StopDispatch(d)
       PROVE  TriesInv'
  <2>1. attempts' = attempts /\ retry' = retry
    BY <1>11 DEF Signal, FindLatest, Finish, Record, ListChannels, ChannelsDone, StopDispatch
  <2> QED
    BY <1>10, <2>1
<1>12. CASE (\E c \in Channels : ToggleChannel(c)) \/ UNCHANGED alertVars
  BY <1>10, <1>12 DEF ToggleChannel, alertVars
<1> QED
  BY <1>1, <1>2, <1>3, <1>4, <1>5, <1>6, <1>7, <1>8, <1>9, <1>11, <1>12 DEF AlertNext, DispatchStep, RetryStep

(* The dispatches that a rule may still have an event of, and what is counted: each of them
   and each event is of a signal of its own. *)
AheadOf(r) == {d \in Dispatchers : Ahead(dispatch[d], r)}
OnceIn(w) == w.at = "record" => w.rule \notin w.rules
Once == \A d \in Dispatchers : OnceIn(dispatch[d])
SignalsCount(r) ==
    IsFiniteSet(AheadOf(r)) /\ Len(events[r]) + Cardinality(AheadOf(r)) <= signals
CountInv == Once /\ \A r \in Rules : SignalsCount(r)

(* A worker that has no rule before it that it did not have. *)
Quiet(e) ==
    /\ OnceIn(dispatch'[e])
    /\ \A r \in Rules : Ahead(dispatch'[e], r) => Ahead(dispatch[e], r)

(* Workers other than the one with a new signal have none more before them. *)
LEMMA AheadMoves ==
    ASSUME TypeInv, Once, [AlertNext]_alertVars, NEW e \in Dispatchers
    PROVE  Quiet(e) \/ \E s \in Times \X Severities : Signal(e, s)
<1>w. dispatch[e] \in Works /\ OnceIn(dispatch[e])
  BY DEF TypeInv, Once
<1>g. ASSUME NEW d \in Dispatchers, NEW w, Goes(d, w)
      PROVE  dispatch'[d] = w /\ (d # e => dispatch'[e] = dispatch[e])
  BY <1>g DEF Goes, TypeInv
<1>s. ASSUME dispatch'[e] = dispatch[e] PROVE Quiet(e)
  BY <1>s, <1>w DEF Quiet
<1>i. ASSUME dispatch'[e] = Idle PROVE Quiet(e)
  BY <1>i DEF Quiet, OnceIn, Ahead, Idle
<1>k. ASSUME NEW w, dispatch'[e] = w, w.at # "record", w.rules = dispatch[e].rules PROVE Quiet(e)
  BY <1>k DEF Quiet, OnceIn, Ahead
<1>2. ASSUME NEW r \in Rules, FindLatest(e, r) PROVE Quiet(e)
  <2> DEFINE left == [dispatch[e] EXCEPT !.rules = @ \ {r}]
             chosen == [left EXCEPT !.at = "record", !.rule = r]
  <2>0. dispatch[e].at = "rule" /\ r \in dispatch[e].rules
    BY <1>2 DEF FindLatest
  <2>1. /\ left.at = "rule" /\ left.rules = dispatch[e].rules \ {r}
        /\ chosen.at = "record" /\ chosen.rule = r /\ chosen.rules = dispatch[e].rules \ {r}
    BY <1>w, <2>0 DEF Works
  <2> HIDE DEF left, chosen
  <2>2. dispatch'[e] = left \/ dispatch'[e] = chosen
    BY <1>2, <1>g DEF FindLatest, left, chosen
  <2> QED
    BY <2>0, <2>1, <2>2 DEF Quiet, OnceIn, Ahead
<1>3. ASSUME Finish(e) \/ StopDispatch(e) PROVE Quiet(e)
  BY <1>3, <1>g, <1>i DEF Finish, StopDispatch
<1>4. CASE Record(e)
  <2> DEFINE next == [dispatch[e] EXCEPT !.at = "rule", !.rule = "none"]
             recorded == [dispatch[e] EXCEPT !.at = "channels", !.event = Len(events[dispatch[e].rule]) + 1]
  <2>1. next.at = "rule" /\ next.rules = dispatch[e].rules
    BY <1>w DEF Works
  <2>2. recorded.at = "channels" /\ recorded.rules = dispatch[e].rules
    BY <1>w DEF Works
  <2> HIDE DEF next, recorded
  <2>3. Goes(e, Idle) \/ Goes(e, next) \/ Goes(e, recorded)
    BY <1>4 DEF Record, next, recorded
  <2> QED
    BY <1>g, <1>i, <1>k, <2>1, <2>2, <2>3
<1>5. CASE ListChannels(e)
  <2> DEFINE w == [dispatch[e] EXCEPT !.at = "create", !.channels = enabled \cap ChannelsOf[dispatch[e].rule]]
  <2>1. w.at = "create" /\ w.rules = dispatch[e].rules
    BY <1>w DEF Works
  <2>2. Goes(e, w)
    BY <1>5 DEF ListChannels
  <2> HIDE DEF w
  <2> QED
    BY <1>g, <1>k, <2>1, <2>2
<1>6. CASE ChannelsDone(e)
  <2> DEFINE w == [dispatch[e] EXCEPT !.at = "rule", !.rule = "none", !.event = 0, !.channel = "none"]
  <2>1. w.at = "rule" /\ w.rules = dispatch[e].rules
    BY <1>w DEF Works
  <2>2. Goes(e, w)
    BY <1>6 DEF ChannelsDone
  <2> HIDE DEF w
  <2> QED
    BY <1>g, <1>k, <2>1, <2>2
<1>7. ASSUME NEW c \in Channels, CreateAttempt(e, c) PROVE Quiet(e)
  <2> DEFINE w == [dispatch[e] EXCEPT !.at = "send", !.channels = @ \ {c}, !.channel = c]
  <2>1. w.at = "send" /\ w.rules = dispatch[e].rules
    BY <1>w DEF Works
  <2>2. Goes(e, w) \/ Goes(e, Idle)
    BY <1>7 DEF CreateAttempt
  <2> HIDE DEF w
  <2> QED
    BY <1>g, <1>i, <1>k, <2>1, <2>2
<1>8. CASE Send(e)
  <2>1. PICK ok \in BOOLEAN : Goes(e, [dispatch[e] EXCEPT !.at = "update", !.ok = ok])
    BY <1>8 DEF Send
  <2> DEFINE w == [dispatch[e] EXCEPT !.at = "update", !.ok = ok]
  <2>2. w.at = "update" /\ w.rules = dispatch[e].rules
    BY <1>w DEF Works
  <2>3. Goes(e, w)
    BY <2>1
  <2> HIDE DEF w
  <2> QED
    BY <1>g, <1>k, <2>2, <2>3
<1>9. CASE UpdateAttempt(e)
  <2> DEFINE w == [dispatch[e] EXCEPT !.at = "create", !.channel = "none", !.ok = FALSE]
  <2>1. w.at = "create" /\ w.rules = dispatch[e].rules
    BY <1>w DEF Works
  <2>2. Goes(e, w) \/ Goes(e, Idle)
    BY <1>9 DEF UpdateAttempt
  <2> HIDE DEF w
  <2> QED
    BY <1>g, <1>i, <1>k, <2>1, <2>2
<1>11. ASSUME NEW d \in Dispatchers, d # e,
              (\E s \in Times \X Severities : Signal(d, s)) \/ DispatchStep(d) \/ StopDispatch(d)
       PROVE  dispatch'[e] = dispatch[e]
  <2>1. \E w : Goes(d, w)
    BY <1>11 DEF Signal, DispatchStep, FindLatest, Finish, Record, ListChannels, ChannelsDone,
       CreateAttempt, Send, UpdateAttempt, StopDispatch
  <2> QED
    BY <1>11, <1>g, <2>1
<1>12. ASSUME \/ RetryStep \/ StopRetry \/ UNCHANGED alertVars
              \/ \E k \in DOMAIN attempts : BackoffEnds(k)
              \/ \E c \in Channels : ToggleChannel(c)
              \/ \E r \in Rules : DeleteRule(r)
       PROVE  dispatch'[e] = dispatch[e]
  BY <1>12 DEF RetryStep, ListRetryable, Resend, UpdateRetried, StopRetry, BackoffEnds, ToggleChannel,
               DeleteRule, alertVars
<1>13. ASSUME DispatchStep(e) PROVE Quiet(e) \/ \E s \in Times \X Severities : Signal(e, s)
  BY <1>2, <1>3, <1>4, <1>5, <1>6, <1>7, <1>8, <1>9, <1>13 DEF DispatchStep
<1> QED
  BY <1>s, <1>3, <1>11, <1>12, <1>13 DEF AlertNext

(* What a new signal does: its worker may have every rule before it. *)
LEMMA SignalMoves ==
    ASSUME TypeInv, Once, [AlertNext]_alertVars, NEW d \in Dispatchers, NEW s, Signal(d, s)
    PROVE  /\ \A e \in Dispatchers : OnceIn(dispatch'[e])
           /\ \A e \in Dispatchers \ {d} : dispatch'[e] = dispatch[e]
           /\ events' = events /\ signals' = signals + 1
<1> DEFINE w == [Idle EXCEPT !.at = "rule", !.signal = s, !.rules = live]
<1>1. w.at = "rule"
  BY DEF Idle
<1>2. Goes(d, w) /\ events' = events /\ signals' = signals + 1
  BY DEF Signal
<1> HIDE DEF w
<1>3. dispatch'[d] = w /\ \A e \in Dispatchers \ {d} : dispatch'[e] = dispatch[e]
  BY <1>2 DEF Goes, TypeInv
<1> QED
  BY <1>1, <1>2, <1>3 DEF Once, OnceIn

(* Numbers of a smaller set, and with one less. *)
LEMMA CountMoves ==
    ASSUME NEW S, NEW T, IsFiniteSet(S), NEW n \in Nat, NEW m \in Nat, NEW k \in Nat,
           n + Cardinality(S) <= k
    PROVE  /\ T \subseteq S /\ m <= n => IsFiniteSet(T) /\ m + Cardinality(T) <= k
           /\ \A d : T \subseteq S \cup {d} => IsFiniteSet(T) /\ n + Cardinality(T) <= k + 1
           /\ \A d \in S : T \subseteq S \ {d} => IsFiniteSet(T) /\ n + 1 + Cardinality(T) <= k
<1>s. Cardinality(S) \in Nat
  BY FS_CardinalityType
<1>f. ASSUME NEW R, IsFiniteSet(R), T \subseteq R
      PROVE  IsFiniteSet(T) /\ Cardinality(T) \in Nat /\ Cardinality(T) <= Cardinality(R) /\ Cardinality(R) \in Nat
  BY <1>f, FS_Subset, FS_CardinalityType
<1>1. ASSUME T \subseteq S, m <= n PROVE IsFiniteSet(T) /\ m + Cardinality(T) <= k
  <2>1. IsFiniteSet(T) /\ Cardinality(T) \in Nat /\ Cardinality(T) <= Cardinality(S)
    BY <1>1, <1>f
  <2> QED
    BY <1>1, <1>s, <2>1
<1>2. ASSUME NEW d, T \subseteq S \cup {d} PROVE IsFiniteSet(T) /\ n + Cardinality(T) <= k + 1
  <2>1. IsFiniteSet(S \cup {d}) /\ Cardinality(S \cup {d}) \in {Cardinality(S), Cardinality(S) + 1}
    BY FS_AddElement
  <2>2. IsFiniteSet(T) /\ Cardinality(T) \in Nat /\ Cardinality(T) <= Cardinality(S \cup {d})
    BY <1>2, <1>f, <2>1
  <2> QED
    BY <1>s, <2>1, <2>2
<1>3. ASSUME NEW d \in S, T \subseteq S \ {d} PROVE IsFiniteSet(T) /\ n + 1 + Cardinality(T) <= k
  <2>1. IsFiniteSet(S \ {d}) /\ Cardinality(S \ {d}) = Cardinality(S) - 1
    BY FS_RemoveElement
  <2>2. IsFiniteSet(T) /\ Cardinality(T) \in Nat /\ Cardinality(T) <= Cardinality(S \ {d})
    BY <1>3, <1>f, <2>1
  <2> QED
    BY <1>s, <2>1, <2>2
<1> QED
  BY <1>1, <1>2, <1>3

(* Every step keeps the count of signals. *)
LEMMA CountKept ==
    ASSUME TypeInv, CountInv, [AlertNext]_alertVars
    PROVE  CountInv'
<1>c. Once /\ \A r \in Rules : SignalsCount(r)
  BY DEF CountInv
<1>l. \A r \in Rules : /\ Len(events[r]) \in Nat /\ events[r] \in Seq(Times \X Severities)
  BY DEF TypeInv
<1>m. \A r \in Rules : Len(events'[r]) \in Nat
  BY TypesKept DEF TypeInv
<1>n. signals \in Nat /\ signals' \in Nat /\ signals <= signals'
  <2>1. signals' = signals \/ signals' = signals + 1
    BY DEF AlertNext, Signal, DispatchStep, FindLatest, Finish, Record, ListChannels, ChannelsDone,
       CreateAttempt, Send, UpdateAttempt, StopDispatch, RetryStep, ListRetryable, Resend, UpdateRetried,
       StopRetry, BackoffEnds, ToggleChannel, DeleteRule, alertVars
  <2> QED
    BY <2>1 DEF TypeInv
<1> DEFINE Ahd(r) == {d \in Dispatchers : Ahead(dispatch'[d], r)}
<1>q. CountInv' <=> /\ \A d \in Dispatchers : OnceIn(dispatch'[d])
                    /\ \A r \in Rules : IsFiniteSet(Ahd(r)) /\ Len(events'[r]) + Cardinality(Ahd(r)) <= signals'
  BY DEF CountInv, Once, OnceIn, SignalsCount, AheadOf, Ahead
<1>f. \A r \in Rules : /\ IsFiniteSet(AheadOf(r)) /\ Cardinality(AheadOf(r)) \in Nat
                       /\ Len(events[r]) + Cardinality(AheadOf(r)) <= signals
  BY <1>c, FS_CardinalityType DEF SignalsCount
<1>1. ASSUME NEW d \in Dispatchers, NEW s \in Times \X Severities, Signal(d, s) PROVE CountInv'
  <2>1. /\ \A e \in Dispatchers : OnceIn(dispatch'[e])
        /\ \A e \in Dispatchers \ {d} : dispatch'[e] = dispatch[e]
        /\ events' = events /\ signals' = signals + 1
    BY <1>c, <1>1, SignalMoves
  <2>2. ASSUME NEW r \in Rules
        PROVE  IsFiniteSet(Ahd(r)) /\ Len(events'[r]) + Cardinality(Ahd(r)) <= signals'
    <3>1. Ahd(r) \subseteq AheadOf(r) \cup {d}
      BY <2>1 DEF AheadOf, Ahead
    <3> HIDE DEF Ahd
    <3>2. IsFiniteSet(Ahd(r)) /\ Len(events[r]) + Cardinality(Ahd(r)) <= signals + 1
      BY <1>f, <1>l, <1>n, <3>1, CountMoves
    <3> QED
      BY <2>1, <3>2
  <2> QED
    BY <1>q, <2>1, <2>2
<1>2. ASSUME \A e \in Dispatchers : Quiet(e) PROVE CountInv'
  <2>1. \A r \in Rules : Ahd(r) \subseteq AheadOf(r)
    BY <1>2 DEF Quiet, AheadOf
  <2>2. ASSUME NEW r \in Rules, Len(events'[r]) <= Len(events[r])
        PROVE  IsFiniteSet(Ahd(r)) /\ Len(events'[r]) + Cardinality(Ahd(r)) <= signals'
    <3>1. IsFiniteSet(Ahd(r)) /\ Len(events'[r]) + Cardinality(Ahd(r)) <= signals
      <4> HIDE DEF Ahd
      <4> QED
        BY <1>f, <1>l, <1>m, <1>n, <2>1, <2>2, CountMoves
    <3>2. Len(events'[r]) \in Nat /\ Cardinality(Ahd(r)) \in Nat
      BY <1>m, <3>1, FS_CardinalityType
    <3> HIDE DEF Ahd
    <3> QED
      BY <1>n, <3>1, <3>2
  <2>3. ASSUME NEW d \in Dispatchers, RecordsEvent(d), NEW r \in Rules, r = dispatch[d].rule
        PROVE  IsFiniteSet(Ahd(r)) /\ Len(events'[r]) + Cardinality(Ahd(r)) <= signals'
    <3>1. dispatch[d].at = "record" /\ r \notin dispatch[d].rules /\ d \in AheadOf(r)
      BY <1>c, <2>3 DEF RecordsEvent, At, Once, OnceIn, AheadOf, Ahead
    <3>2. dispatch'[d].at = "channels" /\ dispatch'[d].rules = dispatch[d].rules
      <4>1. dispatch[d] \in Works
        BY DEF TypeInv
      <4>2. dispatch'[d] = [dispatch[d] EXCEPT !.at = "channels", !.event = Len(events[dispatch[d].rule]) + 1]
        BY <2>3 DEF RecordsEvent
      <4> QED
        BY ONLY <4>1, <4>2 DEF Works
    <3>3. Ahd(r) \subseteq AheadOf(r) \ {d}
      BY <2>1, <3>1, <3>2 DEF Ahead
    <3>4. Len(events'[r]) = Len(events[r]) + 1
      BY <2>3 DEF RecordsEvent
    <3> HIDE DEF Ahd
    <3>5. IsFiniteSet(Ahd(r)) /\ Len(events[r]) + 1 + Cardinality(Ahd(r)) <= signals
      BY <1>f, <1>l, <1>n, <3>1, <3>3, CountMoves
    <3>6. Cardinality(Ahd(r)) \in Nat
      BY <3>5, FS_CardinalityType
    <3> QED
      BY <1>l, <1>n, <3>4, <3>5, <3>6
  <2> HIDE DEF Ahd
  <2>4. CASE EventsKept
    <3>1. \A r \in Rules : Len(events'[r]) <= Len(events[r])
      BY <1>l, <2>4 DEF EventsKept
    <3> QED
      BY <1>q, <1>2, <2>2, <3>1 DEF Quiet
  <2>5. ASSUME NEW d \in Dispatchers, RecordsEvent(d) PROVE CountInv'
    <3>1. \A r \in Rules : r # dispatch[d].rule => Len(events'[r]) <= Len(events[r])
      BY <1>l, <2>5 DEF RecordsEvent
    <3> QED
      BY <1>q, <1>2, <2>2, <2>3, <2>5, <3>1 DEF Quiet
  <2>6. ASSUME NEW r \in Rules, DeleteRule(r) PROVE CountInv'
    <3>1. events' = [events EXCEPT ![r] = <<>>]
      BY <2>6 DEF DeleteRule
    <3>2. \A q \in Rules : Len(events'[q]) <= Len(events[q])
      <4> TAKE q \in Rules
      <4>1. events'[q] = events[q] \/ events'[q] = <<>>
        BY <3>1 DEF TypeInv
      <4>2. Len(events'[q]) = Len(events[q]) \/ Len(events'[q]) = 0
        BY <4>1
      <4> QED
        BY <1>l, <4>2
    <3> QED
      BY <1>q, <1>2, <2>2, <3>2 DEF Quiet
  <2> QED
    BY <2>4, <2>5, <2>6, EventMoves
<1> QED
  BY <1>c, <1>1, <1>2, AheadMoves

(* Nothing has come at first. *)
LEMMA CountStarts == AlertInit => TriesInv /\ CountInv
<1> SUFFICES ASSUME AlertInit PROVE TriesInv /\ CountInv
  OBVIOUS
<1>1. DOMAIN attempts = {} /\ retry.left = {}
  BY DEF AlertInit, NoBatch
<1>2. \A d \in Dispatchers : dispatch[d].at = "idle" /\ dispatch[d].rules = {}
  BY DEF AlertInit, Idle
<1>3. \A r \in Rules : AheadOf(r) = {}
  BY <1>2 DEF AheadOf, Ahead
<1>4. Cardinality({}) = 0 /\ IsFiniteSet({})
  BY FS_EmptySet
<1>5. \A r \in Rules : Len(events[r]) = 0
  BY DEF AlertInit
<1>6. signals \in Nat
  BY DEF AlertInit
<1>e. \A r \in Rules : Cardinality(AheadOf(r)) = 0 /\ IsFiniteSet(AheadOf(r))
  BY ONLY <1>3, <1>4
<1>7. \A r \in Rules : SignalsCount(r)
  BY <1>e, <1>5, <1>6 DEF SignalsCount
<1> QED
  BY <1>1, <1>2, <1>7 DEF TriesInv, RowsTried, CopiesTried, CountInv, Once, OnceIn

(* A message is tried as often as there are retries, never more, and it is given up when, and
   only when, it was; an event is numbered by the signals there were. *)
THEOREM AlertTypes == AlertSpec => []AlertTypeOK
<1>1. AlertInv /\ TriesInv /\ CountInv => AlertTypeOK
  <2> SUFFICES ASSUME AlertInv, TriesInv, CountInv PROVE AlertTypeOK
    OBVIOUS
  <2>0. TypeInv /\ EventsInv
    BY DEF AlertInv
  <2>1. ASSUME NEW k \in DOMAIN attempts
        PROVE  /\ k \in Rules \X (1..MaxSignals) \X Channels
               /\ attempts[k].status \in {"queued", "delivered", "failed"}
               /\ attempts[k].tries \in 0..RetryLimit
               /\ attempts[k].exhausted => attempts[k].tries = RetryLimit
               /\ k[2] \in DOMAIN events[k[1]]
    <3>1. k \in AllKeys /\ k[2] \in DOMAIN events[k[1]] /\ attempts[k] \in Rows
      BY <2>0 DEF TypeInv, EventsInv
    <3>2. PICK r \in Rules, i \in Nat, c \in Channels : k = <<r, i, c>>
      BY <3>1 DEF AllKeys
    <3>3. events[r] \in Seq(Times \X Severities) /\ i \in DOMAIN events[r]
      BY <2>0, <3>1, <3>2 DEF TypeInv
    <3>4. Len(events[r]) \in Nat /\ i \in 1..Len(events[r])
      BY ONLY <3>3
    <3>5. IsFiniteSet(AheadOf(r)) /\ Len(events[r]) + Cardinality(AheadOf(r)) <= signals
      BY DEF CountInv, SignalsCount
    <3>6. Cardinality(AheadOf(r)) \in Nat
      BY <3>5, FS_CardinalityType
    <3>7. signals \in 0..MaxSignals
      BY <2>0 DEF TypeInv
    <3>8. i \in 1..MaxSignals
      BY <3>4, <3>5, <3>6, <3>7
    <3>9. k \in Rules \X (1..MaxSignals) \X Channels
      BY ONLY <3>2, <3>8
    <3>10. TriesOf(attempts[k])
      BY DEF TriesInv, RowsTried
    <3> QED
      BY <3>1, <3>9, <3>10 DEF TriesOf, Rows
  <2>2. /\ live \subseteq Rules /\ enabled \subseteq Channels
        /\ events \in [Rules -> Seq(Times \X Severities)]
        /\ signals \in 0..MaxSignals /\ toggles \in 0..MaxToggles
        /\ alertFailures \in 0..MaxAlertFailures /\ served \subseteq Times \X Severities
        /\ switched \subseteq Channels
    BY <2>0 DEF TypeInv
  <2>3. \A d \in Dispatchers :
          dispatch[d].at \in {"idle", "rule", "record", "channels", "create", "send", "update"}
    BY <2>0 DEF TypeInv, Works, Places
  <2>4. \A row \in retry.left : row.tries < RetryLimit
    BY DEF TriesInv, CopiesTried
  <2> QED
    BY <2>1, <2>2, <2>3, <2>4 DEF AlertTypeOK
<1>2. AlertInv /\ TriesInv /\ CountInv /\ [AlertNext]_alertVars => TriesInv' /\ CountInv'
  BY TriesKept, CountKept DEF AlertInv
<1> QED
  BY <1>1, <1>2, InitHolds, CountStarts, InvHolds, PTL DEF AlertSpec
-----------------------------------------------------------------------------
USE CacheBoundsAssumption

(* What makes freshness inductive.  While no request has met a refresh and no call has
   failed, a request holds what is in the stores, and each older entry still has a refresh
   before it that will delete it. *)
Orderly ==
    /\ ~(Filling /\ Refreshing)
    /\ \A r \in Readers : reader[r].at \in {"upsert", "set"} => reader[r].graph = data
    /\ Older(cache["summary"]) => \E p \in Refreshers : refresher[p] = "summary"
    /\ Older(cache["graph"]) => \E p \in Refreshers : refresher[p] \in {"summary", "graph"}
    /\ Older(snapshot) => Refreshing

FreshInv == raced \/ cacheFailures > 0 \/ Orderly
Requests == [at : {"idle", "snapshot", "load", "upsert", "set"}, key : Keys, graph : Entries]
-----------------------------------------------------------------------------
(* What a request does to its own record keeps its type. *)
LEMMA ReadsTypes ==
    ASSUME CachesTypeOK, NEW r \in Readers, NEW label \in {"idle", "load", "upsert", "set"},
           NEW graph \in Entries, Reads(r, label, graph)
    PROVE  reader' \in [Readers -> Requests]
<1>1. reader \in [Readers -> Requests]
  BY DEF CachesTypeOK, Requests
<1>2. [reader[r] EXCEPT !.at = label, !.graph = graph] \in Requests
  BY <1>1 DEF Requests
<1> QED
  BY <1>1, <1>2 DEF Reads

(* A request's step keeps the types. *)
LEMMA ReaderTypes ==
    ASSUME CachesTypeOK, NEW r \in Readers,
           (\E k \in Keys : Get(r, k)) \/ ReaderStep(r) \/ ReaderFails(r)
    PROVE  CachesTypeOK'
<1>1. reader \in [Readers -> Requests] /\ data \in Entries /\ None \in Entries
  BY DEF CachesTypeOK, Requests, Entries
<1>2. ASSUME NEW k \in Keys, Get(r, k) PROVE CachesTypeOK'
  <2>1. PICK label \in {"snapshot", "load"} :
           reader' = [reader EXCEPT ![r] = [at |-> label, key |-> k, graph |-> None]]
    BY <1>2 DEF Get
  <2>2. reader' \in [Readers -> Requests]
    BY <1>1, <2>1 DEF Requests
  <2>3. raced' \in BOOLEAN
    BY <1>2 DEF Get, CachesTypeOK
  <2> QED
    BY <1>2, <2>2, <2>3 DEF Get, CachesTypeOK, Requests
<1>3. CASE ReadSnapshot(r)
  <2>1. reader' \in [Readers -> Requests]
    BY <1>1, <1>3, ReadsTypes DEF ReadSnapshot, CachesTypeOK
  <2> QED
    BY <1>3, <2>1 DEF ReadSnapshot, CachesTypeOK, Requests
<1>4. CASE Load(r)
  <2>1. reader' \in [Readers -> Requests]
    BY <1>1, <1>4, ReadsTypes DEF Load
  <2> QED
    BY <1>4, <2>1 DEF Load, CachesTypeOK, Requests
<1>5. CASE UpsertSnapshot(r)
  <2>1. reader[r].graph \in Entries
    BY <1>1 DEF Requests
  <2>2. reader' \in [Readers -> Requests]
    BY <1>5, <2>1, ReadsTypes DEF UpsertSnapshot
  <2> QED
    BY <1>5, <2>1, <2>2 DEF UpsertSnapshot, CachesTypeOK, Requests
<1>6. CASE SetCache(r)
  <2>1. reader[r].key \in Keys /\ reader[r].graph \in Entries
    BY <1>1 DEF Requests
  <2>2. cache' \in [Keys -> Entries]
    BY <1>6, <2>1 DEF SetCache, CachesTypeOK
  <2>3. reader' \in [Readers -> Requests]
    BY <1>1, <1>6, ReadsTypes DEF SetCache
  <2> QED
    BY <1>6, <2>2, <2>3 DEF SetCache, CachesTypeOK, Requests
<1>7. CASE ReaderFails(r)
  <2>1. reader' \in [Readers -> Requests]
    BY <1>1, <1>7, ReadsTypes DEF ReaderFails
  <2>2. cacheFailures' \in 0..MaxCacheFailures
    BY <1>7 DEF ReaderFails, CachesTypeOK
  <2> QED
    BY <1>7, <2>1, <2>2 DEF ReaderFails, CachesTypeOK, Requests
<1> QED
  BY <1>2, <1>3, <1>4, <1>5, <1>6, <1>7 DEF ReaderStep

(* So does a refresh, or the end of a TTL. *)
LEMMA RefresherTypes ==
    ASSUME CachesTypeOK, NEW p \in Refreshers,
           WriteTransfers(p) \/ RefreshStep(p) \/ RefreshFails(p)
    PROVE  CachesTypeOK'
<1> USE DEF CachesTypeOK, Entries, Versions, None, Keys
<1>1. CASE WriteTransfers(p)
  <2>1. raced' \in BOOLEAN
    BY <1>1 DEF WriteTransfers
  <2>2. data' \in 0..MaxWrites
    BY <1>1 DEF WriteTransfers
  <2> QED
    BY <1>1, <2>1, <2>2 DEF WriteTransfers
<1>2. CASE DeleteSummary(p)
  BY <1>2 DEF DeleteSummary, Deletes
<1>3. CASE DeleteGraph(p)
  BY <1>3 DEF DeleteGraph, Deletes
<1>4. CASE DeleteSnapshot(p)
  BY <1>4 DEF DeleteSnapshot
<1>5. CASE RefreshFails(p)
  BY <1>5 DEF RefreshFails
<1> QED
  BY <1>1, <1>2, <1>3, <1>4, <1>5 DEF RefreshStep

(* Every variable keeps its type. *)
THEOREM CachesTypeCorrect == CachesSpec => []CachesTypeOK
<1>1. CachesInit => CachesTypeOK
  <2> SUFFICES ASSUME CachesInit PROVE CachesTypeOK
    OBVIOUS
  <2>1. 0 \in Versions /\ None \in Entries /\ "graph" \in Keys
    BY DEF Versions, Entries, Keys
  <2>2. reader \in [Readers -> Requests]
    BY <2>1 DEF CachesInit, Requests
  <2>3. cache \in [Keys -> Entries] /\ snapshot \in Entries
    BY <2>1 DEF CachesInit
  <2>4. cacheFailures \in 0..MaxCacheFailures
    BY DEF CachesInit
  <2> QED
    BY <2>1, <2>2, <2>3, <2>4 DEF CachesInit, CachesTypeOK, Requests
<1>2. CachesTypeOK /\ [CachesNext]_cacheVars => CachesTypeOK'
  <2> SUFFICES ASSUME CachesTypeOK, [CachesNext]_cacheVars PROVE CachesTypeOK'
    OBVIOUS
  <2>1. CASE UNCHANGED cacheVars
    BY <2>1 DEF cacheVars, CachesTypeOK
  <2>2. ASSUME NEW k \in Keys, Expire(k) PROVE CachesTypeOK'
    BY <2>2 DEF Expire, CachesTypeOK, Entries
  <2> QED
    BY <2>1, <2>2, ReaderTypes, RefresherTypes DEF CachesNext
<1> QED
  BY <1>1, <1>2, PTL DEF CachesSpec
-----------------------------------------------------------------------------
(* A request that begins, goes on or ends in good order leaves good order behind. *)
LEMMA ReaderFresh ==
    ASSUME CachesTypeOK, FreshInv, NEW r \in Readers,
           (\E k \in Keys : Get(r, k)) \/ ReaderStep(r) \/ ReaderFails(r)
    PROVE  FreshInv'
<1> SUFFICES ASSUME Orderly, ~raced', ~(cacheFailures' > 0)
             PROVE  Orderly'
  <2>1. raced => raced'
    BY DEF Get, ReaderStep, ReadSnapshot, Load, UpsertSnapshot, SetCache, ReaderFails
  <2>2. cacheFailures' \in {cacheFailures, cacheFailures + 1}
    BY DEF Get, ReaderStep, ReadSnapshot, Load, UpsertSnapshot, SetCache, ReaderFails
  <2> QED
    BY <2>1, <2>2 DEF FreshInv, CachesTypeOK
<1>1. ~ReaderFails(r)
  BY DEF ReaderFails, CachesTypeOK
<1>2. data' = data /\ refresher' = refresher
  BY <1>1 DEF Get, ReaderStep, ReadSnapshot, Load, UpsertSnapshot, SetCache
<1>3. ASSUME NEW k \in Keys, Get(r, k) PROVE Orderly'
  <2>1. ~Refreshing /\ cache' = cache /\ snapshot' = snapshot
    BY <1>3 DEF Get
  <2>2. /\ reader'[r].at \in {"snapshot", "load"}
        /\ \A q \in Readers \ {r} : reader'[q] = reader[q]
    BY <1>3 DEF Get, CachesTypeOK
  <2> QED
    BY <1>2, <2>1, <2>2 DEF Orderly, Older, Refreshing, Filling
<1>4. ASSUME reader[r].at # "idle" PROVE ~Refreshing /\ ~Refreshing'
  BY <1>2, <1>4 DEF Orderly, Filling, Refreshing
<1>5. CASE ReadSnapshot(r)
  <2>1. ~Refreshing /\ ~Refreshing' /\ cache' = cache /\ snapshot' = snapshot
    BY <1>4, <1>5 DEF ReadSnapshot
  <2>2. snapshot # None => snapshot = data
    BY <2>1 DEF Orderly, Older
  <2>3. /\ reader'[r].at \in {"load", "set"}
        /\ reader'[r].at = "set" => reader'[r].graph = data
        /\ \A q \in Readers \ {r} : reader'[q] = reader[q]
    <3>1. PICK label \in {"load", "set"}, graph \in {None, snapshot} :
             /\ reader' = [reader EXCEPT ![r] = [@ EXCEPT !.at = label, !.graph = graph]]
             /\ label = "set" => graph = data
      BY <1>5, <2>2 DEF ReadSnapshot, Reads
    <3> QED
      BY <3>1 DEF CachesTypeOK
  <2> QED
    BY <1>2, <2>1, <2>3 DEF Orderly, Older
<1>6. CASE Load(r)
  <2>1. ~Refreshing /\ ~Refreshing' /\ cache' = cache /\ snapshot' = snapshot
    BY <1>4, <1>6 DEF Load
  <2>2. /\ reader'[r].graph = data
        /\ \A q \in Readers \ {r} : reader'[q] = reader[q]
    BY <1>6 DEF Load, Reads, CachesTypeOK
  <2> QED
    BY <1>2, <2>1, <2>2 DEF Orderly, Older
<1>7. CASE UpsertSnapshot(r)
  <2>1. ~Refreshing /\ ~Refreshing' /\ cache' = cache /\ snapshot' = data
    BY <1>4, <1>7 DEF UpsertSnapshot, Orderly
  <2>2. /\ reader'[r].graph = data
        /\ \A q \in Readers \ {r} : reader'[q] = reader[q]
    BY <1>7 DEF UpsertSnapshot, Reads, CachesTypeOK, Orderly
  <2> QED
    BY <1>2, <2>1, <2>2 DEF Orderly, Older
<1>8. CASE SetCache(r)
  <2>1. ~Refreshing /\ ~Refreshing' /\ snapshot' = snapshot
    BY <1>4, <1>8 DEF SetCache
  <2>2. cache' = [cache EXCEPT ![reader[r].key] = data]
    BY <1>8 DEF SetCache, Orderly
  <2>3. \A k \in Keys : cache'[k] \in {cache[k], data}
    BY <2>2 DEF CachesTypeOK
  <2>4. /\ reader'[r].at = "idle"
        /\ \A q \in Readers \ {r} : reader'[q] = reader[q]
    BY <1>8 DEF SetCache, Reads, CachesTypeOK
  <2> QED
    BY <1>2, <2>1, <2>3, <2>4 DEF Orderly, Older, Keys
<1> QED
  BY <1>1, <1>3, <1>5, <1>6, <1>7, <1>8 DEF ReaderStep

(* A refresh deletes what is older than its write before it ends. *)
LEMMA RefresherFresh ==
    ASSUME CachesTypeOK, FreshInv, NEW p \in Refreshers,
           WriteTransfers(p) \/ RefreshStep(p) \/ RefreshFails(p)
    PROVE  FreshInv'
<1> SUFFICES ASSUME Orderly, ~raced', ~(cacheFailures' > 0)
             PROVE  Orderly'
  <2>1. raced => raced'
    BY DEF WriteTransfers, RefreshStep, DeleteSummary, DeleteGraph, DeleteSnapshot, RefreshFails
  <2>2. cacheFailures' \in {cacheFailures, cacheFailures + 1}
    BY DEF WriteTransfers, RefreshStep, DeleteSummary, DeleteGraph, DeleteSnapshot, RefreshFails
  <2> QED
    BY <2>1, <2>2 DEF FreshInv, CachesTypeOK
<1>1. ~RefreshFails(p)
  BY DEF RefreshFails, CachesTypeOK
<1>2. reader' = reader
  BY <1>1 DEF WriteTransfers, RefreshStep, DeleteSummary, DeleteGraph, DeleteSnapshot
<1>3. \A q \in Refreshers \ {p} : refresher'[q] = refresher[q]
  BY <1>1 DEF WriteTransfers, RefreshStep, DeleteSummary, DeleteGraph, DeleteSnapshot, Deletes,
     CachesTypeOK
<1>4. ~Filling /\ ~Filling'
  <2>1. CASE WriteTransfers(p)
    BY <1>2, <2>1 DEF WriteTransfers, Filling
  <2>2. CASE RefreshStep(p)
    <3>1. Refreshing
      BY <2>2 DEF RefreshStep, DeleteSummary, DeleteGraph, DeleteSnapshot, Refreshing
    <3> QED
      BY <1>2, <3>1 DEF Orderly, Filling
  <2> QED
    BY <1>1, <2>1, <2>2
<1>5. \A r \in Readers : reader'[r].at = "idle"
  BY <1>4 DEF Filling
<1>6. CASE WriteTransfers(p)
  <2>1. refresher'[p] = "summary"
    BY <1>6 DEF WriteTransfers, CachesTypeOK
  <2> QED
    BY <1>4, <1>5, <2>1 DEF Orderly, Refreshing
<1>7. CASE DeleteSummary(p)
  <2>1. /\ refresher[p] = "summary" /\ refresher'[p] = "graph"
        /\ cache'["summary"] = None /\ cache'["graph"] = cache["graph"]
        /\ data' = data /\ snapshot' = snapshot
    BY <1>7 DEF DeleteSummary, Deletes, CachesTypeOK, Keys
  <2> QED
    BY <1>3, <1>4, <1>5, <2>1 DEF Orderly, Older, Refreshing
<1>8. CASE DeleteGraph(p)
  <2>1. /\ refresher[p] = "graph" /\ refresher'[p] = "snapshot"
        /\ cache'["summary"] = cache["summary"] /\ cache'["graph"] = None
        /\ data' = data /\ snapshot' = snapshot
    BY <1>8 DEF DeleteGraph, Deletes, CachesTypeOK, Keys
  <2> QED
    BY <1>3, <1>4, <1>5, <2>1 DEF Orderly, Older, Refreshing
<1>9. CASE DeleteSnapshot(p)
  <2>1. /\ refresher[p] = "snapshot" /\ cache' = cache
        /\ data' = data /\ snapshot' = None
    BY <1>9 DEF DeleteSnapshot
  <2> QED
    BY <1>3, <1>4, <1>5, <2>1 DEF Orderly, Older, Refreshing
<1> QED
  BY <1>1, <1>6, <1>7, <1>8, <1>9 DEF RefreshStep

(* An older summary, one-hop graph or snapshot is left only by a request that met a refresh
   or by a failed call. *)
THEOREM RefreshesAreFresh == CachesSpec => []FreshUnlessRaced
<1>1. CachesInit => FreshInv
  BY DEF CachesInit, FreshInv, Orderly, Older, Filling, Refreshing, Keys
<1>2. CachesTypeOK /\ FreshInv /\ [CachesNext]_cacheVars => FreshInv'
  <2> SUFFICES ASSUME CachesTypeOK, FreshInv, [CachesNext]_cacheVars PROVE FreshInv'
    OBVIOUS
  <2>1. CASE UNCHANGED cacheVars
    BY <2>1 DEF cacheVars, FreshInv, Orderly, Older, Filling, Refreshing
  <2>2. ASSUME NEW k \in Keys, Expire(k) PROVE FreshInv'
    <3>1. \A j \in Keys : cache'[j] \in {cache[j], None}
      BY <2>2 DEF Expire, CachesTypeOK
    <3> QED
      BY <2>2, <3>1 DEF Expire, FreshInv, Orderly, Older, Filling, Refreshing, Keys
  <2> QED
    BY <2>1, <2>2, ReaderFresh, RefresherFresh DEF CachesNext
<1>3. CachesTypeOK /\ FreshInv => FreshUnlessRaced
  BY DEF FreshInv, Orderly, FreshUnlessRaced, Refreshing, CachesTypeOK
<1> QED
  BY <1>1, <1>2, <1>3, CachesTypeCorrect, PTL DEF CachesSpec
-----------------------------------------------------------------------------
(* Where one owner has subscribed the types are right too. *)
LEMMA SubscribedStarts == Subscribed => BillingInv
<1> SUFFICES ASSUME Subscribed PROVE BillingInv
  OBVIOUS
<1> DEFINE o == CHOOSE o \in Owners : TRUE
           e == [owner |-> o, sub |-> 1, is |-> First, named |-> TRUE]
<1>1. o \in Owners /\ First \in Subscriptions /\ First.status = "active" /\ First.tier \in PaidTiers
  BY SubscribedAssumption DEF First, Subscriptions, Statuses
<1>2. 1 \in Names /\ MaxChanges \in Nat
  BY SubscribedAssumption DEF Names
<1>3. e \in Events /\ e.owner = o /\ e.sub = 1
  BY <1>1, <1>2 DEF Events
<1>4. /\ stripe = [p \in Owners |-> IF p = o THEN <<First>> ELSE <<>>]
      /\ sent = <<e>> /\ delivered = {1}
  BY DEF Subscribed
<1>5. account = [p \in Owners |->
                    IF p = o THEN [status |-> "active", tier |-> First.tier, names |-> 1]
                    ELSE NoAccount]
  BY DEF Subscribed
<1>6. subscriptionRow = [p \in Owners |-> [n \in Names |->
                            IF p = o /\ n = 1 THEN First ELSE NoSubscription]]
  BY DEF Subscribed
<1>7. activated = [p \in Owners |-> IF p = o THEN 1 ELSE 0] /\ stalest \in SetToSeqs(Owners)
  BY DEF Subscribed
<1>8. /\ hookAt = [h \in Hooks |-> "idle"] /\ event = [h \in Hooks |-> 0]
      /\ existing = [h \in Hooks |-> NoAccount]
      /\ syncAt = "idle" /\ batch = <<>> /\ fetched = NoSubscription
      /\ repeats = 0 /\ billingFailures = 0
  BY DEF Subscribed
<1> HIDE DEF o, e
<1>9. /\ sent \in Seq(Events) /\ DOMAIN sent = {1} /\ sent[1] = e /\ Len(sent) = 1
  BY <1>3, <1>4
<1>10. /\ stripe \in [Owners -> Seq(Subscriptions)] /\ DOMAIN stripe[o] = {1}
       /\ \A p \in Owners : Len(stripe[p]) <= 1
  BY <1>1, <1>4
<1>11. 0 \in 0..MaxRepeats /\ 0 \in 0..MaxBillingFailures
  BY BillingAssumption
<1>12. StripeOK
  BY <1>3, <1>4, <1>8, <1>9, <1>10, <1>11 DEF StripeOK
<1>13. NoSubscription \in Answers /\ NoAccount \in Accounts /\ NoAccount.names = NoName
  BY DEF Answers, NoAccount, Accounts, Tiers
<1>14. HooksOK
  BY <1>8, <1>13 DEF HooksOK
<1>15. SyncOK
  BY <1>8, <1>13 DEF SyncOK
<1>16. [status |-> "active", tier |-> First.tier, names |-> 1] \in Accounts
  BY <1>1, <1>2 DEF Accounts, Statuses, Tiers
<1>17. account \in [Owners -> Accounts]
  BY <1>5, <1>13, <1>16
<1>18. \A p \in Owners : account[p].names \in {NoName} \cup DOMAIN stripe[p]
  BY <1>5, <1>10, <1>13
<1>19. subscriptionRow \in [Owners -> [Names -> Answers]]
  BY <1>1, <1>6, <1>13 DEF Answers
<1>20. stalest \in Orders /\ activated \in [Owners -> Nat]
  BY <1>7, FirstOrders
<1>21. TablesOK
  BY <1>8, <1>11, <1>17, <1>18, <1>19, <1>20 DEF TablesOK
<1> QED
  BY <1>12, <1>14, <1>15, <1>21, BillingParts

(* Each part keeps what it keeps alone. *)
LEMMA ServicesParts == ServicesSpec => []BillingInv /\ AlertSpec /\ CachesSpec
<1>1. ServicesInit => BillingInv /\ AlertInit /\ CachesInit
  BY SubscribedStarts, BillingStarts DEF ServicesInit
<1>2. [ServicesNext]_serviceVars
         => [BillingNext]_billingVars /\ [AlertNext]_alertVars /\ [CachesNext]_cacheVars
  BY DEF ServicesNext, BillingPart, AlertPart, CachePart, serviceVars
<1> QED
  BY <1>1, <1>2, BillingKeeps, PTL DEF ServicesSpec, AlertSpec, CachesSpec

(* All three parts keep their types. *)
THEOREM ServicesTypes == ServicesSpec => []ServicesTypeOK
<1>1. BillingInv /\ AlertTypeOK /\ CachesTypeOK => ServicesTypeOK
  BY DEF ServicesTypeOK, BillingInv
<1> QED
  BY <1>1, ServicesParts, AlertTypes, CachesTypeCorrect, PTL

(* The cooldown of a rule, the messages of a channel and the freshness of what is cached hold
   of the services together. *)
THEOREM ServicesKeep == ServicesSpec => [](CooldownKept /\ DeliveredPerFailure /\ FreshUnlessRaced)
BY ServicesParts, CooldownHolds, DeliveryHolds, RefreshesAreFresh, PTL
=============================================================================
