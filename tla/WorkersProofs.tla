--------------------------- MODULE WorkersProofs ----------------------------
(***************************************************************************)
(* Proofs about what workers do: BackfillQueue, for any workers, requests, *)
(* wallets, retry delays and number of failures; WalletTracking, for any   *)
(* wallets, any number of overlapping runs, any limit and any number of    *)
(* failed calls; and that both together behave as each does alone.         *)
(***************************************************************************)
EXTENDS MCWorkers, FiniteSetTheorems, TLAPS

(* When a job may be due: at a moment, or a retry's delay after one. *)
Dues == Nat \cup {c + RetryDelay(n) : c \in Nat, n \in Nat \ {0}}

(* The jobs that lists and workers hold have been issued. *)
Entries == [id : Nat \ {0}, wallet : Wallets, source : Sources, seed : BOOLEAN,
            depth : {1, 2}, tries : Nat, due : Dues]

(* A worker holds a job exactly when its label says so, and expands one of depth 2. *)
Holds(w) ==
    /\ pc[w] \in {"idle", "pop"} <=> hand[w] = NoJob
    /\ pc[w] \in {"expand", "child", "release"} => todo[w] # <<>> /\ hand[w].depth = 2

TypeInv ==
    /\ status \in [Wallets -> Statuses]
    /\ queue \in [Lists -> Seq(Entries)]
    /\ keys \in SUBSET Keys /\ abandoned \in SUBSET Keys
    /\ clock \in Nat /\ issued \in Nat
    /\ asking \in [Requests -> {"start", "enqueue", "done"}]
    /\ pc \in [Workers -> Labels]
    /\ hand \in [Workers -> Entries \cup {NoJob}]
    /\ \A w \in Workers : Holds(w)
    /\ began \in [Workers -> Nat] /\ left \in [Workers -> Nat]
    /\ reading \in [Workers -> Lists]
    /\ todo \in [Workers -> Seq(Wallets)]
    /\ failures \in 0..MaxFailures
    /\ backfilled \in SUBSET Wallets
    /\ done \in SUBSET Nat /\ lost \in SUBSET Nat
    /\ children \in [ExpansionKeys -> Nat]
    /\ owed \in [Workers -> SUBSET Nat]
-----------------------------------------------------------------------------
(* Lists of jobs *)

(* The names of a list's jobs. *)
IdsIn(s) == {s[i].id : i \in DOMAIN s}

(* No job is twice in a list. *)
Distinct(s) == \A i, j \in DOMAIN s : s[i].id = s[j].id => i = j

(* A job at the tail: one name more, and still none twice if it is new. *)
LEMMA AppendIds ==
    ASSUME NEW s \in Seq(Entries), NEW e \in Entries
    PROVE  /\ Append(s, e) \in Seq(Entries)
           /\ IdsIn(Append(s, e)) = IdsIn(s) \cup {e.id}
           /\ Distinct(s) /\ e.id \notin IdsIn(s) => Distinct(Append(s, e))
<1> DEFINE t == Append(s, e)
<1>1. /\ t \in Seq(Entries) /\ DOMAIN t = 1..(Len(s) + 1) /\ DOMAIN s = 1..Len(s)
      /\ Len(s) \in Nat /\ t[Len(s) + 1] = e
      /\ \A i \in 1..Len(s) : t[i] = s[i]
  OBVIOUS
<1> HIDE DEF t
<1>2. IdsIn(t) = IdsIn(s) \cup {e.id}
  <2>1. \A i \in DOMAIN t : t[i].id \in IdsIn(s) \cup {e.id}
    BY <1>1 DEF IdsIn
  <2>2. \A i \in DOMAIN s : s[i].id \in IdsIn(t)
    BY <1>1 DEF IdsIn
  <2>3. e.id \in IdsIn(t)
    BY <1>1 DEF IdsIn
  <2> QED
    BY <2>1, <2>2, <2>3 DEF IdsIn
<1>3. ASSUME Distinct(s), e.id \notin IdsIn(s) PROVE Distinct(t)
  BY <1>1, <1>3 DEF Distinct, IdsIn
<1> QED
  BY <1>1, <1>2, <1>3 DEF t

(* Without the head: its name is gone, if no job is twice in the list. *)
LEMMA TailIds ==
    ASSUME NEW s \in Seq(Entries), s # <<>>
    PROVE  /\ Tail(s) \in Seq(Entries) /\ Head(s) \in Entries /\ Head(s).id \in IdsIn(s)
           /\ \A i \in DOMAIN Tail(s) : i + 1 \in DOMAIN s /\ Tail(s)[i] = s[i + 1]
           /\ Distinct(s) => /\ Distinct(Tail(s))
                             /\ IdsIn(Tail(s)) = IdsIn(s) \ {Head(s).id}
<1> DEFINE t == Tail(s)
<1>1. /\ t \in Seq(Entries) /\ DOMAIN t = 1..(Len(s) - 1) /\ DOMAIN s = 1..Len(s)
      /\ Len(s) \in Nat \ {0} /\ Head(s) = s[1] /\ Head(s) \in Entries
      /\ \A i \in 1..(Len(s) - 1) : t[i] = s[i + 1]
  OBVIOUS
<1> HIDE DEF t
<1>2. Head(s).id \in IdsIn(s)
  BY <1>1 DEF IdsIn
<1>3. \A i \in DOMAIN t : i + 1 \in DOMAIN s /\ t[i] = s[i + 1]
  BY <1>1
<1>4. ASSUME Distinct(s) PROVE Distinct(t) /\ IdsIn(t) = IdsIn(s) \ {Head(s).id}
  <2>1. Distinct(t)
    BY <1>1, <1>3, <1>4 DEF Distinct
  <2>2. \A i \in DOMAIN t : t[i].id \in IdsIn(s) \ {Head(s).id}
    BY <1>1, <1>3, <1>4 DEF IdsIn, Distinct
  <2>3. \A i \in DOMAIN s : s[i].id \in IdsIn(t) \cup {Head(s).id}
    <3> TAKE i \in DOMAIN s
    <3>1. CASE i = 1
      BY <1>1, <3>1
    <3>2. CASE i # 1
      <4>1. i - 1 \in DOMAIN t /\ t[i - 1] = s[i]
        BY <1>1, <3>2
      <4> QED
        BY <4>1 DEF IdsIn
    <3> QED
      BY <3>1, <3>2
  <2> QED
    BY <2>1, <2>2, <2>3 DEF IdsIn
<1> QED
  BY <1>1, <1>2, <1>3, <1>4 DEF t
-----------------------------------------------------------------------------
(* Types *)

(* New jobs, and jobs that come back, are due at one of these. *)
LEMMA Delays ==
    ASSUME NEW c \in Nat, NEW n \in Nat \ {0}
    PROVE  c \in Dues /\ c + RetryDelay(n) \in Dues
BY DEF Dues

(* Counterparties that are ranked are wallets. *)
LEMMA RankedLists ==
    ASSUME NEW w \in Wallets
    PROVE  \A s \in Ranked(w) : s \in Seq(Wallets)
<1>1. Neighbors[w] \subseteq Wallets
  BY WalletAssumption
<1>2. \A n \in 0..maxQueuedExpansionCounterparties : \A s \in [1..n -> Neighbors[w]] : s \in Seq(Wallets)
  BY <1>1 DEF maxQueuedExpansionCounterparties
<1> QED
  BY <1>2 DEF Ranked

(* At first no list and no hand holds a job. *)
LEMMA TypeInit == QueueInit => TypeInv
<1> SUFFICES ASSUME QueueInit PROVE TypeInv
  OBVIOUS
<1>1. 0 \in 0..MaxFailures
  BY BoundsAssumption
<1>2. children \in [ExpansionKeys -> Nat]
  BY DEF QueueInit
<1>3. status \in [Wallets -> Statuses]
  BY DEF QueueInit, StatusInit, Statuses
<1>4. \A w \in Workers : Holds(w)
  BY DEF QueueInit, Holds
<1>5. queue \in [Lists -> Seq(Entries)]
  BY DEF QueueInit
<1> QED
  BY <1>1, <1>2, <1>3, <1>4, <1>5 DEF QueueInit, TypeInv, Labels, Lists

(* A job that has just been issued is appended to a list. *)
Adds(l, e) ==
    /\ l \in Lists /\ e \in Entries /\ e.id = issued + 1
    /\ queue' = [queue EXCEPT ![l] = Append(@, e)]
    /\ owed' = [w \in Workers |-> owed[w] \ {e.id}]
    /\ issued' = issued + 1

(* A request or a batch that enqueues appends one new job to one list. *)
LEMMA IssueAdds ==
    ASSUME TypeInv, NEW w \in Wallets, NEW source \in Sources, NEW seed \in BOOLEAN,
           NEW depth \in {1, 2}, NEW tries \in Nat, Issue(w, source, seed, depth, tries)
    PROVE  \E l \in Lists, e \in Entries : Adds(l, e)
<1> DEFINE e == [id |-> issued + 1, wallet |-> w, source |-> source, seed |-> seed,
                 depth |-> depth, tries |-> tries, due |-> clock]
<1>1. e \in Entries /\ e.id = issued + 1
  <2>1. issued + 1 \in Nat \ {0} /\ clock \in Dues
    BY Delays DEF TypeInv
  <2> QED
    BY <2>1 DEF Entries
<1>2. ListOf(e) \in Lists
  BY DEF ListOf, Lists
<1>3. PutAt(ListOf(e), e) /\ issued' = issued + 1
  BY DEF Issue
<1> HIDE DEF e
<1>4. Adds(ListOf(e), e)
  BY <1>1, <1>2, <1>3 DEF PutAt, Adds
<1> QED
  BY <1>1, <1>2, <1>4

(* That keeps the types of the lists and of what the polls owe. *)
LEMMA AddsTypes ==
    ASSUME TypeInv, NEW l \in Lists, NEW e \in Entries, Adds(l, e)
    PROVE  /\ queue' \in [Lists -> Seq(Entries)]
           /\ owed' \in [Workers -> SUBSET Nat] /\ issued' \in Nat
<1>1. \A s \in Seq(Entries) : Append(s, e) \in Seq(Entries)
  OBVIOUS
<1>2. queue' \in [Lists -> Seq(Entries)]
  BY <1>1 DEF TypeInv, Adds
<1> QED
  BY <1>2 DEF TypeInv, Adds

(* What a request asks for is of its kind. *)
LEMMA RequestTypes ==
    ASSUME NEW r \in Requests
    PROVE  /\ RequestOf[r].wallet \in Wallets /\ RequestOf[r].source \in Sources
           /\ RequestOf[r].depth \in {1, 2} /\ RequestKey(r) \in Keys
BY RequestAssumption DEF RequestKey, Keys, Sources

(* A request enqueues one new job. *)
LEMMA IssueRequestAdds ==
    ASSUME TypeInv, NEW r \in Requests, IssueRequest(r)
    PROVE  \E l \in Lists, e \in Entries : Adds(l, e)
<1>1. (RequestOf[r].source = "seed_list") \in BOOLEAN /\ 0 \in Nat
  OBVIOUS
<1> QED
  BY <1>1, RequestTypes, IssueAdds DEF IssueRequest

(* What a worker that expands holds. *)
LEMMA ExpandTypes ==
    ASSUME TypeInv, NEW w \in Workers, pc[w] \in {"expand", "child", "release"}
    PROVE  /\ hand[w] \in Entries /\ todo[w] \in Seq(Wallets) /\ todo[w] # <<>>
           /\ Head(todo[w]) \in Wallets /\ Tail(todo[w]) \in Seq(Wallets)
           /\ hand[w].wallet \in Wallets /\ hand[w].depth = 2
           /\ ExpansionKey(hand[w], Head(todo[w])) \in ExpansionKeys \cap Keys
<1>1. hand[w] \in Entries /\ todo[w] \in Seq(Wallets) /\ todo[w] # <<>> /\ hand[w].depth = 2
  BY DEF TypeInv, Holds
<1>2. Head(todo[w]) \in Wallets /\ Tail(todo[w]) \in Seq(Wallets)
  BY <1>1
<1>3. hand[w].wallet \in Wallets
  BY <1>1 DEF Entries
<1> QED
  BY <1>1, <1>2, <1>3 DEF ExpansionKey, ExpansionKeys, Keys

(* A batch enqueues one new job for a counterparty. *)
LEMMA IssueChildAdds ==
    ASSUME TypeInv, NEW w \in Workers, pc[w] = "child", IssueChild(w)
    PROVE  \E l \in Lists, e \in Entries : Adds(l, e)
<1>1. /\ Head(todo[w]) \in Wallets /\ hand[w] \in Entries /\ hand[w].depth - 1 \in {1, 2}
  BY ExpandTypes
<1>2. hand[w].seed \in BOOLEAN /\ hand[w].tries \in Nat /\ "expansion" \in Sources
  BY <1>1 DEF Entries, Sources
<1>3. Issue(Head(todo[w]), "expansion", hand[w].seed, hand[w].depth - 1, hand[w].tries)
  BY DEF IssueChild
<1> QED
  BY <1>1, <1>2, <1>3, IssueAdds
-----------------------------------------------------------------------------
(* Each step keeps the types. *)

(* An upsert of a wallet's row. *)
LEMMA StatusTypes ==
    ASSUME TypeInv, NEW w \in Wallets,
           \/ RecordWalletCandidate(w) \/ MarkWalletTracked(w, Evidence[w]) \/ UNCHANGED status
    PROVE  status' \in [Wallets -> Statuses]
<1>1. Evidence[w] \in Statuses
  BY WalletAssumption DEF Statuses
<1>2. \A s \in Statuses : CandidateStatus(s) \in Statuses /\ ProgressStatus(s, Evidence[w]) \in Statuses
  BY <1>1 DEF CandidateStatus, ProgressStatus, Statuses
<1>3. status \in [Wallets -> Statuses] /\ status[w] \in Statuses
  BY DEF TypeInv
<1>4. CASE RecordWalletCandidate(w)
  <2>1. status' = [status EXCEPT ![w] = CandidateStatus(status[w])]
    BY <1>4 DEF RecordWalletCandidate
  <2> QED
    BY <1>2, <1>3, <2>1
<1>5. CASE MarkWalletTracked(w, Evidence[w])
  <2>1. status' = [status EXCEPT ![w] = ProgressStatus(status[w], Evidence[w])]
    BY <1>5 DEF MarkWalletTracked
  <2> QED
    BY <1>2, <1>3, <2>1
<1> QED
  BY <1>3, <1>4, <1>5

(* Requests, and their failures, keep the types. *)
LEMMA RequestKeeps ==
    ASSUME TypeInv, NEW r \in Requests,
           RequestStep(r) \/ RequestFails(r) \/ ClaimRequestFails(r)
    PROVE  TypeInv'
<1>1. RequestOf[r].wallet \in Wallets /\ RequestKey(r) \in Keys
  BY RequestTypes
<1>2. status' \in [Wallets -> Statuses]
  BY <1>1, StatusTypes
     DEF RequestStep, ClaimRequest, EnqueueRequest, RequestFails, ClaimRequestFails
<1>3. /\ queue' \in [Lists -> Seq(Entries)] /\ owed' \in [Workers -> SUBSET Nat]
      /\ issued' \in Nat
  <2>1. IssueRequest(r) \/ UNCHANGED <<queue, issued, owed>>
    BY DEF RequestStep, ClaimRequest, EnqueueRequest, RequestFails, ClaimRequestFails
  <2> QED
    BY <2>1, IssueRequestAdds, AddsTypes DEF TypeInv
<1>4. failures' \in 0..MaxFailures
  BY BoundsAssumption
     DEF TypeInv, RequestStep, ClaimRequest, EnqueueRequest, RequestFails, ClaimRequestFails,
        CountFailure
<1>5. keys' \in SUBSET Keys /\ abandoned' \in SUBSET Keys
  BY <1>1 DEF TypeInv, RequestStep, ClaimRequest, EnqueueRequest, RequestFails, ClaimRequestFails
<1>6. asking' \in [Requests -> {"start", "enqueue", "done"}]
  BY DEF TypeInv, RequestStep, ClaimRequest, EnqueueRequest, RequestFails, ClaimRequestFails, Ask
<1>7. UNCHANGED <<clock, pc, hand, began, reading, left, todo, done, lost, backfilled, children>>
  BY DEF RequestStep, ClaimRequest, EnqueueRequest, RequestFails, ClaimRequestFails,
         requestFrame, ends
<1> QED
  BY <1>2, <1>3, <1>4, <1>5, <1>6, <1>7 DEF TypeInv, Holds

(* The fields of a job; no job is the absent one. *)
LEMMA EntryTypes ==
    \A e \in Entries : /\ e.id \in Nat \ {0} /\ e.id \in Nat /\ e # NoJob
                        /\ e.wallet \in Wallets /\ e.tries \in Nat
                        /\ e.seed \in BOOLEAN /\ e.source \in Sources
<1>1. NoJob.id = 0
  BY DEF NoJob
<1>2. \A e \in Entries : /\ e.id \in Nat \ {0} /\ e.wallet \in Wallets /\ e.tries \in Nat
                          /\ e.seed \in BOOLEAN /\ e.source \in Sources
  BY DEF Entries
<1> QED
  BY <1>1, <1>2

(* A worker that is not between jobs holds one. *)
LEMMA BusyHolds ==
    ASSUME TypeInv, NEW w \in Workers, pc[w] \notin {"idle", "pop"}
    PROVE  /\ hand[w] \in Entries /\ hand[w] # NoJob
           /\ hand[w].wallet \in Wallets /\ hand[w].id \in Nat \ {0}
<1>1. hand[w] \in Entries /\ hand[w] # NoJob
  BY DEF TypeInv, Holds
<1> QED
  BY <1>1, EntryTypes

(* A poll that returns resets its variables. *)
LEMMA EndPollTypes ==
    ASSUME TypeInv, NEW w \in Workers, EndPoll(w)
    PROVE  /\ began' \in [Workers -> Nat] /\ left' \in [Workers -> Nat]
           /\ reading' \in [Workers -> Lists] /\ owed' \in [Workers -> SUBSET Nat]
BY DEF TypeInv, EndPoll, Lists

(* A worker that is done with its job has none. *)
LEMMA RestTypes ==
    ASSUME TypeInv, NEW w \in Workers, Rest(w)
    PROVE  /\ hand' \in [Workers -> Entries \cup {NoJob}] /\ pc' \in [Workers -> Labels]
           /\ todo' \in [Workers -> Seq(Wallets)]
BY DEF TypeInv, Rest, Goto, Labels

(* A poll that counts a list notes how long it is. *)
LEMMA CountTypes ==
    ASSUME TypeInv, NEW w \in Workers, NEW l \in Lists, Count(w, l)
    PROVE  /\ left' \in [Workers -> Nat] /\ reading' \in [Workers -> Lists]
           /\ owed' \in [Workers -> SUBSET Nat]
<1>1. queue[l] \in Seq(Entries)
  BY DEF TypeInv
<1>2. Len(queue[l]) \in Nat
  BY <1>1
<1>3. {queue[l][i].id : i \in DOMAIN queue[l]} \in SUBSET Nat
  <2>1. \A i \in DOMAIN queue[l] : queue[l][i] \in Entries
    BY <1>1
  <2> QED
    BY <2>1, EntryTypes
<1> QED
  BY <1>2, <1>3 DEF TypeInv, Count

(* The head of a list leaves it. *)
LEMMA TailTypes ==
    ASSUME TypeInv, NEW l \in Lists, queue[l] # <<>>,
           queue' = [queue EXCEPT ![l] = Tail(@)]
    PROVE  queue' \in [Lists -> Seq(Entries)] /\ Head(queue[l]) \in Entries
<1>1. queue[l] \in Seq(Entries)
  BY DEF TypeInv
<1>2. Tail(queue[l]) \in Seq(Entries) /\ Head(queue[l]) \in Entries
  BY <1>1, TailIds
<1> QED
  BY <1>2 DEF TypeInv

(* A job is appended to a list. *)
LEMMA PutAtTypes ==
    ASSUME TypeInv, NEW l \in Lists, NEW e \in Entries, PutAt(l, e)
    PROVE  queue' \in [Lists -> Seq(Entries)] /\ owed' \in [Workers -> SUBSET Nat]
<1>1. Append(queue[l], e) \in Seq(Entries)
  BY AppendIds DEF TypeInv
<1> QED
  BY <1>1 DEF TypeInv, PutAt

(* Polls, and their failures, keep the types. *)
LEMMA PollKeeps ==
    ASSUME TypeInv, NEW w \in Workers,
           Poll(w) \/ NextList(w) \/ Pop(w) \/ PushBack(w) \/ PollFails(w) \/ PopFails(w)
    PROVE  TypeInv'
<1>1. CASE Poll(w)
  <2>1. ReadFirst \in Lists
    BY DEF ReadFirst, Lists
  <2>2. /\ left' \in [Workers -> Nat] /\ reading' \in [Workers -> Lists]
        /\ owed' \in [Workers -> SUBSET Nat]
    BY <1>1, <2>1, CountTypes DEF Poll
  <2>3. pc' \in [Workers -> Labels] /\ began' \in [Workers -> Nat]
    BY <1>1 DEF Poll, Goto, TypeInv, Labels
  <2>4. \A v \in Workers : Holds(v)'
    BY <1>1 DEF Poll, Goto, TypeInv, Holds, ends
  <2>5. /\ UNCHANGED <<status, keys, abandoned, clock, issued, asking, hand, todo>>
        /\ UNCHANGED <<queue, failures, backfilled, done, lost, children>>
    BY <1>1 DEF Poll, workerFrame, ends
  <2> QED
    BY ONLY TypeInv, <2>2, <2>3, <2>4, <2>5 DEF TypeInv
<1>2. CASE NextList(w)
  <2>1. /\ left' \in [Workers -> Nat] /\ reading' \in [Workers -> Lists]
        /\ owed' \in [Workers -> SUBSET Nat] /\ began' \in [Workers -> Nat]
    BY <1>2, CountTypes, EndPollTypes DEF NextList, TypeInv
  <2>2. pc' \in [Workers -> Labels]
    <3>1. pc' = pc \/ pc' = [pc EXCEPT ![w] = "idle"]
      BY <1>2 DEF NextList, Goto
    <3> QED
      BY <3>1 DEF TypeInv, Labels
  <2>3. \A v \in Workers : Holds(v)'
    BY <1>2 DEF NextList, Goto, TypeInv, Holds
  <2> QED
    BY <1>2, <2>1, <2>2, <2>3 DEF NextList, TypeInv, workerFrame, ends
<1>3. CASE Pop(w)
  <2>1. reading[w] \in Lists
    BY DEF TypeInv
  <2>2. queue' \in [Lists -> Seq(Entries)] /\ Head(queue[reading[w]]) \in Entries
    BY <1>3, <2>1, TailTypes DEF Pop
  <2>3. hand' \in [Workers -> Entries \cup {NoJob}]
    BY <1>3, <2>2 DEF Pop, TypeInv
  <2>4. Head(queue[reading[w]]) # NoJob
    BY <2>2 DEF Entries, NoJob
  <2>5. \A v \in Workers : Holds(v)'
    BY <1>3, <2>4 DEF Pop, Goto, TypeInv, Holds
  <2>6. /\ left' \in [Workers -> Nat] /\ reading' \in [Workers -> Lists]
        /\ owed' \in [Workers -> SUBSET Nat] /\ began' \in [Workers -> Nat]
    <3>1. CASE EndPoll(w)
      BY <3>1, EndPollTypes
    <3>2. CASE UNCHANGED <<began, reading, owed>> /\ left' = [left EXCEPT ![w] = @ - 1]
      <4>1. left[w] - 1 \in Nat /\ left \in [Workers -> Nat]
        BY <1>3 DEF Pop, TypeInv
      <4>2. left' \in [Workers -> Nat]
        BY <3>2, <4>1
      <4> QED
        BY <3>2, <4>2 DEF TypeInv
    <3> QED
      BY <1>3, <3>1, <3>2 DEF Pop
  <2>7. pc' \in [Workers -> Labels]
    BY <1>3 DEF Pop, Goto, TypeInv, Labels
  <2> QED
    BY <1>3, <2>2, <2>3, <2>5, <2>6, <2>7 DEF Pop, TypeInv, workerFrame, ends
<1>4. CASE PushBack(w)
  <2>1. reading[w] \in Lists /\ hand[w] \in Entries
    BY <1>4, BusyHolds DEF TypeInv, PushBack
  <2>2. queue' \in [Lists -> Seq(Entries)] /\ owed' \in [Workers -> SUBSET Nat]
    BY <1>4, <2>1, PutAtTypes DEF PushBack
  <2>3. hand' \in [Workers -> Entries \cup {NoJob}] /\ pc' \in [Workers -> Labels]
    BY <1>4 DEF PushBack, Goto, TypeInv, Labels
  <2>4. \A v \in Workers : Holds(v)'
    BY <1>4 DEF PushBack, Goto, TypeInv, Holds
  <2> QED
    BY <1>4, <2>2, <2>3, <2>4 DEF PushBack, TypeInv, workerFrame, ends
<1>5. ASSUME PollFails(w) \/ PopFails(w) PROVE TypeInv'
  <2>1. /\ left' \in [Workers -> Nat] /\ reading' \in [Workers -> Lists]
        /\ owed' \in [Workers -> SUBSET Nat] /\ began' \in [Workers -> Nat]
    BY <1>5, EndPollTypes DEF PollFails, PopFails
  <2>2. /\ hand' \in [Workers -> Entries \cup {NoJob}] /\ pc' \in [Workers -> Labels]
        /\ todo' \in [Workers -> Seq(Wallets)]
    <3>1. Goto(w, "idle") /\ (Rest(w) \/ UNCHANGED <<hand, todo>>)
      BY <1>5 DEF PollFails, PopFails, LoseJob, Rest
    <3> QED
      BY <3>1, RestTypes DEF Goto, TypeInv, Labels
  <2>3. \A v \in Workers : Holds(v)'
    BY <1>5 DEF PollFails, PopFails, LoseJob, Rest, Goto, TypeInv, Holds
  <2>4. failures' \in 0..MaxFailures
    BY <1>5, BoundsAssumption DEF PollFails, PopFails, CountFailure, TypeInv
  <2>5. queue' \in [Lists -> Seq(Entries)] /\ lost' \in SUBSET Nat
    <3>1. CASE PollFails(w)
      <4>1. UNCHANGED lost \/ (pc[w] = "push" /\ lost' = lost \cup {hand[w].id})
        BY <3>1 DEF PollFails, LoseJob
      <4>2. pc[w] = "push" => hand[w].id \in Nat
        BY BusyHolds
      <4>3. lost' \in SUBSET Nat
        BY <4>1, <4>2 DEF TypeInv
      <4> QED
        BY <3>1, <4>3 DEF PollFails, TypeInv
    <3>2. CASE PopFails(w)
      <4>1. reading[w] \in Lists
        BY DEF TypeInv
      <4>2. queue' \in [Lists -> Seq(Entries)] /\ Head(queue[reading[w]]) \in Entries
        BY <3>2, <4>1, TailTypes DEF PopFails
      <4> QED
        BY <3>2, <4>2 DEF PopFails, TypeInv, Entries
    <3> QED
      BY <1>5, <3>1, <3>2
  <2> QED
    BY <1>5, <2>1, <2>2, <2>3, <2>4, <2>5 DEF PollFails, PopFails, TypeInv, workerFrame, ends
<1> QED
  BY <1>1, <1>2, <1>3, <1>4, <1>5

(* How a batch may end: it waits to be retried, or its job is lost. *)
LEMMA BatchEndsTypes ==
    ASSUME TypeInv, NEW w \in Workers, pc[w] \notin {"idle", "pop"}, BatchEnds(w)
    PROVE  /\ hand' \in [Workers -> Entries \cup {NoJob}] /\ pc' \in [Workers -> Labels]
           /\ todo' \in [Workers -> Seq(Wallets)] /\ lost' \in SUBSET Nat
           /\ \A v \in Workers : Holds(v)'
<1>1. hand[w].id \in Nat /\ hand[w] # NoJob
  BY BusyHolds
<1>2. CASE Goto(w, "retry") /\ UNCHANGED <<hand, todo, lost>>
  BY <1>1, <1>2 DEF Goto, TypeInv, Labels, Holds
<1>3. CASE LoseJob(w)
  <2>1. Rest(w) /\ lost' \in SUBSET Nat
    BY <1>1, <1>3 DEF LoseJob, TypeInv
  <2>2. \A v \in Workers : Holds(v)'
    BY <2>1 DEF Rest, Goto, TypeInv, Holds
  <2> QED
    BY <2>1, <2>2, RestTypes
<1> QED
  BY <1>2, <1>3 DEF BatchEnds

(* A job that waits again is the same job. *)
LEMMA RequeuePuts ==
    ASSUME TypeInv, NEW w \in Workers, Requeue(w)
    PROVE  \E l \in Lists, e \in Entries : e.id = hand[w].id /\ PutAt(l, e)
<1>1. hand[w] \in Entries
  BY BusyHolds DEF Requeue
<1>2. PICK again : /\ again = [hand[w] EXCEPT !.tries = @ + 1,
                                              !.due = clock + RetryDelay(hand[w].tries + 1)]
                   /\ PutAt(ListOf(again), again)
  BY DEF Requeue
<1>3. again \in Entries /\ again.id = hand[w].id
  <2>1. /\ hand[w].tries + 1 \in Nat \ {0}
        /\ clock + RetryDelay(hand[w].tries + 1) \in Dues
    BY <1>1, EntryTypes, Delays DEF TypeInv
  <2> QED
    BY <1>1, <1>2, <2>1 DEF Entries
<1>4. ListOf(again) \in Lists
  BY DEF ListOf, Lists
<1> QED
  BY <1>2, <1>3, <1>4

(* The next counterparty, if there is one. *)
LEMMA AfterChildLabels ==
    ASSUME NEW s PROVE AfterChild(s) \in {"finish", "expand"} /\ (AfterChild(s) = "expand" => s # <<>>)
BY DEF AfterChild

(* Batches keep the types. *)
LEMMA BatchKeeps ==
    ASSUME TypeInv, NEW w \in Workers,
           Ingest(w) \/ ClaimChild(w) \/ EnqueueChild(w) \/ Finish(w) \/ Requeue(w)
    PROVE  TypeInv'
<1>0. pc[w] \notin {"idle", "pop"}
  BY DEF Ingest, ClaimChild, EnqueueChild, Finish, Requeue
<1>1. CASE Ingest(w)
  <2>1. hand[w].wallet \in Wallets /\ hand[w] \in Entries /\ hand[w] # NoJob
    BY <1>0, BusyHolds
  <2>2. status' \in [Wallets -> Statuses]
    BY <1>1, <2>1, StatusTypes DEF Ingest
  <2>3. PICK found \in Expansions(hand[w]) : todo' = [todo EXCEPT ![w] = found]
    BY <1>1 DEF Ingest
  <2>4. found \in Seq(Wallets) /\ (found # <<>> => hand[w].depth = 2)
    <3>1. <<>> \in Seq(Wallets)
      OBVIOUS
    <3>2. hand[w].depth \in {1, 2}
      BY <2>1 DEF Entries
    <3> QED
      BY <2>1, <3>1, <3>2, RankedLists DEF Expansions
  <2>5. todo' \in [Workers -> Seq(Wallets)] /\ todo'[w] = found
    BY <2>3, <2>4 DEF TypeInv
  <2>6. pc' = [pc EXCEPT ![w] = AfterChild(found)]
    BY <1>1, <2>5 DEF Ingest, Goto
  <2>7. pc' \in [Workers -> Labels]
    BY <2>6, AfterChildLabels DEF TypeInv, Labels
  <2>8. \A v \in Workers : Holds(v)'
    <3> TAKE v \in Workers
    <3>1. CASE v = w
      BY <1>1, <2>1, <2>4, <2>5, <2>6, <3>1, AfterChildLabels DEF Ingest, TypeInv, Holds
    <3>2. CASE v # w
      BY <1>1, <2>3, <2>6, <3>2 DEF Ingest, TypeInv, Holds
    <3> QED
      BY <3>1, <3>2
  <2> QED
    BY <1>1, <2>2, <2>5, <2>7, <2>8 DEF Ingest, TypeInv, redis, poll, history
<1>2. CASE ClaimChild(w)
  <2>1. /\ Tail(todo[w]) \in Seq(Wallets) /\ hand[w] \in Entries
        /\ hand[w].depth = 2
        /\ ExpansionKey(hand[w], Head(todo[w])) \in Keys
    BY <1>2, ExpandTypes DEF ClaimChild
  <2>2. keys' \in SUBSET Keys
    BY <1>2, <2>1 DEF ClaimChild, TypeInv
  <2>3. CASE todo' = [todo EXCEPT ![w] = Tail(@)] /\ Goto(w, AfterChild(Tail(todo[w])))
    <3>1. todo' \in [Workers -> Seq(Wallets)] /\ pc' \in [Workers -> Labels]
      BY <2>1, <2>3, AfterChildLabels DEF Goto, TypeInv, Labels
    <3>2. \A v \in Workers : Holds(v)'
      BY <1>2, <2>1, <2>3, AfterChildLabels DEF ClaimChild, Goto, TypeInv, Holds
    <3> QED
      BY <1>2, <2>2, <3>1, <3>2 DEF ClaimChild, TypeInv, poll, history
  <2>4. CASE Goto(w, "child") /\ UNCHANGED todo
    <3>1. pc' \in [Workers -> Labels]
      BY <2>4 DEF Goto, TypeInv, Labels
    <3>2. \A v \in Workers : Holds(v)'
      BY <1>2, <2>4 DEF ClaimChild, Goto, TypeInv, Holds
    <3> QED
      BY <1>2, <2>2, <2>4, <3>1, <3>2 DEF ClaimChild, TypeInv, poll, history
  <2> QED
    BY <1>2, <2>3, <2>4 DEF ClaimChild
<1>3. CASE EnqueueChild(w)
  <2>1. /\ Tail(todo[w]) \in Seq(Wallets) /\ hand[w] \in Entries
        /\ hand[w].depth = 2
        /\ ExpansionKey(hand[w], Head(todo[w])) \in ExpansionKeys
    BY <1>3, ExpandTypes DEF EnqueueChild
  <2>2. /\ queue' \in [Lists -> Seq(Entries)] /\ owed' \in [Workers -> SUBSET Nat]
        /\ issued' \in Nat
    BY <1>3, IssueChildAdds, AddsTypes DEF EnqueueChild
  <2>3. children' \in [ExpansionKeys -> Nat]
    BY <1>3, <2>1 DEF EnqueueChild, IssueChild, TypeInv
  <2>4. todo' \in [Workers -> Seq(Wallets)] /\ pc' \in [Workers -> Labels]
    BY <1>3, <2>1, AfterChildLabels DEF EnqueueChild, Goto, TypeInv, Labels
  <2>5. \A v \in Workers : Holds(v)'
    BY <1>3, <2>1, AfterChildLabels DEF EnqueueChild, Goto, TypeInv, Holds
  <2> QED
    BY <1>3, <2>2, <2>3, <2>4, <2>5 DEF EnqueueChild, TypeInv, ends
<1>4. CASE Finish(w)
  <2>1. hand[w].wallet \in Wallets /\ hand[w].id \in Nat
    BY <1>0, BusyHolds
  <2>2. status' \in [Wallets -> Statuses]
    BY <1>4, <2>1, StatusTypes DEF Finish
  <2>3. done' \in SUBSET Nat /\ backfilled' \in SUBSET Wallets
    BY <1>4, <2>1 DEF Finish, TypeInv
  <2>4. \A v \in Workers : Holds(v)'
    BY <1>4 DEF Finish, Rest, Goto, TypeInv, Holds
  <2> QED
    BY <1>4, <2>2, <2>3, <2>4, RestTypes DEF Finish, TypeInv, redis, poll
<1>5. CASE Requeue(w)
  <2>1. queue' \in [Lists -> Seq(Entries)] /\ owed' \in [Workers -> SUBSET Nat]
    BY <1>5, RequeuePuts, PutAtTypes
  <2>2. \A v \in Workers : Holds(v)'
    BY <1>5 DEF Requeue, Rest, Goto, TypeInv, Holds
  <2> QED
    BY <1>5, <2>1, <2>2, RestTypes DEF Requeue, TypeInv, workerFrame, ends
<1> QED
  BY <1>1, <1>2, <1>3, <1>4, <1>5

(* Failures stay within their bound. *)
LEMMA FailureTypes ==
    ASSUME TypeInv, CountFailure PROVE failures' \in 0..MaxFailures /\ failures' = failures + 1
BY BoundsAssumption DEF CountFailure, TypeInv

(* A worker that loses its job keeps the types. *)
LEMMA LoseJobTypes ==
    ASSUME TypeInv, NEW w \in Workers, pc[w] \notin {"idle", "pop"}, LoseJob(w)
    PROVE  /\ hand' \in [Workers -> Entries \cup {NoJob}] /\ pc' \in [Workers -> Labels]
           /\ todo' \in [Workers -> Seq(Wallets)] /\ lost' \in SUBSET Nat
           /\ \A v \in Workers : Holds(v)'
BY BatchEndsTypes DEF BatchEnds

(* The failures of batches, and crashes, keep the types. *)
LEMMA FailureKeeps ==
    ASSUME TypeInv, NEW w \in Workers,
           \/ ChildFails(w) \/ ReleaseChild(w) \/ ReleaseFails(w) \/ ClaimChildFails(w)
           \/ BatchFails(w) \/ RequeueFails(w) \/ Crash(w)
    PROVE  TypeInv'
<1>1. CASE ChildFails(w)
  <2>1. /\ ExpansionKey(hand[w], Head(todo[w])) \in ExpansionKeys
        /\ todo[w] # <<>> /\ hand[w].depth = 2 /\ hand[w] # NoJob
    BY <1>1, ExpandTypes, EntryTypes DEF ChildFails
  <2>2. /\ queue' \in [Lists -> Seq(Entries)] /\ owed' \in [Workers -> SUBSET Nat]
        /\ issued' \in Nat
    <3>1. CASE IssueChild(w)
      BY <1>1, <3>1, IssueChildAdds, AddsTypes DEF ChildFails
    <3>2. CASE UNCHANGED <<queue, issued, owed, children>>
      BY <3>2 DEF TypeInv
    <3> QED
      BY <1>1, <3>1, <3>2 DEF ChildFails
  <2>3. children' \in [ExpansionKeys -> Nat]
    <3>1. CASE IssueChild(w)
      BY <2>1, <3>1 DEF IssueChild, TypeInv
    <3>2. CASE UNCHANGED <<queue, issued, owed, children>>
      BY <3>2 DEF TypeInv
    <3> QED
      BY <1>1, <3>1, <3>2 DEF ChildFails
  <2>4. pc' \in [Workers -> Labels]
    BY <1>1 DEF ChildFails, Goto, TypeInv, Labels
  <2>5. \A v \in Workers : Holds(v)'
    BY <1>1, <2>1 DEF ChildFails, Goto, TypeInv, Holds
  <2>6. failures' \in 0..MaxFailures
    BY <1>1, FailureTypes DEF ChildFails
  <2> QED
    BY <1>1, <2>2, <2>3, <2>4, <2>5, <2>6 DEF ChildFails, TypeInv, ends
<1>2. CASE ReleaseChild(w) \/ ReleaseFails(w) \/ ClaimChildFails(w)
  <2>1. pc[w] \in {"expand", "release"} /\ BatchEnds(w)
    BY <1>2 DEF ReleaseChild, ReleaseFails, ClaimChildFails
  <2>2. ExpansionKey(hand[w], Head(todo[w])) \in Keys
    BY <2>1, ExpandTypes
  <2>3. keys' \in SUBSET Keys /\ abandoned' \in SUBSET Keys
    BY <1>2, <2>2 DEF ReleaseChild, ReleaseFails, ClaimChildFails, TypeInv, redis
  <2>4. failures' \in 0..MaxFailures
    BY <1>2, FailureTypes DEF ReleaseChild, ReleaseFails, ClaimChildFails, TypeInv
  <2>5. UNCHANGED <<clock, status, asking, queue, issued, poll, done, backfilled, children>>
    BY <1>2 DEF ReleaseChild, ReleaseFails, ClaimChildFails, redis
  <2>6. /\ hand' \in [Workers -> Entries \cup {NoJob}] /\ pc' \in [Workers -> Labels]
        /\ todo' \in [Workers -> Seq(Wallets)] /\ lost' \in SUBSET Nat
        /\ \A v \in Workers : Holds(v)'
    BY <2>1, BatchEndsTypes
  <2> QED
    BY <2>3, <2>4, <2>5, <2>6 DEF TypeInv, poll
<1>3. CASE BatchFails(w)
  <2>1. pc[w] \notin {"idle", "pop"} /\ BatchEnds(w)
    BY <1>3 DEF BatchFails
  <2>2. status' \in [Wallets -> Statuses]
    BY <1>3, <2>1, BusyHolds, StatusTypes DEF BatchFails
  <2>3. failures' \in 0..MaxFailures
    BY <1>3, FailureTypes DEF BatchFails
  <2>4. /\ hand' \in [Workers -> Entries \cup {NoJob}] /\ pc' \in [Workers -> Labels]
        /\ todo' \in [Workers -> Seq(Wallets)] /\ lost' \in SUBSET Nat
        /\ \A v \in Workers : Holds(v)'
    BY <2>1, BatchEndsTypes
  <2>5. /\ UNCHANGED <<keys, abandoned, clock, issued, asking, queue>>
        /\ UNCHANGED <<began, reading, left, owed, backfilled, done, children>>
    BY <1>3 DEF BatchFails, redis, poll
  <2> QED
    BY ONLY TypeInv, <2>2, <2>3, <2>4, <2>5 DEF TypeInv
<1>4. CASE RequeueFails(w)
  <2>1. failures' \in 0..MaxFailures
    BY <1>4, FailureTypes DEF RequeueFails
  <2> QED
    BY <1>4, <2>1, LoseJobTypes DEF RequeueFails, TypeInv, workerFrame, poll
<1>5. CASE Crash(w)
  <2>1. failures' \in 0..MaxFailures
    BY <1>5, FailureTypes DEF Crash
  <2>2. abandoned' \in SUBSET Keys
    <3>1. pc[w] \in {"child", "release"} => ExpansionKey(hand[w], Head(todo[w])) \in Keys
      BY ExpandTypes
    <3> QED
      BY <1>5, <3>1 DEF Crash, TypeInv
  <2>3. /\ hand' \in [Workers -> Entries \cup {NoJob}] /\ pc' \in [Workers -> Labels]
        /\ todo' \in [Workers -> Seq(Wallets)] /\ lost' \in SUBSET Nat
        /\ \A v \in Workers : Holds(v)'
    <3>1. CASE hand[w] = NoJob
      <4>1. pc' = [pc EXCEPT ![w] = "idle"] /\ UNCHANGED <<hand, todo, lost>>
        BY <1>5, <3>1 DEF Crash, Goto
      <4>2. pc' \in [Workers -> Labels]
        BY <4>1 DEF TypeInv, Labels
      <4>3. \A v \in Workers : Holds(v)'
        BY <3>1, <4>1 DEF TypeInv, Holds
      <4> QED
        BY <4>1, <4>2, <4>3 DEF TypeInv
    <3>2. CASE hand[w] # NoJob
      <4>1. pc[w] \notin {"idle", "pop"} /\ LoseJob(w)
        BY <1>5, <3>2 DEF Crash, TypeInv, Holds
      <4> QED
        BY <4>1, LoseJobTypes
    <3> QED
      BY <3>1, <3>2
  <2> QED
    BY <1>5, <2>1, <2>2, <2>3, EndPollTypes DEF Crash, TypeInv, redis
<1> QED
  BY <1>1, <1>2, <1>3, <1>4, <1>5

(* Every step keeps the types. *)
LEMMA TypeNext == TypeInv /\ [QueueNext]_queueVars => TypeInv'
<1> SUFFICES ASSUME TypeInv, [QueueNext]_queueVars PROVE TypeInv'
  OBVIOUS
<1>1. CASE \E r \in Requests : RequestStep(r) \/ RequestFails(r) \/ ClaimRequestFails(r)
  BY <1>1, RequestKeeps
<1>2. ASSUME NEW w \in Workers,
             \/ WorkerStep(w) \/ PollFails(w) \/ PopFails(w) \/ ClaimChildFails(w) \/ ChildFails(w)
             \/ ReleaseFails(w) \/ BatchFails(w) \/ RequeueFails(w) \/ Crash(w)
      PROVE  TypeInv'
  BY <1>2, PollKeeps, BatchKeeps, FailureKeeps DEF WorkerStep
<1>3. CASE Tick
  <2>1. clock + 1 \in Nat
    BY DEF TypeInv
  <2> QED
    BY <1>3, <2>1 DEF Tick, TypeInv, Holds, redis, poll, history
<1>4. CASE UNCHANGED queueVars
  BY <1>4 DEF queueVars, TypeInv, Holds
<1> QED
  BY <1>1, <1>2, <1>3, <1>4 DEF QueueNext

(* The variables keep their types. *)
THEOREM QueueTypes == QueueSpec => []TypeInv
<1>1. TypeInv /\ [QueueNext]_queueVars => TypeInv'
  BY TypeNext
<1> QED
  BY TypeInit, <1>1, PTL DEF QueueSpec

(* The type invariant that the runs check: powers of two are numbers, and there are
   wallets. *)
THEOREM QueueTypesHold ==
    ASSUME Wallets # {}, \A n \in Nat : 2^n \in Nat
    PROVE  QueueSpec => []QueueTypeOK
<1>1. Dues \subseteq Nat
  <2>1. \A n \in Nat \ {0} : RetryDelay(n) \in Nat
    <3> TAKE n \in Nat \ {0}
    <3>1. n - 1 \in Nat
      OBVIOUS
    <3>2. 2^(n - 1) \in Nat
      BY <3>1
    <3>3. RetryBase * 2^(n - 1) \in Nat
      BY <3>2, DelayAssumption
    <3> QED
      BY <3>3, DelayAssumption DEF RetryDelay
  <2> QED
    BY <2>1 DEF Dues
<1>2. TypeInv => QueueTypeOK
  <2> SUFFICES ASSUME TypeInv PROVE QueueTypeOK
    OBVIOUS
  <2>1. Entries \subseteq Jobs /\ NoJob \in Jobs
    BY <1>1 DEF Entries, Jobs, NoJob, Sources
  <2>2. queue \in [Lists -> Seq(Jobs)]
    BY <2>1 DEF TypeInv
  <2>3. hand \in [Workers -> Jobs]
    BY <2>1 DEF TypeInv
  <2> QED
    BY <2>2, <2>3 DEF TypeInv, QueueTypeOK, Holds
<1> QED
  BY <1>2, QueueTypes, PTL
-----------------------------------------------------------------------------
(* What a step may do to the places of jobs *)

(* A worker runs a job, turns a list over, or has none. *)
Doing(w) == IF pc[w] \in Busy THEN "works" ELSE IF pc[w] = "push" THEN "rotates" ELSE "rests"

Still(W) == \A v \in W : Doing(v)' = Doing(v)

Stays ==
    /\ UNCHANGED <<queue, hand, issued, done, lost>>
    /\ Still(Workers)

Comes(l, e) ==
    /\ e.id = issued + 1
    /\ queue' = [queue EXCEPT ![l] = Append(@, e)]
    /\ issued' = issued + 1
    /\ UNCHANGED <<hand, done, lost>>
    /\ Still(Workers)

Takes(w, l) ==
    /\ hand[w] = NoJob /\ queue[l] # <<>>
    /\ hand' = [hand EXCEPT ![w] = Head(queue[l])]
    /\ queue' = [queue EXCEPT ![l] = Tail(@)]
    /\ UNCHANGED <<issued, done, lost>>
    /\ Still(Workers \ {w})

Returns(w, l, e) ==
    /\ hand[w] \in Entries /\ e.id = hand[w].id
    /\ queue' = [queue EXCEPT ![l] = Append(@, e)]
    /\ hand' = [hand EXCEPT ![w] = NoJob]
    /\ UNCHANGED <<issued, done, lost>>
    /\ Still(Workers \ {w})

Ends(w) ==
    /\ hand[w] \in Entries
    /\ hand' = [hand EXCEPT ![w] = NoJob]
    /\ \/ done' = done \cup {hand[w].id} /\ UNCHANGED lost
       \/ lost' = lost \cup {hand[w].id} /\ UNCHANGED done
    /\ UNCHANGED <<queue, issued>>
    /\ Still(Workers \ {w})

Drops(l) ==
    /\ queue[l] # <<>>
    /\ queue' = [queue EXCEPT ![l] = Tail(@)]
    /\ lost' = lost \cup {Head(queue[l]).id}
    /\ UNCHANGED <<hand, issued, done>>
    /\ Still(Workers)

Moves ==
    \/ Stays
    \/ \E l \in Lists, e \in Entries : Comes(l, e)
    \/ \E w \in Workers, l \in Lists : Takes(w, l)
    \/ \E w \in Workers, l \in Lists, e \in Entries : Returns(w, l, e)
    \/ \E w \in Workers : Ends(w)
    \/ \E l \in Lists : Drops(l)

(* Requests add a job or move none. *)
LEMMA RequestMoves ==
    ASSUME TypeInv, NEW r \in Requests,
           RequestStep(r) \/ RequestFails(r) \/ ClaimRequestFails(r)
    PROVE  Moves
<1>1. UNCHANGED <<pc, hand, done, lost>>
  BY DEF RequestStep, ClaimRequest, EnqueueRequest, RequestFails, ClaimRequestFails,
         requestFrame, ends
<1>2. Still(Workers)
  BY <1>1 DEF Still, Doing
<1>3. IssueRequest(r) \/ UNCHANGED <<queue, issued, owed>>
  BY DEF RequestStep, ClaimRequest, EnqueueRequest, RequestFails, ClaimRequestFails
<1>4. CASE IssueRequest(r)
  BY <1>1, <1>2, <1>4, IssueRequestAdds DEF Moves, Adds, Comes
<1>5. CASE UNCHANGED <<queue, issued, owed>>
  BY <1>1, <1>2, <1>5 DEF Moves, Stays
<1> QED
  BY <1>3, <1>4, <1>5

(* Going elsewhere changes what one worker does. *)
LEMMA GotoStill ==
    ASSUME TypeInv, NEW w \in Workers, NEW label, Goto(w, label)
    PROVE  /\ Still(Workers \ {w})
           /\ pc'[w] = label
           /\ pc[w] \in Busy /\ label \in Busy => Still(Workers)
           /\ pc[w] \in {"idle", "pop"} /\ label \in {"idle", "pop"} => Still(Workers)
<1>1. pc'[w] = label /\ \A v \in Workers \ {w} : pc'[v] = pc[v]
  BY DEF Goto, TypeInv
<1> QED
  BY <1>1 DEF Still, Doing, Busy, Labels

(* Polls take a job off a list, put one back, or lose one. *)
LEMMA PollMoves ==
    ASSUME TypeInv, NEW w \in Workers,
           Poll(w) \/ NextList(w) \/ Pop(w) \/ PushBack(w) \/ PollFails(w) \/ PopFails(w)
    PROVE  Moves
<1>0. reading[w] \in Lists
  BY DEF TypeInv
<1>1. CASE Poll(w) \/ NextList(w)
  <2>1. UNCHANGED <<queue, hand, issued, done, lost>>
    BY <1>1 DEF Poll, NextList, workerFrame, ends
  <2>2. /\ pc[w] \in {"idle", "pop"}
        /\ Goto(w, "idle") \/ Goto(w, "pop") \/ UNCHANGED pc
    BY <1>1 DEF Poll, NextList
  <2>3. Still(Workers)
    BY <2>2, GotoStill DEF Still, Doing
  <2> QED
    BY <2>1, <2>3 DEF Moves, Stays
<1>2. CASE Pop(w)
  <2>1. Goto(w, "push") \/ Goto(w, "ingest")
    BY <1>2 DEF Pop
  <2>2. Takes(w, reading[w])
    BY <1>2, <2>1, GotoStill DEF Pop, Takes, workerFrame, ends, TypeInv, Holds
  <2> QED
    BY <1>0, <2>2 DEF Moves
<1>3. CASE PushBack(w)
  <2>1. hand[w] \in Entries
    BY <1>3, BusyHolds DEF PushBack
  <2>2. Returns(w, reading[w], hand[w])
    BY <1>3, <2>1, GotoStill DEF PushBack, Returns, PutAt, workerFrame, ends
  <2> QED
    BY <1>0, <2>1, <2>2 DEF Moves
<1>4. CASE PollFails(w)
  <2>1. CASE pc[w] = "push"
    <3>1. hand[w] \in Entries
      BY <2>1, BusyHolds
    <3>2. Ends(w)
      BY <1>4, <2>1, <3>1, GotoStill DEF PollFails, LoseJob, Rest, Ends, workerFrame
    <3> QED
      BY <3>2 DEF Moves
  <2>2. CASE pc[w] = "pop"
    <3>1. Goto(w, "idle") /\ UNCHANGED <<hand, lost>>
      BY <1>4, <2>2 DEF PollFails
    <3>2. Stays
      BY <1>4, <2>2, <3>1, GotoStill DEF PollFails, Stays, workerFrame
    <3> QED
      BY <3>2 DEF Moves
  <2> QED
    BY <1>4, <2>1, <2>2 DEF PollFails
<1>5. CASE PopFails(w)
  <2>1. Drops(reading[w])
    BY <1>5, GotoStill DEF PopFails, Drops, workerFrame
  <2> QED
    BY <1>0, <2>1 DEF Moves
<1> QED
  BY <1>1, <1>2, <1>3, <1>4, <1>5

(* A batch that fails keeps its job for a retry or loses it. *)
LEMMA BatchEndsMoves ==
    ASSUME TypeInv, NEW w \in Workers, pc[w] \in Busy \cup {"push"},
           LoseJob(w) \/ (pc[w] \in Busy /\ BatchEnds(w)),
           UNCHANGED <<queue, issued, done>>
    PROVE  Stays \/ Ends(w)
<1>1. hand[w] \in Entries
  BY BusyHolds DEF Busy, Labels
<1>2. CASE LoseJob(w)
  BY <1>1, <1>2, GotoStill DEF LoseJob, Rest, Ends
<1>3. CASE pc[w] \in Busy /\ Goto(w, "retry") /\ UNCHANGED <<hand, todo, lost>>
  <2>1. Still(Workers)
    BY <1>3, GotoStill DEF Busy, Labels
  <2> QED
    BY <1>3, <2>1 DEF Stays
<1> QED
  BY <1>2, <1>3 DEF BatchEnds

(* Batches end their job, let it wait again, or add one. *)
LEMMA BatchMoves ==
    ASSUME TypeInv, NEW w \in Workers,
           Ingest(w) \/ ClaimChild(w) \/ EnqueueChild(w) \/ Finish(w) \/ Requeue(w)
    PROVE  Moves
<1>0. pc[w] \in Busy /\ pc[w] \notin {"idle", "pop"}
  BY DEF Ingest, ClaimChild, EnqueueChild, Finish, Requeue, Busy, Labels
<1>1. hand[w] \in Entries
  BY <1>0, BusyHolds
<1>2. CASE Ingest(w) \/ ClaimChild(w)
  <2>1. PICK label \in {"expand", "finish", "child"} : Goto(w, label)
    BY <1>2, AfterChildLabels DEF Ingest, ClaimChild
  <2>2. Still(Workers)
    BY <1>0, <2>1, GotoStill DEF Busy, Labels
  <2> QED
    BY <1>2, <2>2 DEF Ingest, ClaimChild, Moves, Stays, redis, history
<1>3. CASE EnqueueChild(w)
  <2>1. PICK label \in {"expand", "finish"} : Goto(w, label)
    BY <1>3, AfterChildLabels DEF EnqueueChild
  <2>2. Still(Workers)
    BY <1>0, <2>1, GotoStill DEF Busy, Labels
  <2> QED
    BY <1>3, <2>2, IssueChildAdds DEF EnqueueChild, Moves, Comes, Adds, ends
<1>4. CASE Finish(w)
  <2>1. Ends(w)
    BY <1>1, <1>4, GotoStill DEF Finish, Rest, Ends, redis
  <2> QED
    BY <2>1 DEF Moves
<1>5. CASE Requeue(w)
  <2>1. PICK l \in Lists, e \in Entries : e.id = hand[w].id /\ PutAt(l, e)
    BY <1>5, RequeuePuts
  <2>2. Returns(w, l, e)
    BY <1>1, <1>5, <2>1, GotoStill DEF Requeue, Rest, Returns, PutAt, workerFrame, ends
  <2> QED
    BY <2>2 DEF Moves
<1> QED
  BY <1>2, <1>3, <1>4, <1>5

(* Failures and crashes add at most one job, or lose one. *)
LEMMA FailureMoves ==
    ASSUME TypeInv, NEW w \in Workers,
           \/ ChildFails(w) \/ ReleaseChild(w) \/ ReleaseFails(w) \/ ClaimChildFails(w)
           \/ BatchFails(w) \/ RequeueFails(w) \/ Crash(w)
    PROVE  Moves
<1>1. CASE ChildFails(w)
  <2>1. Still(Workers)
    <3>1. pc[w] \in Busy /\ "release" \in Busy /\ Goto(w, "release")
      BY <1>1 DEF ChildFails, Busy, Labels
    <3> QED
      BY <3>1, GotoStill
  <2>2. CASE IssueChild(w)
    BY <1>1, <2>1, <2>2, IssueChildAdds DEF ChildFails, Moves, Comes, Adds, ends
  <2>3. CASE UNCHANGED <<queue, issued, owed, children>>
    BY <1>1, <2>1, <2>3 DEF ChildFails, Moves, Stays, ends
  <2> QED
    BY <1>1, <2>2, <2>3 DEF ChildFails
<1>2. CASE ReleaseChild(w) \/ ReleaseFails(w) \/ ClaimChildFails(w) \/ BatchFails(w) \/ RequeueFails(w)
  <2>1. pc[w] \in Busy /\ (BatchEnds(w) \/ LoseJob(w))
    BY <1>2 DEF ReleaseChild, ReleaseFails, ClaimChildFails, BatchFails, RequeueFails, Busy, Labels
  <2>2. UNCHANGED <<queue, issued, done>>
    BY <1>2 DEF ReleaseChild, ReleaseFails, ClaimChildFails, BatchFails, RequeueFails, redis,
                workerFrame
  <2> QED
    BY <2>1, <2>2, BatchEndsMoves DEF Moves
<1>3. CASE Crash(w)
  <2>1. UNCHANGED <<queue, issued, done>>
    BY <1>3 DEF Crash, redis
  <2>2. CASE hand[w] = NoJob
    <3>1. pc[w] \in {"idle", "pop"} /\ Goto(w, "idle") /\ UNCHANGED <<hand, lost>>
      BY <1>3, <2>2 DEF Crash, TypeInv, Holds
    <3>2. Still(Workers)
      BY <3>1, GotoStill
    <3> QED
      BY <2>1, <3>1, <3>2 DEF Moves, Stays
  <2>3. CASE hand[w] # NoJob
    <3>1. pc[w] \in Busy \cup {"push"} /\ LoseJob(w)
      BY <1>3, <2>3 DEF Crash, TypeInv, Holds, Busy, Labels
    <3> QED
      BY <2>1, <3>1, BatchEndsMoves DEF Moves
  <2> QED
    BY <2>2, <2>3
<1> QED
  BY <1>1, <1>2, <1>3

(* No step does more than one of these. *)
LEMMA StepMoves ==
    ASSUME TypeInv, [QueueNext]_queueVars
    PROVE  Moves
<1>1. CASE \E r \in Requests : RequestStep(r) \/ RequestFails(r) \/ ClaimRequestFails(r)
  BY <1>1, RequestMoves
<1>2. ASSUME NEW w \in Workers,
             \/ WorkerStep(w) \/ PollFails(w) \/ PopFails(w) \/ ClaimChildFails(w) \/ ChildFails(w)
             \/ ReleaseFails(w) \/ BatchFails(w) \/ RequeueFails(w) \/ Crash(w)
      PROVE  Moves
  BY <1>2, PollMoves, BatchMoves, FailureMoves DEF WorkerStep
<1>3. CASE Tick \/ UNCHANGED queueVars
  <2>1. UNCHANGED <<pc, queue, hand, issued, done, lost>>
    BY <1>3 DEF Tick, queueVars, redis, history
  <2> QED
    BY <2>1 DEF Moves, Stays, Still, Doing
<1> QED
  BY <1>1, <1>2, <1>3 DEF QueueNext
-----------------------------------------------------------------------------
(* Every job is in one place *)

(* The name of the job in a hand. *)
HeldIn(h) == IF h = NoJob THEN {} ELSE {h.id}

(* A job is once in one list, ... *)
ListsApart ==
    /\ \A l \in Lists : Distinct(queue[l])
    /\ \A l, m \in Lists : l # m => IdsIn(queue[l]) \cap IdsIn(queue[m]) = {}

(* ... or in one hand, ... *)
HandsApart ==
    /\ \A v, w \in Workers : v # w => HeldIn(hand[v]) \cap HeldIn(hand[w]) = {}
    /\ \A l \in Lists, w \in Workers : IdsIn(queue[l]) \cap HeldIn(hand[w]) = {}

(* ... or has ended once; ... *)
EndsApart ==
    /\ \A l \in Lists : IdsIn(queue[l]) \cap (done \cup lost) = {}
    /\ \A w \in Workers : HeldIn(hand[w]) \cap (done \cup lost) = {}
    /\ done \cap lost = {}

(* ... none is missing, ... *)
NoneMissing ==
    \A i \in 1..issued : \/ \E l \in Lists : i \in IdsIn(queue[l])
                         \/ \E w \in Workers : i \in HeldIn(hand[w])
                         \/ i \in done \cup lost

(* ... and all have been issued. *)
NoneInvented ==
    /\ \A l \in Lists : IdsIn(queue[l]) \subseteq 1..issued
    /\ \A w \in Workers : HeldIn(hand[w]) \subseteq 1..issued
    /\ done \cup lost \subseteq 1..issued

PlaceInv == ListsApart /\ HandsApart /\ EndsApart /\ NoneMissing /\ NoneInvented

(* A hand holds one job or none. *)
LEMMA HeldAre ==
    /\ HeldIn(NoJob) = {}
    /\ \A e \in Entries : HeldIn(e) = {e.id}
BY EntryTypes DEF HeldIn

(* At first there are no jobs. *)
LEMMA PlaceInit == QueueInit => PlaceInv
<1> SUFFICES ASSUME QueueInit PROVE PlaceInv
  OBVIOUS
<1>1. \A l \in Lists : queue[l] = <<>>
  BY DEF QueueInit
<1>2. \A l \in Lists : Distinct(queue[l]) /\ IdsIn(queue[l]) = {}
  BY <1>1 DEF Distinct, IdsIn
<1>3. \A w \in Workers : HeldIn(hand[w]) = {}
  BY HeldAre DEF QueueInit
<1>4. issued = 0 /\ done = {} /\ lost = {}
  BY DEF QueueInit
<1> QED
  BY <1>2, <1>3, <1>4 DEF PlaceInv, ListsApart, HandsApart, EndsApart, NoneMissing, NoneInvented

(* A list that gets a job at its tail. *)
LEMMA ListGets ==
    ASSUME TypeInv, NEW l \in Lists, NEW e \in Entries,
           queue' = [queue EXCEPT ![l] = Append(@, e)]
    PROVE  /\ \A m \in Lists : m # l => queue'[m] = queue[m]
           /\ IdsIn(queue'[l]) = IdsIn(queue[l]) \cup {e.id}
           /\ Distinct(queue[l]) /\ e.id \notin IdsIn(queue[l]) => Distinct(queue'[l])
<1>1. queue[l] \in Seq(Entries) /\ queue'[l] = Append(queue[l], e)
  BY DEF TypeInv
<1>2. \A m \in Lists : m # l => queue'[m] = queue[m]
  BY DEF TypeInv
<1> QED
  BY <1>1, <1>2, AppendIds

(* A list that loses its head. *)
LEMMA ListGives ==
    ASSUME TypeInv, NEW l \in Lists, queue[l] # <<>>, Distinct(queue[l]),
           queue' = [queue EXCEPT ![l] = Tail(@)]
    PROVE  /\ Head(queue[l]) \in Entries /\ Head(queue[l]).id \in IdsIn(queue[l])
           /\ \A m \in Lists : m # l => queue'[m] = queue[m]
           /\ IdsIn(queue'[l]) = IdsIn(queue[l]) \ {Head(queue[l]).id}
           /\ Distinct(queue'[l])
<1>1. queue[l] \in Seq(Entries) /\ queue'[l] = Tail(queue[l])
  BY DEF TypeInv
<1>2. \A m \in Lists : m # l => queue'[m] = queue[m]
  BY DEF TypeInv
<1> QED
  BY <1>1, <1>2, TailIds

(* A new job's name is new. *)
LEMMA ComesKeeps ==
    ASSUME TypeInv, PlaceInv, NEW l \in Lists, NEW e \in Entries, Comes(l, e)
    PROVE  PlaceInv'
<1>1. /\ issued \in Nat /\ e.id = issued + 1 /\ issued' = issued + 1
      /\ UNCHANGED <<hand, done, lost>>
  BY DEF Comes, TypeInv
<1>2. e.id \notin 1..issued /\ 1..issued' = 1..issued \cup {e.id}
  BY <1>1
<1>3. /\ \A m \in Lists : m # l => queue'[m] = queue[m]
      /\ IdsIn(queue'[l]) = IdsIn(queue[l]) \cup {e.id}
      /\ Distinct(queue'[l])
  BY <1>2, ListGets DEF Comes, PlaceInv, ListsApart, NoneInvented
<1>a. \A m \in Lists : e.id \notin IdsIn(queue[m])
  BY <1>2 DEF PlaceInv, NoneInvented
<1>4. ListsApart'
  BY <1>3, <1>a DEF PlaceInv, ListsApart
<1>5. HandsApart'
  BY <1>1, <1>2, <1>3 DEF PlaceInv, ListsApart, HandsApart, NoneInvented
<1>6. EndsApart'
  BY <1>1, <1>2, <1>3 DEF PlaceInv, ListsApart, HandsApart, EndsApart, NoneInvented
<1>7. NoneMissing'
  BY <1>1, <1>2, <1>3 DEF PlaceInv, NoneMissing
<1>8. NoneInvented'
  BY <1>1, <1>2, <1>3 DEF PlaceInv, NoneInvented
<1> QED
  BY <1>4, <1>5, <1>6, <1>7, <1>8 DEF PlaceInv

(* A job that is popped is in one hand and in no list. *)
LEMMA TakesKeeps ==
    ASSUME TypeInv, PlaceInv, NEW w \in Workers, NEW l \in Lists, Takes(w, l)
    PROVE  PlaceInv'
<1> DEFINE i == Head(queue[l]).id
<1>1. /\ Head(queue[l]) \in Entries /\ i \in IdsIn(queue[l])
      /\ \A m \in Lists : m # l => queue'[m] = queue[m]
      /\ IdsIn(queue'[l]) = IdsIn(queue[l]) \ {i}
      /\ Distinct(queue'[l])
  BY ListGives DEF Takes, PlaceInv, ListsApart
<1>2. /\ HeldIn(hand[w]) = {} /\ HeldIn(hand'[w]) = {i}
      /\ \A v \in Workers : v # w => hand'[v] = hand[v]
  BY <1>1, HeldAre DEF Takes, TypeInv
<1>3. UNCHANGED <<issued, done, lost>>
  BY DEF Takes
<1>4. ListsApart'
  BY <1>1, <1>2, <1>3 DEF PlaceInv, ListsApart, HandsApart, EndsApart, NoneInvented
<1>5. HandsApart'
  <2>1. \A u, v \in Workers : u # v => HeldIn(hand'[u]) \cap HeldIn(hand'[v]) = {}
    BY <1>1, <1>2 DEF PlaceInv, HandsApart
  <2>2. \A m \in Lists, v \in Workers : IdsIn(queue'[m]) \cap HeldIn(hand'[v]) = {}
    BY <1>1, <1>2 DEF PlaceInv, ListsApart, HandsApart
  <2> QED
    BY <2>1, <2>2 DEF HandsApart
<1>6. EndsApart'
  BY <1>1, <1>2, <1>3 DEF PlaceInv, ListsApart, HandsApart, EndsApart, NoneInvented
<1>7. NoneMissing'
  BY <1>1, <1>2, <1>3 DEF PlaceInv, NoneMissing
<1>8. NoneInvented'
  BY <1>1, <1>2, <1>3 DEF PlaceInv, NoneInvented
<1> QED
  BY <1>4, <1>5, <1>6, <1>7, <1>8 DEF PlaceInv

(* A job that is put back is in one list and in no hand. *)
LEMMA ReturnsKeeps ==
    ASSUME TypeInv, PlaceInv, NEW w \in Workers, NEW l \in Lists, NEW e \in Entries,
           Returns(w, l, e)
    PROVE  PlaceInv'
<1>1. /\ HeldIn(hand[w]) = {e.id} /\ HeldIn(hand'[w]) = {}
      /\ \A v \in Workers : v # w => hand'[v] = hand[v]
  BY HeldAre DEF Returns, TypeInv
<1>2. /\ \A m \in Lists : m # l => queue'[m] = queue[m]
      /\ IdsIn(queue'[l]) = IdsIn(queue[l]) \cup {e.id}
      /\ Distinct(queue'[l])
  BY <1>1, ListGets DEF Returns, PlaceInv, ListsApart, HandsApart
<1>3. UNCHANGED <<issued, done, lost>>
  BY DEF Returns
<1>a. \A m \in Lists : e.id \notin IdsIn(queue[m])
  BY <1>1 DEF PlaceInv, HandsApart
<1>4. ListsApart'
  BY <1>2, <1>a DEF PlaceInv, ListsApart
<1>5. HandsApart'
  BY <1>1, <1>2, <1>3 DEF PlaceInv, ListsApart, HandsApart, NoneInvented
<1>6. EndsApart'
  BY <1>1, <1>2, <1>3 DEF PlaceInv, ListsApart, HandsApart, EndsApart, NoneInvented
<1>7. NoneMissing'
  BY <1>1, <1>2, <1>3 DEF PlaceInv, NoneMissing
<1>8. NoneInvented'
  BY <1>1, <1>2, <1>3 DEF PlaceInv, NoneInvented
<1> QED
  BY <1>4, <1>5, <1>6, <1>7, <1>8 DEF PlaceInv

(* A job that is done or lost is nowhere else. *)
LEMMA EndsKeeps ==
    ASSUME TypeInv, PlaceInv, NEW w \in Workers, Ends(w)
    PROVE  PlaceInv'
<1> DEFINE i == hand[w].id
<1>1. /\ HeldIn(hand[w]) = {i} /\ HeldIn(hand'[w]) = {}
      /\ \A v \in Workers : v # w => hand'[v] = hand[v]
  BY HeldAre DEF Ends, TypeInv
<1>2. /\ UNCHANGED <<queue, issued>>
      /\ (done' = done \cup {i} /\ lost' = lost) \/ (lost' = lost \cup {i} /\ done' = done)
  BY DEF Ends
<1>4. ListsApart'
  BY <1>1, <1>2 DEF PlaceInv, ListsApart, HandsApart, EndsApart, NoneInvented
<1>5. HandsApart'
  BY <1>1, <1>2 DEF PlaceInv, ListsApart, HandsApart, NoneInvented
<1>6. EndsApart'
  BY <1>1, <1>2 DEF PlaceInv, ListsApart, HandsApart, EndsApart, NoneInvented
<1>7. NoneMissing'
  BY <1>1, <1>2 DEF PlaceInv, NoneMissing
<1>8. NoneInvented'
  BY <1>1, <1>2 DEF PlaceInv, NoneInvented
<1> QED
  BY <1>4, <1>5, <1>6, <1>7, <1>8 DEF PlaceInv

(* So is one that is lost on its way from the list. *)
LEMMA DropsKeeps ==
    ASSUME TypeInv, PlaceInv, NEW l \in Lists, Drops(l)
    PROVE  PlaceInv'
<1> DEFINE i == Head(queue[l]).id
<1>1. /\ i \in IdsIn(queue[l])
      /\ \A m \in Lists : m # l => queue'[m] = queue[m]
      /\ IdsIn(queue'[l]) = IdsIn(queue[l]) \ {i}
      /\ Distinct(queue'[l])
  BY ListGives DEF Drops, PlaceInv, ListsApart
<1>2. lost' = lost \cup {i} /\ UNCHANGED <<hand, issued, done>>
  BY DEF Drops
<1>4. ListsApart'
  BY <1>1, <1>2 DEF PlaceInv, ListsApart, HandsApart, EndsApart, NoneInvented
<1>5. HandsApart'
  BY <1>1, <1>2 DEF PlaceInv, ListsApart, HandsApart, NoneInvented
<1>6. EndsApart'
  BY <1>1, <1>2 DEF PlaceInv, ListsApart, HandsApart, EndsApart, NoneInvented
<1>7. NoneMissing'
  BY <1>1, <1>2 DEF PlaceInv, NoneMissing
<1>8. NoneInvented'
  BY <1>1, <1>2 DEF PlaceInv, NoneInvented
<1> QED
  BY <1>4, <1>5, <1>6, <1>7, <1>8 DEF PlaceInv

(* Every step leaves each job in one place. *)
LEMMA PlaceNext == TypeInv /\ PlaceInv /\ [QueueNext]_queueVars => PlaceInv'
<1> SUFFICES ASSUME TypeInv, PlaceInv, [QueueNext]_queueVars PROVE PlaceInv'
  OBVIOUS
<1>1. CASE Stays
  BY <1>1 DEF Stays, PlaceInv, ListsApart, HandsApart, EndsApart, NoneMissing, NoneInvented
<1> QED
  BY <1>1, StepMoves, ComesKeeps, TakesKeeps, ReturnsKeeps, EndsKeeps, DropsKeeps DEF Moves
-----------------------------------------------------------------------------
(* A failure loses no more than one job *)

(* Workers whose failure has been counted, and whose job may still be lost to it. *)
Releasing == {w \in Workers : pc[w] = "release"}

LossInv ==
    /\ IsFiniteSet(lost) /\ IsFiniteSet(Releasing)
    /\ Cardinality(lost) + Cardinality(Releasing) <= failures

(* Sets that grow by at most one element, or lose one. *)
LEMMA OneMore ==
    ASSUME NEW S, NEW T, NEW x, IsFiniteSet(S), T \subseteq S \cup {x}
    PROVE  IsFiniteSet(T) /\ Cardinality(T) \in Nat /\ Cardinality(S) \in Nat
              /\ Cardinality(T) <= Cardinality(S) + 1
<1>1. IsFiniteSet(S \cup {x}) /\ Cardinality(S \cup {x}) <= Cardinality(S) + 1
      /\ Cardinality(S) \in Nat /\ Cardinality(S \cup {x}) \in Nat
  <2>1. IsFiniteSet(S \cup {x})
    BY FS_AddElement
  <2>2. /\ Cardinality(S \cup {x}) = IF x \in S THEN Cardinality(S) ELSE Cardinality(S) + 1
        /\ Cardinality(S) \in Nat
    BY FS_AddElement, FS_CardinalityType
  <2> QED
    BY <2>1, <2>2
<1>2. IsFiniteSet(T) /\ Cardinality(T) <= Cardinality(S \cup {x}) /\ Cardinality(T) \in Nat
  BY <1>1, FS_Subset, FS_CardinalityType
<1> QED
  BY <1>1, <1>2

(* A set without one of its elements. *)
LEMMA OneLess ==
    ASSUME NEW S, NEW T, NEW x, IsFiniteSet(S), x \in S, T \subseteq S \ {x}
    PROVE  IsFiniteSet(T) /\ Cardinality(T) \in Nat /\ Cardinality(S) \in Nat
              /\ Cardinality(T) <= Cardinality(S) - 1
<1>1. IsFiniteSet(S \ {x}) /\ Cardinality(S \ {x}) = Cardinality(S) - 1
  BY FS_RemoveElement
<1>2. IsFiniteSet(T) /\ Cardinality(T) <= Cardinality(S \ {x}) /\ Cardinality(T) \in Nat
  BY <1>1, FS_Subset, FS_CardinalityType
<1> QED
  BY <1>1, <1>2, FS_CardinalityType

(* A subset. *)
LEMMA Fewer ==
    ASSUME NEW S, NEW T, IsFiniteSet(S), T \subseteq S
    PROVE  IsFiniteSet(T) /\ Cardinality(T) \in Nat /\ Cardinality(S) \in Nat
              /\ Cardinality(T) <= Cardinality(S)
BY FS_Subset, FS_CardinalityType

(* What a step may do to the count. *)
Losses ==
    \/ lost' = lost /\ Releasing' \subseteq Releasing /\ failures' \in {failures, failures + 1}
    \/ lost' = lost /\ failures' = failures + 1
          /\ \E w \in Workers : Releasing' \subseteq Releasing \cup {w}
    \/ Releasing' \subseteq Releasing /\ failures' = failures + 1
          /\ \E i : lost' = lost \cup {i}
    \/ \E w \in Releasing : \E i : Releasing' \subseteq Releasing \ {w} /\ lost' = lost \cup {i}
          /\ failures' = failures

(* Each of these keeps the count. *)
LEMMA LossesKeep ==
    ASSUME TypeInv, LossInv, Losses
    PROVE  LossInv'
<1>0. IsFiniteSet(lost) /\ IsFiniteSet(Releasing) /\ failures \in Nat
      /\ Cardinality(lost) + Cardinality(Releasing) <= failures
  BY BoundsAssumption DEF LossInv, TypeInv
<1>1. CASE lost' = lost /\ Releasing' \subseteq Releasing /\ failures' \in {failures, failures + 1}
  <2>1. /\ IsFiniteSet(Releasing') /\ Cardinality(Releasing') \in Nat
        /\ Cardinality(Releasing) \in Nat /\ Cardinality(Releasing') <= Cardinality(Releasing)
        /\ Cardinality(lost) \in Nat
    BY <1>0, <1>1, Fewer, FS_CardinalityType
  <2> QED
    BY <1>0, <1>1, <2>1 DEF LossInv
<1>2. CASE lost' = lost /\ failures' = failures + 1
              /\ \E w \in Workers : Releasing' \subseteq Releasing \cup {w}
  <2>1. /\ IsFiniteSet(Releasing') /\ Cardinality(Releasing') \in Nat
        /\ Cardinality(Releasing) \in Nat /\ Cardinality(Releasing') <= Cardinality(Releasing) + 1
        /\ Cardinality(lost) \in Nat
    BY <1>0, <1>2, OneMore, FS_CardinalityType
  <2> QED
    BY <1>0, <1>2, <2>1 DEF LossInv
<1>3. CASE Releasing' \subseteq Releasing /\ failures' = failures + 1
              /\ \E i : lost' = lost \cup {i}
  <2>1. /\ IsFiniteSet(Releasing') /\ Cardinality(Releasing') \in Nat
        /\ Cardinality(Releasing) \in Nat /\ Cardinality(Releasing') <= Cardinality(Releasing)
    BY <1>0, <1>3, Fewer
  <2>2. /\ IsFiniteSet(lost') /\ Cardinality(lost') \in Nat
        /\ Cardinality(lost) \in Nat /\ Cardinality(lost') <= Cardinality(lost) + 1
    BY <1>0, <1>3, OneMore
  <2> QED
    BY <1>0, <1>3, <2>1, <2>2 DEF LossInv
<1>4. CASE \E w \in Releasing : \E i : Releasing' \subseteq Releasing \ {w} /\ lost' = lost \cup {i}
              /\ failures' = failures
  <2>1. /\ IsFiniteSet(Releasing') /\ Cardinality(Releasing') \in Nat
        /\ Cardinality(Releasing) \in Nat /\ Cardinality(Releasing') <= Cardinality(Releasing) - 1
    BY <1>0, <1>4, OneLess
  <2>2. /\ IsFiniteSet(lost') /\ Cardinality(lost') \in Nat
        /\ Cardinality(lost) \in Nat /\ Cardinality(lost') <= Cardinality(lost) + 1
    BY <1>0, <1>4, OneMore
  <2> QED
    BY <1>0, <1>4, <2>1, <2>2 DEF LossInv
<1> QED
  BY <1>1, <1>2, <1>3, <1>4 DEF Losses

(* A worker that goes elsewhere leaves the others to release their keys. *)
LEMMA GotoReleasing ==
    ASSUME TypeInv, NEW w \in Workers, NEW label, Goto(w, label)
    PROVE  /\ Releasing' \subseteq Releasing \cup {w}
           /\ label # "release" => Releasing' \subseteq Releasing \ {w}
BY DEF Goto, TypeInv, Releasing

(* A batch that fails loses its job to a failure that is counted now, or was. *)
LEMMA BatchEndsLosses ==
    ASSUME TypeInv, NEW w \in Workers, BatchEnds(w) \/ LoseJob(w),
           failures' = failures + 1 \/ (failures' = failures /\ pc[w] = "release")
    PROVE  Losses
<1>1. CASE Goto(w, "retry") /\ UNCHANGED <<hand, todo, lost>>
  BY <1>1, GotoReleasing DEF Losses
<1>2. CASE LoseJob(w)
  <2>1. Goto(w, "idle") /\ lost' = lost \cup {hand[w].id}
    BY <1>2 DEF LoseJob, Rest
  <2>2. Releasing' \subseteq Releasing \ {w} /\ (pc[w] = "release" => w \in Releasing)
    BY <2>1, GotoReleasing DEF Releasing
  <2> QED
    BY <2>1, <2>2 DEF Losses
<1> QED
  BY <1>1, <1>2 DEF BatchEnds

(* No step loses more than one job, or loses one without a failure. *)
LEMMA StepLosses ==
    ASSUME TypeInv, [QueueNext]_queueVars
    PROVE  Losses
<1>1. ASSUME NEW r \in Requests, RequestStep(r) \/ RequestFails(r) \/ ClaimRequestFails(r)
      PROVE  Losses
  <2>1. UNCHANGED <<pc, lost>> /\ failures' \in {failures, failures + 1}
    BY <1>1 DEF RequestStep, ClaimRequest, EnqueueRequest, RequestFails, ClaimRequestFails,
         requestFrame, ends, CountFailure
  <2> QED
    BY <2>1 DEF Losses, Releasing
<1>2. ASSUME NEW w \in Workers, WorkerStep(w) PROVE Losses
  <2>1. CASE ReleaseChild(w)
    BY <2>1, BatchEndsLosses DEF ReleaseChild
  <2>2. CASE \/ Poll(w) \/ NextList(w) \/ Pop(w) \/ PushBack(w) \/ Ingest(w)
             \/ ClaimChild(w) \/ EnqueueChild(w) \/ Finish(w) \/ Requeue(w)
    <3>1. UNCHANGED <<failures, lost>>
      BY <2>2 DEF Poll, NextList, Pop, PushBack, Ingest, ClaimChild, EnqueueChild, Finish, Requeue,
                  ends, history
    <3>2. UNCHANGED pc \/ \E label \in Labels \ {"release"} : Goto(w, label)
      BY <2>2, AfterChildLabels
         DEF Poll, NextList, Pop, PushBack, Ingest, ClaimChild, EnqueueChild, Finish, Requeue,
             Rest, Labels
    <3> QED
      BY <3>1, <3>2, GotoReleasing DEF Losses, Releasing
  <2> QED
    BY <1>2, <2>1, <2>2 DEF WorkerStep
<1>3. ASSUME NEW w \in Workers,
             \/ PollFails(w) \/ PopFails(w) \/ ClaimChildFails(w) \/ ChildFails(w)
             \/ ReleaseFails(w) \/ BatchFails(w) \/ RequeueFails(w) \/ Crash(w)
      PROVE  Losses
  <2>1. failures' = failures + 1
    BY <1>3 DEF PollFails, PopFails, ClaimChildFails, ChildFails, ReleaseFails, BatchFails,
                RequeueFails, Crash, CountFailure
  <2>2. CASE BatchEnds(w) \/ LoseJob(w)
    BY <2>1, <2>2, BatchEndsLosses
  <2>3. CASE PopFails(w)
    <3>1. /\ lost' = lost \cup {Head(queue[reading[w]]).id}
          /\ Goto(w, "idle")
      BY <2>3 DEF PopFails
    <3>2. Releasing' \subseteq Releasing
      BY <3>1, GotoReleasing
    <3> QED
      BY <2>1, <3>1, <3>2 DEF Losses
  <2>4. CASE ChildFails(w)
    BY <2>1, <2>4, GotoReleasing DEF ChildFails, Losses, ends
  <2>5. CASE Goto(w, "idle") /\ UNCHANGED <<hand, todo, lost>>
    BY <2>1, <2>5, GotoReleasing DEF Losses
  <2> QED
    BY <1>3, <2>2, <2>3, <2>4, <2>5
       DEF PollFails, ClaimChildFails, ReleaseFails, BatchFails, RequeueFails, Crash
<1>4. CASE Tick \/ UNCHANGED queueVars
  BY <1>4 DEF Tick, queueVars, history, Losses, Releasing
<1> QED
  BY <1>1, <1>2, <1>3, <1>4 DEF QueueNext

(* However workers rotate, retry and fail, each job is in one place, and a failure loses
   no more than one. *)
THEOREM JobsAccounted == QueueSpec => []EveryJobAccounted
<1>1. QueueInit => LossInv
  <2> SUFFICES ASSUME QueueInit PROVE LossInv
    OBVIOUS
  <2>1. lost = {} /\ Releasing = {} /\ failures = 0
    BY DEF QueueInit, Releasing
  <2> QED
    BY <2>1, FS_EmptySet DEF LossInv
<1>2. TypeInv /\ LossInv /\ [QueueNext]_queueVars => LossInv'
  BY StepLosses, LossesKeep
<1>3. TypeInv /\ PlaceInv /\ LossInv => EveryJobAccounted
  <2> SUFFICES ASSUME TypeInv, PlaceInv, LossInv PROVE EveryJobAccounted
    OBVIOUS
  <2>1. QueuedIds = UNION {IdsIn(queue[l]) : l \in Lists}
    BY DEF QueuedIds, Queued, IdsIn
  <2>2. \A w \in Workers : Held(w) = HeldIn(hand[w])
    BY DEF Held, HeldIn
  <2>3. Cardinality(lost) <= failures
    BY BoundsAssumption, FS_CardinalityType DEF LossInv, TypeInv
  <2>4. 1..issued = QueuedIds \cup done \cup lost \cup UNION {Held(w) : w \in Workers}
    BY <2>1, <2>2 DEF PlaceInv, NoneMissing, NoneInvented
  <2>5. QueuedIds \cap (done \cup lost) = {} /\ done \cap lost = {}
    BY <2>1 DEF PlaceInv, EndsApart
  <2>6. \A w \in Workers : Held(w) \cap (QueuedIds \cup done \cup lost) = {}
    BY <2>1, <2>2 DEF PlaceInv, EndsApart, HandsApart
  <2> QED
    BY <2>3, <2>4, <2>5, <2>6 DEF EveryJobAccounted
<1> QED
  BY <1>1, <1>2, <1>3, TypeInit, TypeNext, PlaceInit, PlaceNext, PTL DEF QueueSpec
-----------------------------------------------------------------------------
(* A wallet that is backfilled stays tracked *)

StatusMoves ==
    \/ UNCHANGED <<status, backfilled>>
    \/ \E w \in Wallets : RecordWalletCandidate(w) /\ UNCHANGED backfilled
    \/ \E w \in Wallets : /\ MarkWalletTracked(w, Evidence[w])
                          /\ backfilled' \in {backfilled, backfilled \cup {w}}

(* Every step writes at most one row, and marks a wallet that it counts as done. *)
LEMMA StepStatus ==
    ASSUME TypeInv, [QueueNext]_queueVars
    PROVE  StatusMoves
<1>1. ASSUME NEW r \in Requests, RequestStep(r) \/ RequestFails(r) \/ ClaimRequestFails(r)
      PROVE  StatusMoves
  BY <1>1, RequestTypes
     DEF RequestStep, ClaimRequest, EnqueueRequest, RequestFails, ClaimRequestFails,
         requestFrame, ends, StatusMoves
<1>2. ASSUME NEW w \in Workers,
             \/ WorkerStep(w) \/ PollFails(w) \/ PopFails(w) \/ ClaimChildFails(w) \/ ChildFails(w)
             \/ ReleaseFails(w) \/ BatchFails(w) \/ RequeueFails(w) \/ Crash(w)
      PROVE  StatusMoves
  <2>1. CASE Ingest(w)
    BY <2>1, BusyHolds DEF Ingest, StatusMoves, history
  <2>2. CASE Finish(w)
    BY <2>2, BusyHolds DEF Finish, StatusMoves
  <2>3. CASE BatchFails(w)
    <3>1. hand[w].wallet \in Wallets
      BY <2>3, BusyHolds DEF BatchFails
    <3> QED
      BY <2>3, <3>1 DEF BatchFails, StatusMoves
  <2>4. CASE \/ Poll(w) \/ NextList(w) \/ Pop(w) \/ PushBack(w) \/ ClaimChild(w) \/ EnqueueChild(w)
             \/ ReleaseChild(w) \/ Requeue(w) \/ PollFails(w) \/ PopFails(w) \/ ClaimChildFails(w)
             \/ ChildFails(w) \/ ReleaseFails(w) \/ RequeueFails(w) \/ Crash(w)
    BY <2>4 DEF Poll, NextList, Pop, PushBack, ClaimChild, EnqueueChild, ReleaseChild, Requeue,
                PollFails, PopFails, ClaimChildFails, ChildFails, ReleaseFails, RequeueFails, Crash,
                workerFrame, ends, history, StatusMoves
  <2> QED
    BY <1>2, <2>1, <2>2, <2>3, <2>4 DEF WorkerStep
<1>3. CASE Tick \/ UNCHANGED queueVars
  BY <1>3 DEF Tick, queueVars, history, StatusMoves
<1> QED
  BY <1>1, <1>2, <1>3 DEF QueueNext

(* Neither a discovery nor another backfill takes back what a backfill has marked. *)
THEOREM TrackedStays == QueueSpec => []DoneIsTracked
<1> DEFINE Kept == {"tracked", "labeled", "scored"}
<1>1. QueueInit => DoneIsTracked
  BY DEF QueueInit, DoneIsTracked
<1>2. ASSUME TypeInv, DoneIsTracked, [QueueNext]_queueVars PROVE DoneIsTracked'
  <2>1. CASE UNCHANGED <<status, backfilled>>
    BY <1>2, <2>1 DEF DoneIsTracked
  <2>2. ASSUME NEW w \in Wallets, RecordWalletCandidate(w), UNCHANGED backfilled
        PROVE  DoneIsTracked'
    <3>1. \A s \in Kept : CandidateStatus(s) = s
      BY DEF CandidateStatus
    <3>2. \A v \in Wallets : status[v] \in Kept => status'[v] \in Kept
      BY <1>2, <2>2, <3>1 DEF RecordWalletCandidate, TypeInv
    <3> QED
      BY <1>2, <2>2, <3>2 DEF DoneIsTracked, TypeInv
  <2>3. ASSUME NEW w \in Wallets, MarkWalletTracked(w, Evidence[w]),
               backfilled' \in {backfilled, backfilled \cup {w}}
        PROVE  DoneIsTracked'
    <3>1. \A s \in Statuses : ProgressStatus(s, Evidence[w]) \in Kept
      BY WalletAssumption DEF ProgressStatus
    <3>2. status'[w] \in Kept /\ \A v \in Wallets \ {w} : status'[v] = status[v]
      BY <1>2, <2>3, <3>1 DEF MarkWalletTracked, TypeInv
    <3> QED
      BY <1>2, <2>3, <3>2 DEF DoneIsTracked, TypeInv
  <2> QED
    BY <1>2, <2>1, <2>2, <2>3, StepStatus DEF StatusMoves
<1> QED
  BY <1>1, <1>2, TypeInit, TypeNext, PTL DEF QueueSpec
-----------------------------------------------------------------------------
(* A counterparty is told once *)

(* A worker that enqueues a counterparty, or undoes that, has set the key. *)
HasKey(w) == pc[w] \in {"child", "release"}
KeyOf(w) == ExpansionKey(hand[w], Head(todo[w]))

(* One worker has a key, it is set, and only failures have told the counterparty before. *)
KeysInv ==
    /\ \A v, w \in Workers : HasKey(v) /\ HasKey(w) /\ KeyOf(v) = KeyOf(w) => v = w
    /\ \A w \in Workers : HasKey(w) => KeyOf(w) \in keys /\ children[KeyOf(w)] <= failures
    /\ \A k \in ExpansionKeys : /\ children[k] <= 1 + failures
                                /\ k \notin keys => children[k] <= failures

(* The other workers go on as they were. *)
OnlyWorker(w) ==
    \A v \in Workers \ {w} : /\ pc'[v] = pc[v] /\ hand'[v] = hand[v] /\ todo'[v] = todo[v]
                             /\ HasKey(v)' = HasKey(v) /\ KeyOf(v)' = KeyOf(v)

(* A worker's step leaves the labels, hands and counterparties of the others. *)
LEMMA OthersStay ==
    ASSUME TypeInv, NEW w \in Workers,
           \/ WorkerStep(w) \/ PollFails(w) \/ PopFails(w) \/ ClaimChildFails(w) \/ ChildFails(w)
           \/ ReleaseFails(w) \/ BatchFails(w) \/ RequeueFails(w) \/ Crash(w)
    PROVE  OnlyWorker(w)
<1>1. UNCHANGED pc \/ \E label : Goto(w, label)
  BY DEF WorkerStep, Poll, NextList, Pop, PushBack, Ingest, ClaimChild, EnqueueChild, ReleaseChild,
         Finish, Requeue, PollFails, PopFails, ClaimChildFails, ChildFails, ReleaseFails, BatchFails,
         RequeueFails, Crash, BatchEnds, LoseJob, Rest
<1>2. UNCHANGED hand \/ \E h : hand' = [hand EXCEPT ![w] = h]
  BY DEF WorkerStep, Poll, NextList, Pop, PushBack, Ingest, ClaimChild, EnqueueChild, ReleaseChild,
         Finish, Requeue, PollFails, PopFails, ClaimChildFails, ChildFails, ReleaseFails, BatchFails,
         RequeueFails, Crash, BatchEnds, LoseJob, Rest
<1>3. UNCHANGED todo \/ \E s : todo' = [todo EXCEPT ![w] = s]
  BY DEF WorkerStep, Poll, NextList, Pop, PushBack, Ingest, ClaimChild, EnqueueChild, ReleaseChild,
         Finish, Requeue, PollFails, PopFails, ClaimChildFails, ChildFails, ReleaseFails, BatchFails,
         RequeueFails, Crash, BatchEnds, LoseJob, Rest, workerFrame
<1>4. \A v \in Workers \ {w} : pc'[v] = pc[v] /\ hand'[v] = hand[v] /\ todo'[v] = todo[v]
  BY <1>1, <1>2, <1>3 DEF Goto, TypeInv
<1> QED
  BY <1>4 DEF OnlyWorker, HasKey, KeyOf

(* A step that tells nobody and gives nobody a key. *)
TellsNobody ==
    /\ children' = children /\ keys \subseteq keys' /\ failures' \in {failures, failures + 1}
    /\ \A v \in Workers : HasKey(v)' => HasKey(v) /\ KeyOf(v)' = KeyOf(v)

(* What a key stands for, and how often it was told. *)
LEMMA KeyTypes ==
    ASSUME TypeInv
    PROVE  /\ failures \in Nat /\ \A k \in ExpansionKeys : children[k] \in Nat
           /\ \A w \in Workers : HasKey(w) => KeyOf(w) \in ExpansionKeys
<1>1. \A w \in Workers : HasKey(w) => KeyOf(w) \in ExpansionKeys
  BY ExpandTypes DEF HasKey, KeyOf
<1> QED
  BY <1>1, BoundsAssumption DEF TypeInv

(* Such a step leaves every key with at most one worker. *)
LEMMA TellsNobodyKeeps ==
    ASSUME TypeInv, KeysInv, TellsNobody
    PROVE  KeysInv'
BY KeyTypes DEF KeysInv, TellsNobody

(* The key that a worker is about to claim, has claimed, or gives back. *)
LEMMA ChildKey ==
    ASSUME TypeInv, NEW w \in Workers, pc[w] \in {"expand", "child", "release"}
    PROVE  KeyOf(w) \in ExpansionKeys
BY ExpandTypes DEF KeyOf

(* A worker claims a key that is not set, so nobody else has it. *)
LEMMA ClaimKeeps ==
    ASSUME TypeInv, KeysInv, NEW w \in Workers, ClaimChild(w)
    PROVE  KeysInv'
<1> DEFINE k == KeyOf(w)
<1>1. /\ pc[w] = "expand" /\ ~ HasKey(w) /\ k \in ExpansionKeys
      /\ UNCHANGED <<hand, failures, children>> /\ keys' = keys \cup {k}
      /\ OnlyWorker(w)
  BY ChildKey, OthersStay DEF ClaimChild, KeyOf, HasKey, history, WorkerStep
<1>2. CASE k \in keys
  <2>1. PICK label \in {"expand", "finish"} : Goto(w, label)
    BY <1>2, AfterChildLabels DEF ClaimChild, KeyOf
  <2>2. ~ HasKey(w)'
    BY <2>1 DEF Goto, TypeInv, HasKey
  <2> QED
    BY <1>1, <2>2, TellsNobodyKeeps DEF TellsNobody, OnlyWorker
<1>3. CASE k \notin keys
  <2>1. KeyOf(w)' = k
    BY <1>1, <1>3 DEF ClaimChild, KeyOf
  <2>2. \A v \in Workers \ {w} : HasKey(v) => KeyOf(v) # k
    BY <1>3 DEF KeysInv
  <2> QED
    BY <1>1, <1>3, <2>1, <2>2, KeyTypes DEF KeysInv, OnlyWorker
<1> QED
  BY <1>2, <1>3

(* The counterparty is told. *)
LEMMA TellsOne ==
    ASSUME TypeInv, NEW w \in Workers, pc[w] = "child", IssueChild(w)
    PROVE  /\ KeyOf(w) \in ExpansionKeys
           /\ children'[KeyOf(w)] = children[KeyOf(w)] + 1
           /\ \A k \in ExpansionKeys \ {KeyOf(w)} : children'[k] = children[k]
<1>1. KeyOf(w) \in ExpansionKeys
  BY ChildKey
<1>2. children' = [children EXCEPT ![KeyOf(w)] = children[KeyOf(w)] + 1]
  BY DEF IssueChild, KeyOf
<1> QED
  BY <1>1, <1>2 DEF TypeInv

(* The counterparty is told, and the key stays set. *)
LEMMA EnqueueKeeps ==
    ASSUME TypeInv, KeysInv, NEW w \in Workers, EnqueueChild(w)
    PROVE  KeysInv'
<1>1. pc[w] = "child" /\ HasKey(w) /\ IssueChild(w) /\ UNCHANGED <<keys, failures>> /\ OnlyWorker(w)
  BY OthersStay DEF EnqueueChild, HasKey, WorkerStep
<1>2. PICK label \in {"expand", "finish"} : Goto(w, label)
  BY AfterChildLabels DEF EnqueueChild
<1>3. ~ HasKey(w)'
  BY <1>2 DEF Goto, TypeInv, HasKey
<1>4. \A v \in Workers \ {w} : HasKey(v) => KeyOf(v) # KeyOf(w)
  BY <1>1 DEF KeysInv
<1> QED
  BY <1>1, <1>3, <1>4, TellsOne, KeyTypes DEF KeysInv, OnlyWorker

(* It may have been told although the call failed: the failure is counted. *)
LEMMA ChildFailsKeeps ==
    ASSUME TypeInv, KeysInv, NEW w \in Workers, ChildFails(w)
    PROVE  KeysInv'
<1>1. /\ pc[w] = "child" /\ HasKey(w) /\ UNCHANGED <<keys, hand, todo>> /\ failures' = failures + 1
      /\ OnlyWorker(w) /\ KeyOf(w)' = KeyOf(w)
  BY OthersStay DEF ChildFails, HasKey, KeyOf, CountFailure
<1>2. CASE UNCHANGED children
  BY <1>1, <1>2, TellsNobodyKeeps DEF TellsNobody, OnlyWorker
<1>3. CASE IssueChild(w)
  <2>1. \A v \in Workers \ {w} : HasKey(v) => KeyOf(v) # KeyOf(w)
    BY <1>1 DEF KeysInv
  <2> QED
    BY <1>1, <1>3, <2>1, TellsOne, KeyTypes DEF KeysInv, OnlyWorker
<1> QED
  BY <1>2, <1>3 DEF ChildFails

(* A batch that ends, or a worker that dies, has no key any more. *)
LEMMA EndsKey ==
    ASSUME TypeInv, NEW w \in Workers, BatchEnds(w) \/ LoseJob(w) \/ Rest(w)
    PROVE  ~ HasKey(w)'
BY DEF BatchEnds, LoseJob, Rest, Goto, TypeInv, HasKey

(* The key is given back by the one worker that has it. *)
LEMMA ReleaseKeeps ==
    ASSUME TypeInv, KeysInv, NEW w \in Workers, ReleaseChild(w)
    PROVE  KeysInv'
<1>1. /\ HasKey(w) /\ keys' = keys \ {KeyOf(w)} /\ UNCHANGED <<failures, children>>
      /\ OnlyWorker(w) /\ ~ HasKey(w)'
  BY OthersStay, EndsKey DEF ReleaseChild, HasKey, KeyOf, WorkerStep
<1>2. \A v \in Workers \ {w} : HasKey(v) => KeyOf(v) # KeyOf(w)
  BY <1>1 DEF KeysInv
<1> QED
  BY <1>1, <1>2, KeyTypes DEF KeysInv, OnlyWorker

(* Every step keeps the keys apart. *)
LEMMA KeysNext == TypeInv /\ KeysInv /\ [QueueNext]_queueVars => KeysInv'
<1> SUFFICES ASSUME TypeInv, KeysInv, [QueueNext]_queueVars PROVE KeysInv'
  OBVIOUS
<1>1. ASSUME NEW r \in Requests, RequestStep(r) \/ RequestFails(r) \/ ClaimRequestFails(r)
      PROVE  KeysInv'
  <2>1. /\ UNCHANGED <<pc, hand, todo, children>> /\ keys \subseteq keys'
        /\ failures' \in {failures, failures + 1}
    BY <1>1 DEF RequestStep, ClaimRequest, EnqueueRequest, RequestFails, ClaimRequestFails,
         requestFrame, CountFailure
  <2> QED
    BY <2>1, TellsNobodyKeeps DEF TellsNobody, HasKey, KeyOf
<1>2. ASSUME NEW w \in Workers,
             \/ Poll(w) \/ NextList(w) \/ Pop(w) \/ PushBack(w) \/ Ingest(w) \/ Finish(w) \/ Requeue(w)
             \/ PollFails(w) \/ PopFails(w) \/ ClaimChildFails(w)
             \/ ReleaseFails(w) \/ BatchFails(w) \/ RequeueFails(w) \/ Crash(w)
      PROVE  KeysInv'
  <2>1. OnlyWorker(w)
    BY <1>2, OthersStay DEF WorkerStep
  <2>2. /\ children' = children /\ keys \subseteq keys' /\ failures' \in {failures, failures + 1}
    BY <1>2 DEF Poll, NextList, Pop, PushBack, Ingest, Finish, Requeue, PollFails, PopFails,
                ClaimChildFails, ReleaseFails, BatchFails, RequeueFails, Crash,
                workerFrame, redis, history, CountFailure
  <2>3. ~ HasKey(w)'
    <3>1. CASE Poll(w) \/ NextList(w) \/ Pop(w) \/ PushBack(w) \/ PollFails(w) \/ PopFails(w)
      <4>1. \/ UNCHANGED pc /\ pc[w] = "pop"
            \/ \E label \in {"idle", "pop", "push", "ingest"} : Goto(w, label)
        BY <3>1 DEF Poll, NextList, Pop, PushBack, PollFails, PopFails, LoseJob, Rest
      <4> QED
        BY <4>1 DEF Goto, TypeInv, HasKey
    <3>2. CASE Ingest(w)
      <4>1. PICK label \in {"expand", "finish"} : Goto(w, label)
        BY <3>2, AfterChildLabels DEF Ingest
      <4> QED
        BY <4>1 DEF Goto, TypeInv, HasKey
    <3>3. CASE \/ Finish(w) \/ Requeue(w) \/ ClaimChildFails(w) \/ ReleaseFails(w) \/ BatchFails(w)
               \/ RequeueFails(w)
      BY <3>3, EndsKey DEF Finish, Requeue, ClaimChildFails, ReleaseFails, BatchFails, RequeueFails
    <3>4. CASE Crash(w)
      BY <3>4, EndsKey DEF Crash, Goto, TypeInv, HasKey
    <3> QED
      BY <1>2, <3>1, <3>2, <3>3, <3>4
  <2> QED
    BY <2>1, <2>2, <2>3, TellsNobodyKeeps DEF TellsNobody, OnlyWorker
<1>3. ASSUME NEW w \in Workers, ClaimChild(w) \/ EnqueueChild(w) \/ ChildFails(w) \/ ReleaseChild(w)
      PROVE  KeysInv'
  BY <1>3, ClaimKeeps, EnqueueKeeps, ChildFailsKeeps, ReleaseKeeps
<1>4. CASE Tick \/ UNCHANGED queueVars
  <2>1. UNCHANGED <<pc, hand, todo, children, keys, failures>>
    BY <1>4 DEF Tick, queueVars, redis, history
  <2> QED
    BY <2>1, TellsNobodyKeeps DEF TellsNobody, HasKey, KeyOf
<1> QED
  BY <1>1, <1>2, <1>3, <1>4 DEF QueueNext, WorkerStep

(* At first no key is set. *)
LEMMA KeysInit == QueueInit => KeysInv
<1> SUFFICES ASSUME QueueInit PROVE KeysInv
  OBVIOUS
<1>1. failures = 0 /\ \A k \in ExpansionKeys : children[k] = 0
  BY DEF QueueInit
<1>2. \A w \in Workers : ~ HasKey(w)
  BY DEF QueueInit, HasKey
<1> QED
  BY <1>1, <1>2 DEF KeysInv

(* Why a key is set: somebody has it, or is to use it, or its job was enqueued. *)
Explained(k) ==
    \/ k \in abandoned
    \/ k \in ExpansionKeys /\ children[k] > 0
    \/ \E w \in Workers : HasKey(w) /\ k = KeyOf(w)
    \/ \E r \in Requests : k = RequestKey(r) /\ asking[r] # "start"

(* A step that takes no reason away without another. *)
Explains ==
    /\ abandoned \subseteq abandoned'
    /\ \A k \in ExpansionKeys : children[k] > 0 => children'[k] > 0
    /\ \A v \in Workers : HasKey(v) =>
          \/ HasKey(v)' /\ KeyOf(v)' = KeyOf(v)
          \/ KeyOf(v) \in abandoned' \/ KeyOf(v) \notin keys'
          \/ KeyOf(v) \in ExpansionKeys /\ children'[KeyOf(v)] > 0
    /\ \A r \in Requests : asking[r] # "start" => asking'[r] # "start" \/ RequestKey(r) \in abandoned'
    /\ \A k \in keys' \ keys : Explained(k)'

(* Then each key that is set has a reason after the step, too. *)
LEMMA ExplainsKeeps ==
    ASSUME \A k \in keys : Explained(k), Explains
    PROVE  \A k \in keys' : Explained(k)'
<1> TAKE k \in keys'
<1>1. CASE k \notin keys
  BY <1>1 DEF Explains
<1>2. CASE k \in keys
  BY <1>2 DEF Explains, Explained
<1> QED
  BY <1>1, <1>2

(* Requests give a reason for the key that they set. *)
LEMMA RequestExplains ==
    ASSUME TypeInv, NEW r \in Requests, RequestStep(r) \/ RequestFails(r) \/ ClaimRequestFails(r)
    PROVE  Explains
<1>1. UNCHANGED <<pc, hand, todo, children>>
  BY DEF RequestStep, ClaimRequest, EnqueueRequest, RequestFails, ClaimRequestFails, requestFrame
<1>2. \A v \in Workers : HasKey(v)' = HasKey(v) /\ KeyOf(v)' = KeyOf(v)
  BY <1>1 DEF HasKey, KeyOf
<1>3. CASE ClaimRequest(r) \/ ClaimRequestFails(r)
  <2>1. /\ keys' = keys \cup {RequestKey(r)} /\ abandoned \subseteq abandoned'
        /\ \/ asking' = [asking EXCEPT ![r] = "enqueue"]
           \/ (asking' = asking /\ RequestKey(r) \in abandoned')
    BY <1>3 DEF ClaimRequest, ClaimRequestFails, Ask
  <2>2. Explained(RequestKey(r))' /\ \A q \in Requests : asking[q] # "start" => asking'[q] # "start"
    BY <2>1 DEF Explained, TypeInv
  <2>3. \A k \in keys' \ keys : k = RequestKey(r)
    BY <2>1
  <2>4. \A k \in keys' \ keys : Explained(k)'
    <3> TAKE k \in keys' \ keys
    <3> QED
      BY <2>1, <2>3 DEF Explained, TypeInv
  <2> QED
    BY <1>1, <1>2, <2>1, <2>2, <2>4 DEF Explains
<1>4. CASE EnqueueRequest(r) \/ RequestFails(r)
  <2>1. /\ keys' = keys /\ abandoned \subseteq abandoned'
        /\ \/ asking' = [asking EXCEPT ![r] = "done"]
           \/ (asking' = [asking EXCEPT ![r] = "start"] /\ RequestKey(r) \in abandoned')
    BY <1>4 DEF EnqueueRequest, RequestFails, Ask
  <2>2. \A q \in Requests : asking[q] # "start" => asking'[q] # "start" \/ RequestKey(q) \in abandoned'
    BY <2>1 DEF TypeInv
  <2> QED
    BY <1>1, <1>2, <2>1, <2>2 DEF Explains
<1> QED
  BY <1>3, <1>4 DEF RequestStep

(* So do workers, and a crash leaves the key that was claimed behind. *)
LEMMA WorkerExplains ==
    ASSUME TypeInv, NEW w \in Workers,
           \/ WorkerStep(w) \/ PollFails(w) \/ PopFails(w) \/ ClaimChildFails(w) \/ ChildFails(w)
           \/ ReleaseFails(w) \/ BatchFails(w) \/ RequeueFails(w) \/ Crash(w)
    PROVE  Explains
<1>1. OnlyWorker(w)
  BY OthersStay
<1>2. UNCHANGED asking
  BY DEF WorkerStep, Poll, NextList, Pop, PushBack, Ingest, ClaimChild, EnqueueChild, ReleaseChild,
         Finish, Requeue, PollFails, PopFails, ClaimChildFails, ChildFails, ReleaseFails, BatchFails,
         RequeueFails, Crash, workerFrame
<1>3. CASE \/ Poll(w) \/ NextList(w) \/ Pop(w) \/ PushBack(w) \/ Ingest(w) \/ Finish(w) \/ Requeue(w)
           \/ PollFails(w) \/ PopFails(w) \/ BatchFails(w) \/ RequeueFails(w)
  <2>1. UNCHANGED <<keys, abandoned, children>> /\ ~ HasKey(w)
    BY <1>3 DEF Poll, NextList, Pop, PushBack, Ingest, Finish, Requeue, PollFails, PopFails,
                BatchFails, RequeueFails, workerFrame, redis, history, HasKey
  <2> QED
    BY <1>1, <1>2, <2>1 DEF Explains, OnlyWorker
<1>4. CASE ClaimChild(w)
  <2>1. /\ pc[w] = "expand" /\ ~ HasKey(w) /\ keys' = keys \cup {KeyOf(w)}
        /\ UNCHANGED <<hand, abandoned, children>>
    BY <1>4 DEF ClaimChild, HasKey, KeyOf, history
  <2>2. CASE KeyOf(w) \in keys
    BY <1>1, <1>2, <2>1, <2>2 DEF Explains, OnlyWorker
  <2>3. CASE KeyOf(w) \notin keys
    <3>1. Goto(w, "child") /\ UNCHANGED todo
      BY <1>4, <2>3 DEF ClaimChild, KeyOf
    <3>2. HasKey(w)' /\ KeyOf(w)' = KeyOf(w)
      BY <2>1, <3>1 DEF Goto, TypeInv, HasKey, KeyOf
    <3>3. \A k \in keys' \ keys : Explained(k)'
      <4> TAKE k \in keys' \ keys
      <4>1. k = KeyOf(w)'
        BY <2>1, <3>2
      <4> QED
        BY <3>2, <4>1 DEF Explained
    <3> QED
      BY <1>1, <1>2, <2>1, <3>3 DEF Explains, OnlyWorker
  <2> QED
    BY <2>2, <2>3
<1>5. CASE EnqueueChild(w)
  <2>1. pc[w] = "child" /\ IssueChild(w) /\ UNCHANGED <<keys, abandoned>>
    BY <1>5 DEF EnqueueChild
  <2>2. children'[KeyOf(w)] > 0 /\ \A k \in ExpansionKeys : children[k] > 0 => children'[k] > 0
    BY <2>1, TellsOne, KeyTypes
  <2> QED
    BY <1>1, <1>2, <2>1, <2>2, TellsOne DEF Explains, OnlyWorker
<1>6. CASE ChildFails(w)
  <2>1. /\ pc[w] = "child" /\ Goto(w, "release")
        /\ UNCHANGED <<keys, abandoned, hand, todo>>
    BY <1>6 DEF ChildFails
  <2>2. HasKey(w)' /\ KeyOf(w)' = KeyOf(w)
    BY <2>1 DEF Goto, TypeInv, HasKey, KeyOf
  <2>3. \A k \in ExpansionKeys : children[k] > 0 => children'[k] > 0
    <3>1. CASE IssueChild(w)
      BY <2>1, <3>1, TellsOne, KeyTypes
    <3>2. CASE UNCHANGED children
      BY <3>2
    <3> QED
      BY <1>6, <3>1, <3>2 DEF ChildFails
  <2> QED
    BY <1>1, <1>2, <2>1, <2>2, <2>3 DEF Explains, OnlyWorker
<1>7. CASE ReleaseChild(w)
  <2>1. keys' = keys \ {KeyOf(w)} /\ UNCHANGED <<abandoned, children>>
    BY <1>7 DEF ReleaseChild, KeyOf
  <2> QED
    BY <1>1, <1>2, <2>1 DEF Explains, OnlyWorker
<1>8. CASE ReleaseFails(w)
  <2>1. abandoned' = abandoned \cup {KeyOf(w)} /\ UNCHANGED <<keys, children>>
    BY <1>8 DEF ReleaseFails, KeyOf, redis
  <2> QED
    BY <1>1, <1>2, <2>1 DEF Explains, OnlyWorker
<1>9. CASE ClaimChildFails(w)
  <2>1. /\ ~ HasKey(w) /\ UNCHANGED children
        /\ keys' = keys \cup {KeyOf(w)} /\ abandoned' = abandoned \cup {KeyOf(w)}
    BY <1>9 DEF ClaimChildFails, KeyOf, HasKey
  <2>2. \A k \in keys' \ keys : Explained(k)'
    BY <2>1 DEF Explained
  <2> QED
    BY <1>1, <1>2, <2>1, <2>2 DEF Explains, OnlyWorker
<1>10. CASE Crash(w)
  <2>1. UNCHANGED <<keys, children>>
    BY <1>10 DEF Crash, redis
  <2>2. abandoned' = IF ~ HasKey(w) THEN abandoned ELSE abandoned \cup {KeyOf(w)}
    BY <1>10 DEF Crash, HasKey, KeyOf
  <2> QED
    BY <1>1, <1>2, <2>1, <2>2 DEF Explains, OnlyWorker
<1> QED
  BY <1>3, <1>4, <1>5, <1>6, <1>7, <1>8, <1>9, <1>10 DEF WorkerStep

(* A backfill tells of a counterparty once, and again only for a failure; and no key keeps
   a counterparty or a wallet out of the queue unless its job came, or a failure left it. *)
THEOREM ExpansionsPaid == QueueSpec => []ExpansionPerFailure
<1> DEFINE Inv == \A k \in keys : Explained(k)
<1>1. QueueInit => Inv
  BY DEF QueueInit
<1>2. TypeInv /\ Inv /\ [QueueNext]_queueVars => Inv'
  <2> SUFFICES ASSUME TypeInv, Inv, [QueueNext]_queueVars PROVE Inv'
    OBVIOUS
  <2>1. CASE Tick \/ UNCHANGED queueVars
    <3>1. UNCHANGED <<pc, hand, todo, children, keys, abandoned, asking>>
      BY <2>1 DEF Tick, queueVars, redis, history
    <3> QED
      BY <3>1 DEF Explained, HasKey, KeyOf
  <2>2. CASE QueueNext /\ ~ Tick
    <3>1. Explains
      BY <2>2, RequestExplains, WorkerExplains DEF QueueNext
    <3> QED
      BY <3>1, ExplainsKeeps
  <2> QED
    BY <2>1, <2>2
<1>3. TypeInv /\ KeysInv /\ Inv => ExpansionPerFailure
  <2> SUFFICES ASSUME TypeInv, KeysInv, Inv PROVE ExpansionPerFailure
    OBVIOUS
  <2>1. ExpandedPerFailure
    BY DEF KeysInv, ExpandedPerFailure
  <2>2. KeyHasJob
    BY DEF Explained, HasKey, KeyOf, KeyHasJob
  <2> QED
    BY <2>1, <2>2 DEF ExpansionPerFailure
<1> QED
  <2> HIDE DEF Inv
  <2> QED
    BY <1>1, <1>2, <1>3, TypeInit, TypeNext, KeysInit, KeysNext, PTL DEF QueueSpec
-----------------------------------------------------------------------------
(* A poll passes no job over *)

(* A poll owes the jobs ow, and has lf jobs of the list rd to look at: those of a list
   that it has left are met, those of its list are among the first. *)
Within(Q, rd, lf, ow) ==
    /\ rd = "default" => ow \cap IdsIn(Q["priority"]) = {}
    /\ \A i \in DOMAIN Q[rd] : Q[rd][i].id \in ow => i <= lf

PassInv ==
    \A w \in Workers : /\ pc[w] \notin {"pop", "push"} => owed[w] = {}
                       /\ Within(queue, reading[w], left[w], owed[w])

(* What a step may do to the lists: a job that comes is owed by nobody. *)
ListMoves ==
    \/ queue' = queue
    \/ \E l \in Lists : queue[l] # <<>> /\ queue' = [queue EXCEPT ![l] = Tail(@)]
    \/ \E l \in Lists, e \in Entries : /\ queue' = [queue EXCEPT ![l] = Append(@, e)]
                                       /\ \A v \in Workers : e.id \notin owed'[v]

(* A worker's poll is where it was, and owes no more. *)
PollWaits(v) ==
    /\ pc'[v] \in {"pop", "push"} <=> pc[v] \in {"pop", "push"}
    /\ reading'[v] = reading[v] /\ left'[v] = left[v]
    /\ owed'[v] \subseteq owed[v]

(* Others take from the head and put at the tail: what a poll owes moves forward. *)
LEMMA WithinKeeps ==
    ASSUME TypeInv, PlaceInv, ListMoves, NEW v \in Workers, NEW rd \in Lists, NEW lf \in Nat,
           NEW ow, Within(queue, rd, lf, ow), owed'[v] \subseteq ow
    PROVE  Within(queue', rd, lf, owed'[v])
<1>1. CASE queue' = queue
  BY <1>1 DEF Within
<1>2. ASSUME NEW l \in Lists, queue[l] # <<>>, queue' = [queue EXCEPT ![l] = Tail(@)]
      PROVE  Within(queue', rd, lf, owed'[v])
  <2>1. /\ queue[l] \in Seq(Entries) /\ queue'[l] = Tail(queue[l])
        /\ \A m \in Lists : m # l => queue'[m] = queue[m]
    BY <1>2 DEF TypeInv
  <2>2. /\ IdsIn(queue'[l]) \subseteq IdsIn(queue[l])
        /\ \A i \in DOMAIN queue'[l] : i + 1 \in DOMAIN queue[l] /\ queue'[l][i] = queue[l][i + 1]
        /\ DOMAIN queue'[l] \subseteq Nat
    <3>1. Distinct(queue[l])
      BY DEF PlaceInv, ListsApart
    <3>2. DOMAIN queue'[l] \subseteq Nat
      BY <2>1
    <3> QED
      BY <1>2, <2>1, <3>1, <3>2, TailIds
  <2>3. rd = "default" => owed'[v] \cap IdsIn(queue'["priority"]) = {}
    BY <2>1, <2>2 DEF Within, Lists
  <2>4. \A i \in DOMAIN queue'[rd] : queue'[rd][i].id \in owed'[v] => i <= lf
    <3>1. CASE rd = l
      <4> TAKE i \in DOMAIN queue'[rd]
      <4>1. i \in Nat /\ i + 1 \in DOMAIN queue[rd] /\ queue'[rd][i] = queue[rd][i + 1]
        BY <2>2, <3>1
      <4>2. queue'[rd][i].id \in owed'[v] => i + 1 <= lf
        BY <4>1 DEF Within
      <4> QED
        BY <4>1, <4>2
    <3>2. CASE rd # l
      BY <2>1, <3>2 DEF Within
    <3> QED
      BY <3>1, <3>2
  <2> QED
    BY <2>3, <2>4 DEF Within
<1>3. ASSUME NEW l \in Lists, NEW e \in Entries, queue' = [queue EXCEPT ![l] = Append(@, e)],
             e.id \notin owed'[v]
      PROVE  Within(queue', rd, lf, owed'[v])
  <2>1. /\ queue[l] \in Seq(Entries) /\ queue'[l] = Append(queue[l], e)
        /\ \A m \in Lists : m # l => queue'[m] = queue[m]
    BY <1>3 DEF TypeInv
  <2>2. /\ IdsIn(queue'[l]) = IdsIn(queue[l]) \cup {e.id}
        /\ \A i \in DOMAIN queue'[l] : queue'[l][i] = e \/ (i \in DOMAIN queue[l] /\ queue'[l][i] = queue[l][i])
    <3>1. \A i \in DOMAIN queue'[l] : queue'[l][i] = e \/ (i \in DOMAIN queue[l] /\ queue'[l][i] = queue[l][i])
      BY <2>1
    <3> QED
      BY <2>1, <3>1, AppendIds
  <2>3. rd = "default" => owed'[v] \cap IdsIn(queue'["priority"]) = {}
    BY <1>3, <2>1, <2>2 DEF Within, Lists
  <2>4. \A i \in DOMAIN queue'[rd] : queue'[rd][i].id \in owed'[v] => i <= lf
    BY <1>3, <2>1, <2>2 DEF Within
  <2> QED
    BY <2>3, <2>4 DEF Within
<1> QED
  BY <1>1, <1>2, <1>3 DEF ListMoves

(* A worker whose poll waits meets the lists as it did. *)
LEMMA WaitsKeeps ==
    ASSUME TypeInv, PlaceInv, PassInv, ListMoves, NEW v \in Workers, PollWaits(v)
    PROVE  /\ pc'[v] \notin {"pop", "push"} => owed'[v] = {}
           /\ Within(queue', reading'[v], left'[v], owed'[v])
<1>1. reading[v] \in Lists /\ left[v] \in Nat
  BY DEF TypeInv
<1>2. Within(queue', reading[v], left[v], owed'[v])
  BY <1>1, WithinKeeps DEF PassInv, PollWaits
<1> QED
  BY <1>2 DEF PassInv, PollWaits

(* A poll that is over owes nothing. *)
LEMMA OverKeeps ==
    ASSUME TypeInv, NEW w \in Workers, EndPoll(w)
    PROVE  /\ owed'[w] = {} /\ Within(queue', reading'[w], left'[w], owed'[w])
           /\ \A v \in Workers \ {w} : /\ reading'[v] = reading[v] /\ left'[v] = left[v]
                                       /\ owed'[v] = owed[v]
<1>1. /\ owed'[w] = {}
      /\ \A v \in Workers \ {w} : /\ reading'[v] = reading[v] /\ left'[v] = left[v]
                                  /\ owed'[v] = owed[v]
  BY DEF TypeInv, EndPoll
<1> QED
  BY <1>1 DEF Within

(* A poll that counts a list owes its jobs. *)
LEMMA CountPoll ==
    ASSUME TypeInv, NEW w \in Workers, NEW l \in Lists, Count(w, l)
    PROVE  /\ reading'[w] = l /\ left'[w] = Len(queue[l]) /\ owed'[w] = owed[w] \cup IdsIn(queue[l])
           /\ \A v \in Workers \ {w} : /\ reading'[v] = reading[v] /\ left'[v] = left[v]
                                       /\ owed'[v] = owed[v]
<1>1. owed' = [owed EXCEPT ![w] = owed[w] \cup IdsIn(queue[l])]
  BY DEF Count, IdsIn
<1> QED
  BY <1>1 DEF TypeInv, Count

(* A job that is put at a tail is owed by nobody. *)
LEMMA PutAtPoll ==
    ASSUME TypeInv, NEW l \in Lists, NEW e \in Entries, PutAt(l, e)
    PROVE  ListMoves /\ \A v \in Workers : owed'[v] \subseteq owed[v]
<1>1. \A v \in Workers : owed'[v] = owed[v] \ {e.id}
  BY DEF PutAt
<1>2. queue' = [queue EXCEPT ![l] = Append(@, e)]
  BY DEF PutAt
<1> QED
  BY <1>1, <1>2 DEF ListMoves

(* Nor is a new one. *)
LEMMA AddsPoll ==
    ASSUME TypeInv, NEW l \in Lists, NEW e \in Entries, Adds(l, e)
    PROVE  ListMoves /\ \A v \in Workers : owed'[v] \subseteq owed[v]
BY PutAtPoll DEF Adds, PutAt

(* The other polls wait while one worker acts. *)
OthersWait(w) == ListMoves /\ \A v \in Workers \ {w} : PollWaits(v)

(* It suffices to look at the worker that acts. *)
LEMMA OthersKeep ==
    ASSUME TypeInv, PlaceInv, PassInv, NEW w \in Workers, OthersWait(w),
           pc'[w] \notin {"pop", "push"} => owed'[w] = {},
           Within(queue', reading'[w], left'[w], owed'[w])
    PROVE  PassInv'
BY WaitsKeeps DEF OthersWait, PassInv

(* Polls keep what they owe within what they have left to look at. *)
LEMMA PollPasses ==
    ASSUME TypeInv, PlaceInv, PassInv, NEW w \in Workers,
           Poll(w) \/ NextList(w) \/ Pop(w) \/ PushBack(w) \/ PollFails(w) \/ PopFails(w)
    PROVE  PassInv'
<1>0. OnlyWorker(w) /\ reading[w] \in Lists /\ left[w] \in Nat
  BY OthersStay DEF WorkerStep, TypeInv
<1>1. CASE queue' = queue /\ EndPoll(w)
  BY <1>0, <1>1, OverKeeps, OthersKeep DEF OthersWait, ListMoves, PollWaits, OnlyWorker
<1>2. CASE /\ queue' = [queue EXCEPT ![reading[w]] = Tail(@)] /\ queue[reading[w]] # <<>>
           /\ EndPoll(w)
  <2>1. ListMoves
    BY <1>0, <1>2 DEF ListMoves
  <2>2. /\ owed'[w] = {} /\ Within(queue', reading'[w], left'[w], owed'[w])
        /\ OthersWait(w)
    BY <1>0, <1>2, <2>1, OverKeeps DEF OthersWait, PollWaits, OnlyWorker
  <2> QED
    BY <2>2, OthersKeep
<1>3. ASSUME NEW l \in Lists, Count(w, l), queue' = queue, pc'[w] = "pop",
             l = "default" => owed[w] \cap IdsIn(queue["priority"]) = {}
      PROVE  PassInv'
  <2>1. /\ reading'[w] = l /\ left'[w] = Len(queue[l]) /\ owed'[w] = owed[w] \cup IdsIn(queue[l])
        /\ OthersWait(w)
    BY <1>0, <1>3, CountPoll DEF OthersWait, ListMoves, PollWaits, OnlyWorker
  <2>2. \A i \in DOMAIN queue[l] : i <= Len(queue[l])
    <3>1. queue[l] \in Seq(Entries)
      BY DEF TypeInv
    <3> QED
      BY <3>1
  <2>3. l = "default" => owed'[w] \cap IdsIn(queue["priority"]) = {}
    BY <1>3, <2>1 DEF PlaceInv, ListsApart, Lists
  <2>4. Within(queue', reading'[w], left'[w], owed'[w])
    BY <1>3, <2>1, <2>2, <2>3 DEF Within
  <2> QED
    BY <1>3, <2>1, <2>4, OthersKeep
<1>4. CASE Poll(w)
  <2>1. pc'[w] = "pop" /\ queue' = queue /\ Count(w, "priority")
    BY <1>4 DEF Poll, Goto, TypeInv, ReadFirst
  <2> QED
    BY <1>3, <2>1 DEF Lists
<1>5. CASE NextList(w)
  <2>1. CASE Following(reading[w]) \in Lists
    <3>1. /\ reading[w] = "priority" /\ Following(reading[w]) = "default"
          /\ Count(w, "default") /\ queue' = queue /\ pc'[w] = "pop"
          /\ left[w] = 0 \/ queue["priority"] = <<>>
      BY <1>0, <1>5, <2>1 DEF NextList, Following, Lists
    <3>2. owed[w] \cap IdsIn(queue["priority"]) = {}
      <4>1. queue["priority"] \in Seq(Entries)
        BY DEF TypeInv, Lists
      <4>2. \A i \in DOMAIN queue["priority"] : queue["priority"][i].id \in owed[w] => i <= left[w]
        BY <3>1 DEF PassInv, Within
      <4>3. \A i \in DOMAIN queue["priority"] : queue["priority"][i].id \notin owed[w]
        BY <3>1, <4>1, <4>2
      <4> QED
        BY <4>3 DEF IdsIn
    <3> QED
      BY <1>3, <3>1, <3>2 DEF Lists
  <2>2. CASE Following(reading[w]) \notin Lists
    BY <1>1, <1>5, <2>2 DEF NextList
  <2> QED
    BY <2>1, <2>2
<1>6. CASE Pop(w)
  <2>1. CASE EndPoll(w)
    BY <1>2, <1>6, <2>1 DEF Pop
  <2>2. CASE UNCHANGED <<reading, owed>> /\ left' = [left EXCEPT ![w] = @ - 1] /\ Goto(w, "push")
    <3>1. /\ left'[w] = left[w] - 1 /\ pc'[w] = "push"
          /\ \A v \in Workers \ {w} : left'[v] = left[v]
          /\ queue' = [queue EXCEPT ![reading[w]] = Tail(@)] /\ queue[reading[w]] # <<>>
      BY <1>6, <2>2 DEF Pop, Goto, TypeInv
    <3>2. OthersWait(w)
      BY <1>0, <2>2, <3>1 DEF OthersWait, ListMoves, PollWaits, OnlyWorker
    <3>3. Within(queue', reading[w], left[w], owed[w])
      BY <1>0, <2>2, <3>2, WithinKeeps DEF PassInv, OthersWait
    <3>4. Within(queue', reading[w], left[w] - 1, owed[w])
      <4>1. /\ queue[reading[w]] \in Seq(Entries) /\ queue'[reading[w]] = Tail(queue[reading[w]])
        BY <1>0, <3>1 DEF TypeInv
      <4>2. /\ \A i \in DOMAIN queue'[reading[w]] : i + 1 \in DOMAIN queue[reading[w]]
                      /\ queue'[reading[w]][i] = queue[reading[w]][i + 1]
            /\ DOMAIN queue'[reading[w]] \subseteq Nat
        <5>1. DOMAIN Tail(queue[reading[w]]) \subseteq Nat
          BY <3>1, <4>1
        <5> QED
          BY <3>1, <4>1, <5>1, TailIds
      <4>3. \A i \in DOMAIN queue'[reading[w]] : queue'[reading[w]][i].id \in owed[w] => i <= left[w] - 1
        <5> TAKE i \in DOMAIN queue'[reading[w]]
        <5>1. queue'[reading[w]][i].id \in owed[w] => i + 1 <= left[w]
          BY <4>2 DEF PassInv, Within
        <5> QED
          BY <1>0, <4>2, <5>1
      <4> QED
        BY <3>3, <4>3 DEF Within
    <3> QED
      BY <2>2, <3>1, <3>2, <3>4, OthersKeep
  <2> QED
    BY <1>6, <2>1, <2>2 DEF Pop
<1>7. CASE PushBack(w)
  <2>1. hand[w] \in Entries
    BY <1>7, BusyHolds DEF PushBack
  <2>2. ListMoves /\ \A v \in Workers : owed'[v] \subseteq owed[v]
    BY <1>0, <1>7, <2>1, PutAtPoll DEF PushBack
  <2>3. UNCHANGED <<reading, left>> /\ pc[w] = "push" /\ pc'[w] = "pop"
    BY <1>7 DEF PushBack, Goto, TypeInv
  <2>4. OthersWait(w) /\ PollWaits(w)
    BY <1>0, <2>2, <2>3 DEF OthersWait, PollWaits, OnlyWorker
  <2> QED
    BY <2>4, WaitsKeeps, OthersKeep DEF OthersWait
<1> QED
  BY <1>1, <1>2, <1>4, <1>5, <1>6, <1>7 DEF PollFails, PopFails

(* So does every other step. *)
LEMMA StepPasses == TypeInv /\ PlaceInv /\ PassInv /\ [QueueNext]_queueVars => PassInv'
<1> SUFFICES ASSUME TypeInv, PlaceInv, PassInv, [QueueNext]_queueVars PROVE PassInv'
  OBVIOUS
<1>1. ASSUME ListMoves, \A v \in Workers : PollWaits(v) PROVE PassInv'
  BY <1>1, WaitsKeeps DEF PassInv
<1>2. ASSUME NEW r \in Requests, RequestStep(r) \/ RequestFails(r) \/ ClaimRequestFails(r)
      PROVE  PassInv'
  <2>1. UNCHANGED <<pc, reading, left>>
    BY <1>2 DEF RequestStep, ClaimRequest, EnqueueRequest, RequestFails, ClaimRequestFails,
                requestFrame
  <2>2. IssueRequest(r) \/ UNCHANGED <<queue, issued, owed>>
    BY <1>2 DEF RequestStep, ClaimRequest, EnqueueRequest, RequestFails, ClaimRequestFails
  <2>3. ListMoves /\ \A v \in Workers : owed'[v] \subseteq owed[v]
    BY <2>2, IssueRequestAdds, AddsPoll DEF ListMoves
  <2> QED
    BY <1>1, <2>1, <2>3 DEF PollWaits
<1>3. ASSUME NEW w \in Workers,
             Poll(w) \/ NextList(w) \/ Pop(w) \/ PushBack(w) \/ PollFails(w) \/ PopFails(w)
      PROVE  PassInv'
  BY <1>3, PollPasses
<1>4. ASSUME NEW w \in Workers, Crash(w) PROVE PassInv'
  <2>1. queue' = queue /\ EndPoll(w) /\ OnlyWorker(w)
    BY <1>4, OthersStay DEF Crash, redis
  <2> QED
    BY <2>1, OverKeeps, OthersKeep DEF OthersWait, ListMoves, PollWaits, OnlyWorker
<1>5. ASSUME NEW w \in Workers,
             \/ Ingest(w) \/ ClaimChild(w) \/ EnqueueChild(w) \/ ReleaseChild(w) \/ Finish(w)
             \/ Requeue(w) \/ ClaimChildFails(w) \/ ChildFails(w) \/ ReleaseFails(w) \/ BatchFails(w)
             \/ RequeueFails(w)
      PROVE  PassInv'
  <2>1. OnlyWorker(w) /\ UNCHANGED <<reading, left>>
    BY <1>5, OthersStay
       DEF WorkerStep, Ingest, ClaimChild, EnqueueChild, ReleaseChild, Finish, Requeue, ClaimChildFails,
           ChildFails, ReleaseFails, BatchFails, RequeueFails, poll
  <2>2. pc[w] \notin {"pop", "push"} /\ pc'[w] \notin {"pop", "push"}
    <3>1. pc[w] \notin {"pop", "push"}
      BY <1>5
         DEF Ingest, ClaimChild, EnqueueChild, ReleaseChild, Finish, Requeue, ClaimChildFails,
             ChildFails, ReleaseFails, BatchFails, RequeueFails
    <3>2. \E label \in Labels \ {"pop", "push"} : Goto(w, label)
      BY <1>5, AfterChildLabels
         DEF Ingest, ClaimChild, EnqueueChild, ReleaseChild, Finish, Requeue, ClaimChildFails,
             ChildFails, ReleaseFails, BatchFails, RequeueFails, BatchEnds, LoseJob, Rest, Labels
    <3> QED
      BY <3>1, <3>2 DEF Goto, TypeInv
  <2>3. ListMoves /\ \A v \in Workers : owed'[v] \subseteq owed[v]
    <3>1. CASE UNCHANGED <<queue, owed>>
      BY <3>1 DEF ListMoves
    <3>2. CASE pc[w] = "child" /\ IssueChild(w)
      BY <3>2, IssueChildAdds, AddsPoll
    <3>3. CASE Requeue(w)
      BY <3>3, RequeuePuts, PutAtPoll
    <3>4. UNCHANGED <<queue, owed>> \/ (pc[w] = "child" /\ IssueChild(w)) \/ Requeue(w)
      BY <1>5
         DEF Ingest, ClaimChild, EnqueueChild, ReleaseChild, Finish, ClaimChildFails,
             ChildFails, ReleaseFails, BatchFails, RequeueFails, redis, poll, workerFrame
    <3> QED
      BY <3>1, <3>2, <3>3, <3>4
  <2>4. \A v \in Workers : PollWaits(v)
    BY <2>1, <2>2, <2>3 DEF PollWaits, OnlyWorker
  <2> QED
    BY <1>1, <2>3, <2>4
<1>6. CASE Tick \/ UNCHANGED queueVars
  <2>1. UNCHANGED <<queue, pc, reading, left, owed>>
    BY <1>6 DEF Tick, queueVars, redis, poll
  <2> QED
    BY <1>1, <2>1 DEF ListMoves, PollWaits
<1> QED
  BY <1>2, <1>3, <1>4, <1>5, <1>6 DEF QueueNext, WorkerStep

(* A worker that goes on to the default list, or finds nothing to do, has met every job
   that waited when it counted, whatever the others take and put back meanwhile. *)
THEOREM NothingIsPassedOver == QueueSpec => []NothingPassedOver
<1>1. QueueInit => PassInv
  <2> SUFFICES ASSUME QueueInit PROVE PassInv
    OBVIOUS
  <2>1. \A w \in Workers : owed[w] = {}
    BY DEF QueueInit
  <2> QED
    BY <2>1 DEF PassInv, Within
<1>2. TypeInv /\ PassInv => NothingPassedOver
  <2> SUFFICES ASSUME TypeInv, PassInv,
                      NEW w \in Workers, NEW l \in Passed(w), NEW i \in DOMAIN queue[l]
               PROVE  queue[l][i].id \notin owed[w]
    BY DEF NothingPassedOver
  <2>1. CASE l = "priority" /\ reading[w] = "default"
    BY <2>1 DEF PassInv, Within, IdsIn
  <2>2. CASE l = reading[w] /\ left[w] = 0
    <3>1. queue[l] \in Seq(Entries)
      BY <2>2 DEF TypeInv
    <3>2. i \in Nat /\ ~ (i <= 0)
      BY <3>1
    <3> QED
      BY <2>2, <3>2 DEF PassInv, Within
  <2> QED
    BY <2>1, <2>2 DEF Passed
<1> QED
  BY <1>1, <1>2, TypeInit, TypeNext, PlaceInit, PlaceNext, StepPasses, PTL DEF QueueSpec
-----------------------------------------------------------------------------
(* The queue implements the backlog *)

(* What the backlog sees of lists, hands and ends. *)
Waiting == QueuedIds \cup {job.id : job \in Rotating}
Taken == [w \in Workers |-> IF pc[w] \in Busy THEN Held(w) ELSE {}]
Ended == done \cup lost

IsWaiting(i) ==
    \/ \E l \in Lists : i \in IdsIn(queue[l])
    \/ \E w \in Workers : Doing(w) = "rotates" /\ i \in HeldIn(hand[w])

TakenBy(w) == IF Doing(w) = "works" THEN HeldIn(hand[w]) ELSE {}

(* Jobs wait in a list or in the hand of a worker that turns a list over. *)
Seen ==
    /\ \A i : i \in Waiting <=> IsWaiting(i)
    /\ Taken = [w \in Workers |-> TakenBy(w)]
    /\ \A w \in Workers : /\ Doing(w) \in {"works", "rotates", "rests"}
                          /\ Doing(w) = "rests" <=> hand[w] = NoJob

(* The backlog sees lists, hands and ends in this way ... *)
LEMMA SeenNow == TypeInv => Seen
<1> SUFFICES ASSUME TypeInv PROVE Seen
  OBVIOUS
<1>1. \A i : i \in QueuedIds <=> \E l \in Lists : i \in IdsIn(queue[l])
  BY DEF QueuedIds, Queued, IdsIn
<1>2. \A w \in Workers : pc[w] = "push" <=> Doing(w) = "rotates"
  BY DEF Doing, Busy, Labels
<1>3. \A w \in Workers : pc[w] = "push" => HeldIn(hand[w]) = {hand[w].id}
  BY BusyHolds, HeldAre
<1>4. \A i : i \in {job.id : job \in Rotating}
                <=> \E w \in Workers : Doing(w) = "rotates" /\ i \in HeldIn(hand[w])
  BY <1>2, <1>3 DEF Rotating
<1>5. \A w \in Workers : (IF pc[w] \in Busy THEN Held(w) ELSE {}) = TakenBy(w)
  BY DEF TakenBy, Doing, Held, HeldIn
<1>6. \A w \in Workers : /\ Doing(w) \in {"works", "rotates", "rests"}
                         /\ Doing(w) = "rests" <=> hand[w] = NoJob
  BY DEF TypeInv, Holds, Doing, Busy, Labels
<1> QED
  BY <1>1, <1>4, <1>5, <1>6 DEF Waiting, IsWaiting, Taken, Seen

(* ... in the next state, too. *)
LEMMA SeenNext == TypeInv' => Seen'
BY SeenNow, PTL

(* The jobs of lists and hands are names of the backlog. *)
LEMMA Named ==
    ASSUME PlaceInv, 1..issued \subseteq JobIds
    PROVE  /\ \A l \in Lists : IdsIn(queue[l]) \subseteq JobIds
           /\ \A w \in Workers : HeldIn(hand[w]) \subseteq JobIds
BY DEF PlaceInv, NoneInvented

(* A step of the backlog, or none that it sees. *)
Implements ==
    \/ Waiting' = Waiting /\ Taken' = Taken /\ Ended' = Ended
    \/ \E j \in JobIds :
          \/ /\ j \notin Waiting \cup Ended \cup UNION {Taken[w] : w \in Workers}
             /\ Waiting' = Waiting \cup {j} /\ Taken' = Taken /\ Ended' = Ended
          \/ /\ j \in Waiting
             /\ Waiting' = Waiting \ {j} /\ Taken' = Taken /\ Ended' = Ended \cup {j}
          \/ \E w \in Workers :
                \/ /\ j \in Waiting /\ Taken[w] = {}
                   /\ Waiting' = Waiting \ {j} /\ Taken' = [Taken EXCEPT ![w] = {j}]
                   /\ Ended' = Ended
                \/ /\ j \in Taken[w] /\ Taken' = [Taken EXCEPT ![w] = {}]
                   /\ \/ Waiting' = Waiting /\ Ended' = Ended \cup {j}
                      \/ Waiting' = Waiting \cup {j} /\ Ended' = Ended

(* The jobs taken are the same, ... *)
LEMMA SameTaken ==
    ASSUME Seen, Seen', \A v \in Workers : TakenBy(v)' = TakenBy(v)
    PROVE  Taken' = Taken
BY DEF Seen

(* ... or those of one worker change. *)
LEMMA OneTaken ==
    ASSUME Seen, Seen', NEW w \in Workers, NEW S, TakenBy(w)' = S,
           \A v \in Workers \ {w} : TakenBy(v)' = TakenBy(v)
    PROVE  Taken' = [Taken EXCEPT ![w] = S]
BY DEF Seen

(* A new job is added to the backlog. *)
LEMMA ComesImplements ==
    ASSUME Seen, Seen', TypeInv, PlaceInv, NEW l \in Lists, NEW e \in Entries, Comes(l, e),
           1..issued' \subseteq JobIds
    PROVE  Implements
<1> DEFINE j == e.id
<1>1. /\ issued \in Nat /\ j = issued + 1 /\ issued' = issued + 1 /\ UNCHANGED <<hand, done, lost>>
      /\ queue' = [queue EXCEPT ![l] = Append(@, e)]
      /\ \A v \in Workers : Doing(v)' = Doing(v)
  BY DEF Comes, TypeInv, Still
<1>2. j \in JobIds /\ j \notin 1..issued
  BY <1>1
<1>3. /\ \A m \in Lists : m # l => queue'[m] = queue[m]
      /\ IdsIn(queue'[l]) = IdsIn(queue[l]) \cup {j}
  BY <1>1, ListGets
<1>4. \A i : IsWaiting(i)' <=> IsWaiting(i) \/ i = j
  BY <1>1, <1>3 DEF IsWaiting
<1>5. Waiting' = Waiting \cup {j}
  BY <1>4 DEF Seen
<1>6. Taken' = Taken /\ Ended' = Ended
  BY <1>1, SameTaken DEF TakenBy, Ended
<1>7. j \notin Waiting /\ j \notin Ended /\ \A v \in Workers : j \notin Taken[v]
  BY <1>2 DEF Seen, IsWaiting, TakenBy, Ended, PlaceInv, NoneInvented
<1> QED
  BY <1>2, <1>5, <1>6, <1>7 DEF Implements

(* A job that is due is taken; one that is not still waits. *)
LEMMA TakesImplements ==
    ASSUME Seen, Seen', TypeInv, PlaceInv, NEW w \in Workers, NEW l \in Lists, Takes(w, l),
           1..issued \subseteq JobIds
    PROVE  Implements
<1> DEFINE j == Head(queue[l]).id
<1>1. /\ hand[w] = NoJob /\ hand' = [hand EXCEPT ![w] = Head(queue[l])]
      /\ UNCHANGED <<done, lost>>
      /\ \A v \in Workers \ {w} : Doing(v)' = Doing(v)
  BY DEF Takes, Still
<1>2. /\ Head(queue[l]) \in Entries /\ j \in IdsIn(queue[l])
      /\ \A m \in Lists : m # l => queue'[m] = queue[m]
      /\ IdsIn(queue'[l]) = IdsIn(queue[l]) \ {j}
  BY ListGives DEF Takes, PlaceInv, ListsApart
<1>3. /\ HeldIn(hand[w]) = {} /\ HeldIn(hand'[w]) = {j} /\ hand'[w] # NoJob
      /\ \A v \in Workers : v # w => hand'[v] = hand[v]
  BY <1>1, <1>2, HeldAre, EntryTypes DEF TypeInv
<1>4. j \in JobIds /\ Ended' = Ended
  BY <1>1, <1>2, Named DEF Ended
<1>5. Doing(w) = "rests" /\ Doing(w)' \in {"works", "rotates"}
  BY <1>1, <1>3 DEF Seen
<1>6. \A i : IsWaiting(i)' <=> (IsWaiting(i) /\ i # j) \/ (i = j /\ Doing(w)' = "rotates")
  <2>1. \A m \in Lists : m # l => j \notin IdsIn(queue[m])
    BY <1>2 DEF PlaceInv, ListsApart
  <2>2. \A v \in Workers : j \notin HeldIn(hand[v])
    BY <1>2 DEF PlaceInv, HandsApart
  <2> QED
    BY <1>1, <1>2, <1>3, <1>5, <2>1, <2>2 DEF IsWaiting
<1>7. j \in Waiting
  BY <1>2 DEF Seen, IsWaiting
<1>8. CASE Doing(w)' = "works"
  <2>1. Waiting' = Waiting \ {j}
    BY <1>6, <1>8 DEF Seen
  <2>2. Taken' = [Taken EXCEPT ![w] = {j}]
    BY <1>1, <1>3, <1>8, OneTaken DEF TakenBy
  <2>3. Taken[w] = {}
    BY <1>5 DEF Seen, TakenBy
  <2> QED
    BY <1>4, <1>7, <2>1, <2>2, <2>3 DEF Implements
<1>9. CASE Doing(w)' = "rotates"
  <2>1. Waiting' = Waiting
    BY <1>6, <1>7, <1>9 DEF Seen
  <2>2. Taken' = Taken
    BY <1>1, <1>3, <1>5, <1>9, SameTaken DEF TakenBy
  <2> QED
    BY <1>4, <2>1, <2>2 DEF Implements
<1> QED
  BY <1>5, <1>8, <1>9

(* A job that is retried returns; one that was turned over has waited all along. *)
LEMMA ReturnsImplements ==
    ASSUME Seen, Seen', TypeInv, PlaceInv, NEW w \in Workers, NEW l \in Lists, NEW e \in Entries,
           Returns(w, l, e), 1..issued \subseteq JobIds
    PROVE  Implements
<1> DEFINE j == e.id
<1>1. /\ hand[w] \in Entries /\ j = hand[w].id /\ UNCHANGED <<done, lost>>
      /\ queue' = [queue EXCEPT ![l] = Append(@, e)]
      /\ \A v \in Workers \ {w} : Doing(v)' = Doing(v)
  BY DEF Returns, Still
<1>2. /\ HeldIn(hand[w]) = {j} /\ HeldIn(hand'[w]) = {} /\ hand[w] # NoJob /\ hand'[w] = NoJob
      /\ \A v \in Workers : v # w => hand'[v] = hand[v]
  BY <1>1, HeldAre, EntryTypes DEF Returns, TypeInv
<1>3. /\ \A m \in Lists : m # l => queue'[m] = queue[m]
      /\ IdsIn(queue'[l]) = IdsIn(queue[l]) \cup {j}
  BY <1>1, ListGets
<1>4. j \in JobIds /\ Ended' = Ended
  BY <1>1, <1>2, Named DEF Ended
<1>5. Doing(w) \in {"works", "rotates"} /\ Doing(w)' = "rests"
  BY <1>2 DEF Seen
<1>6. \A i : IsWaiting(i)' <=> IsWaiting(i) \/ i = j
  BY <1>1, <1>2, <1>3, <1>5 DEF IsWaiting
<1>7. Waiting' = Waiting \cup {j}
  BY <1>6 DEF Seen
<1>8. CASE Doing(w) = "works"
  <2>1. j \in Taken[w]
    BY <1>2, <1>8 DEF Seen, TakenBy
  <2>2. Taken' = [Taken EXCEPT ![w] = {}]
    BY <1>1, <1>2, <1>5, OneTaken DEF TakenBy
  <2> QED
    BY <1>4, <1>7, <2>1, <2>2 DEF Implements
<1>9. CASE Doing(w) = "rotates"
  <2>1. j \in Waiting
    BY <1>2, <1>9 DEF Seen, IsWaiting
  <2>2. Taken' = Taken
    BY <1>1, <1>2, <1>5, <1>9, SameTaken DEF TakenBy
  <2> QED
    BY <1>4, <1>7, <2>1, <2>2 DEF Implements
<1> QED
  BY <1>5, <1>8, <1>9

(* A job ends; one that was lost while a worker turned it over is dropped. *)
LEMMA EndsImplements ==
    ASSUME Seen, Seen', TypeInv, PlaceInv, NEW w \in Workers, Ends(w), 1..issued \subseteq JobIds
    PROVE  Implements
<1> DEFINE j == hand[w].id
<1>1. /\ hand[w] \in Entries /\ UNCHANGED queue /\ Ended' = Ended \cup {j}
      /\ \A v \in Workers \ {w} : Doing(v)' = Doing(v)
  BY DEF Ends, Ended, Still
<1>2. /\ HeldIn(hand[w]) = {j} /\ HeldIn(hand'[w]) = {} /\ hand[w] # NoJob /\ hand'[w] = NoJob
      /\ \A v \in Workers : v # w => hand'[v] = hand[v]
  BY <1>1, HeldAre, EntryTypes DEF Ends, TypeInv
<1>3. j \in JobIds
  BY <1>2, Named
<1>4. Doing(w) \in {"works", "rotates"} /\ Doing(w)' = "rests"
  BY <1>2 DEF Seen
<1>5. \A i : IsWaiting(i)' <=> IsWaiting(i) /\ ~ (i = j /\ Doing(w) = "rotates")
  BY <1>1, <1>2, <1>4 DEF IsWaiting, PlaceInv, HandsApart
<1>6. CASE Doing(w) = "works"
  <2>1. j \in Taken[w] /\ Waiting' = Waiting
    BY <1>2, <1>5, <1>6 DEF Seen, TakenBy
  <2>2. Taken' = [Taken EXCEPT ![w] = {}]
    BY <1>1, <1>2, <1>4, OneTaken DEF TakenBy
  <2> QED
    BY <1>1, <1>3, <2>1, <2>2 DEF Implements
<1>7. CASE Doing(w) = "rotates"
  <2>1. j \in Waiting
    BY <1>2, <1>7 DEF Seen, IsWaiting
  <2>2. Waiting' = Waiting \ {j}
    BY <1>5, <1>7 DEF Seen
  <2>3. Taken' = Taken
    BY <1>1, <1>2, <1>4, <1>7, SameTaken DEF TakenBy
  <2> QED
    BY <1>1, <1>3, <2>1, <2>2, <2>3 DEF Implements
<1> QED
  BY <1>4, <1>6, <1>7

(* A job that a failing pop took off is dropped. *)
LEMMA DropsImplements ==
    ASSUME Seen, Seen', TypeInv, PlaceInv, NEW l \in Lists, Drops(l), 1..issued \subseteq JobIds
    PROVE  Implements
<1> DEFINE j == Head(queue[l]).id
<1>1. /\ Ended' = Ended \cup {j} /\ UNCHANGED hand
      /\ \A v \in Workers : Doing(v)' = Doing(v)
  BY DEF Drops, Ended, Still
<1>2. /\ j \in IdsIn(queue[l])
      /\ \A m \in Lists : m # l => queue'[m] = queue[m]
      /\ IdsIn(queue'[l]) = IdsIn(queue[l]) \ {j}
  BY ListGives DEF Drops, PlaceInv, ListsApart
<1>3. j \in JobIds /\ j \in Waiting
  BY <1>2, Named DEF Seen, IsWaiting
<1>4. \A i : IsWaiting(i)' <=> IsWaiting(i) /\ i # j
  <2>1. \A m \in Lists : m # l => j \notin IdsIn(queue[m])
    BY <1>2 DEF PlaceInv, ListsApart
  <2>2. \A v \in Workers : j \notin HeldIn(hand[v])
    BY <1>2 DEF PlaceInv, HandsApart
  <2> QED
    BY <1>1, <1>2, <2>1, <2>2 DEF IsWaiting
<1>5. Waiting' = Waiting \ {j}
  BY <1>4 DEF Seen
<1>6. Taken' = Taken
  BY <1>1, SameTaken DEF TakenBy
<1> QED
  BY <1>1, <1>3, <1>5, <1>6 DEF Implements

(* Every step is a step of the backlog or invisible. *)
LEMMA StepImplements ==
    ASSUME Seen, Seen', TypeInv, PlaceInv, [QueueNext]_queueVars,
           1..issued \subseteq JobIds, 1..issued' \subseteq JobIds
    PROVE  Implements
<1>1. CASE Stays
  <2>1. \A i : IsWaiting(i)' <=> IsWaiting(i)
    BY <1>1 DEF Stays, Still, IsWaiting
  <2>2. Taken' = Taken /\ Ended' = Ended
    BY <1>1, SameTaken DEF Stays, Still, TakenBy, Ended
  <2>3. Waiting' = Waiting
    BY <2>1 DEF Seen
  <2> QED
    BY <2>2, <2>3 DEF Implements
<1> QED
  BY <1>1, StepMoves, ComesImplements, TakesImplements, ReturnsImplements, EndsImplements,
     DropsImplements DEF Moves

(* The queue keeps the backlog's promise for all the jobs that have a name there: each waits
   until one worker takes it, and then it is done, or waits again, or is lost. *)
THEOREM QueueImplementsBacklog ==
    QueueSpec /\ [](1..issued \subseteq JobIds) => ImplementsBacklog
<1>1. QueueInit => Backlog!Init
  <2> SUFFICES ASSUME QueueInit PROVE Backlog!Init
    OBVIOUS
  <2>1. QueuedIds = {} /\ Rotating = {} /\ done \cup lost = {}
    BY DEF QueueInit, QueuedIds, Queued, Rotating
  <2>2. \A w \in Workers : pc[w] \notin Busy
    BY DEF QueueInit, Busy
  <2> QED
    BY <2>1, <2>2 DEF Backlog!Init
<1>2. ASSUME Implements PROVE [Backlog!Next]_(Backlog!backlogVars)
  BY <1>2 DEF Implements, Waiting, Taken, Ended, Backlog!Next, Backlog!Add, Backlog!Take,
              Backlog!End, Backlog!Return, Backlog!Drop, Backlog!Known, Backlog!backlogVars
<1>3. /\ TypeInv /\ TypeInv' /\ PlaceInv /\ [QueueNext]_queueVars
      /\ 1..issued \subseteq JobIds /\ (1..issued \subseteq JobIds)'
      => [Backlog!Next]_(Backlog!backlogVars)
  BY <1>2, SeenNow, SeenNext, StepImplements
<1> QED
  BY <1>1, <1>3, TypeInit, TypeNext, PlaceInit, PlaceNext, PTL
     DEF QueueSpec, ImplementsBacklog, Backlog!Spec
-----------------------------------------------------------------------------
(* Tracking. *)
USE LimitAssumption, SetupAssumption, SyncBoundsAssumption

(* A run that has begun has wallets to register: the limit leaves at least one. *)
SyncTypeInv ==
    /\ SyncTypeOK
    /\ \A s \in Syncs : syncing[s] # "idle" => refs[s] # {}

(* Addresses whose rows may say active. *)
Known == Registered \cup displaced \cup counterparties

(* What makes the claim inductive: a run that is to write active rows writes them for
   addresses that are known already. *)
HonestInv ==
    /\ ActiveUnlessNamed
    /\ \A s \in Syncs :
          syncing[s] = "write" /\ outcome[s] = "active" => unwritten[s] \subseteq Known
-----------------------------------------------------------------------------
(* A listing has wallets of the list, and is not empty when the list is not. *)
LEMMA ListingsNotEmpty ==
    ASSUME listed \in SUBSET Addresses, listed # {}, NEW S \in Listings
    PROVE  S \in SUBSET Addresses /\ S # {}
<1>1. CASE Cardinality(listed) <= Limit
  BY <1>1 DEF Listings
<1>2. CASE ~(Cardinality(listed) <= Limit)
  <2>1. S \in SUBSET listed /\ Cardinality(S) = Limit
    BY <1>2 DEF Listings
  <2>2. Cardinality({}) = 0
    BY FS_EmptySet
  <2> QED
    BY <2>1, <2>2
<1> QED
  BY <1>1, <1>2

(* What the call does at the provider keeps its lists, their number and what is known. *)
LEMMA AppliesKeeps ==
    ASSUME SyncTypeInv, NEW s \in Syncs, syncing[s] \in {"replace", "create"}, Applies(s)
    PROVE  /\ hooks' \in Seq(SUBSET Addresses)
           /\ Len(hooks') >= Len(hooks)
           /\ displaced' \in SUBSET Addresses
           /\ Registered \cup displaced \subseteq Registered' \cup displaced'
           /\ refs[s] \subseteq Registered'
<1> USE DEF SyncTypeInv, SyncTypeOK
<1>1. refs[s] \in SUBSET Addresses
  OBVIOUS
<1>2. /\ hooks' \in Seq(SUBSET Addresses) /\ Len(hooks') >= Len(hooks)
      /\ \E i \in DOMAIN hooks' : hooks'[i] = refs[s]
  <2>1. CASE syncing[s] = "create"
    <3>1. hooks' = Append(hooks, refs[s])
      BY <2>1 DEF Applies
    <3>2. hooks' \in Seq(SUBSET Addresses) /\ Len(hooks') = Len(hooks) + 1
      BY <1>1, <3>1
    <3>3. hooks'[Len(hooks) + 1] = refs[s]
      BY <1>1, <3>1
    <3> QED
      BY <3>2, <3>3
  <2>2. CASE syncing[s] = "replace"
    <3>1. hooks' = [hooks EXCEPT ![hook[s]] = refs[s]] /\ hook[s] \in DOMAIN hooks
      BY <2>2 DEF Applies
    <3> QED
      BY <1>1, <3>1
  <2> QED
    BY <2>1, <2>2
<1>3. Registered \in SUBSET Addresses
  BY DEF Registered
<1>4. displaced' = (displaced \cup Registered) \ Registered'
  BY DEF Applies, Registered
<1>5. displaced' \in SUBSET Addresses
  BY <1>3, <1>4
<1>6. refs[s] \subseteq Registered'
  BY <1>2 DEF Registered
<1>7. Registered \cup displaced \subseteq Registered' \cup displaced'
  BY <1>4
<1> QED
  BY <1>2, <1>5, <1>6, <1>7

(* Tracking a wallet keeps the types. *)
LEMMA TrackType ==
    ASSUME SyncTypeInv, NEW w \in Addresses, Track(w)
    PROVE  SyncTypeInv'
  BY DEF Track, SyncTypeInv, SyncTypeOK

(* An accepted event keeps the types. *)
LEMMA AcceptType ==
    ASSUME SyncTypeInv, NEW w \in Addresses, NEW other \in Addresses, AcceptEvent(w, other)
    PROVE  SyncTypeInv'
<1> USE DEF SyncTypeInv, SyncTypeOK
<1>1. subscription' \in [Addresses -> {"none", "pending", "active", "errored"}]
  BY DEF AcceptEvent
<1>2. counterparties' \in SUBSET Addresses
  BY DEF AcceptEvent
<1>3. UNCHANGED <<setup, listed, hooks, syncing, refs, hook, outcome, unwritten, syncFailures,
                  displaced>>
  BY DEF AcceptEvent
<1> QED
  BY <1>1, <1>2, <1>3

(* A run that lists, asks or is answered. *)
LEMMA ListType ==
    ASSUME SyncTypeInv, NEW s \in Syncs, List(s)
    PROVE  SyncTypeInv'
<1> USE DEF SyncTypeInv, SyncTypeOK
<1>1. PICK S \in Listings : refs' = [refs EXCEPT ![s] = S]
  BY DEF List
<1>2. S \in SUBSET Addresses /\ S # {}
  BY ListingsNotEmpty DEF List
<1>3. /\ refs' \in [Syncs -> SUBSET Addresses] /\ refs'[s] = S
      /\ \A t \in Syncs \ {s} : refs'[t] = refs[t]
  BY <1>1, <1>2
<1>4. UNCHANGED <<setup, listed, syncFailures, counterparties, subscription, hooks, displaced>>
  BY DEF List, syncFrame
<1>5. CASE setup = "none"
  <2>1. Write(s, "pending") /\ hook' = hook
    BY <1>5 DEF List
  <2> QED
    BY <1>2, <1>3, <1>4, <2>1 DEF Write
<1>6. CASE setup = "webhook"
  <2>1. /\ syncing' = [syncing EXCEPT ![s] = "replace"]
        /\ hook' = [hook EXCEPT ![s] = 1]
        /\ UNCHANGED <<outcome, unwritten>>
    BY <1>6 DEF List
  <2>2. 1 \in DOMAIN hooks
    BY <1>6
  <2> QED
    BY <1>2, <1>3, <1>4, <2>1, <2>2
<1>7. CASE setup = "callback"
  <2>1. syncing' = [syncing EXCEPT ![s] = "find"] /\ UNCHANGED <<hook, outcome, unwritten>>
    BY <1>7 DEF List
  <2> QED
    BY <1>2, <1>3, <1>4, <2>1
<1> QED
  BY <1>5, <1>6, <1>7

(* A job that is found keeps the types. *)
LEMMA FindType ==
    ASSUME SyncTypeInv, NEW s \in Syncs, Find(s)
    PROVE  SyncTypeInv'
<1> USE DEF SyncTypeInv, SyncTypeOK
<1>1. UNCHANGED <<setup, listed, syncFailures, counterparties, subscription, hooks, refs,
                  outcome, unwritten, displaced>>
  BY DEF Find, syncFrame
<1>2. CASE hooks = <<>>
  BY <1>1, <1>2 DEF Find
<1>3. CASE hooks # <<>>
  <2>1. PICK i \in DOMAIN hooks : hook' = [hook EXCEPT ![s] = i]
    BY <1>3 DEF Find
  <2>2. i \in Nat
    BY <2>1
  <2>3. syncing' = [syncing EXCEPT ![s] = "replace"] /\ syncing[s] = "find"
    BY <1>3 DEF Find
  <2> QED
    BY <1>1, <2>1, <2>2, <2>3
<1> QED
  BY <1>2, <1>3

(* The provider's answer, a success or an error. *)
LEMMA AnswerType ==
    ASSUME SyncTypeInv, NEW s \in Syncs, NEW result \in {"active", "errored"},
           syncing[s] \in {"find", "replace", "create"},
           \/ UNCHANGED <<hooks, displaced>>
           \/ syncing[s] # "find" /\ Applies(s),
           syncFailures' \in 0..MaxSyncFailures,
           refs' = refs, Write(s, result),
           UNCHANGED <<setup, listed, counterparties, subscription, hook>>
    PROVE  SyncTypeInv'
<1>1. /\ hooks' \in Seq(SUBSET Addresses) /\ displaced' \in SUBSET Addresses
      /\ Len(hooks') >= Len(hooks)
  BY AppliesKeeps DEF SyncTypeInv, SyncTypeOK
<1> USE DEF SyncTypeInv, SyncTypeOK
<1>2. /\ hooks # <<>> => hooks' # <<>>
      /\ DOMAIN hooks \subseteq DOMAIN hooks'
  BY <1>1
<1>3. /\ syncing' = [syncing EXCEPT ![s] = "write"]
      /\ outcome' = [outcome EXCEPT ![s] = result]
      /\ unwritten' = [unwritten EXCEPT ![s] = refs[s]]
  BY DEF Write
<1> QED
  BY <1>1, <1>2, <1>3

(* A run that ends leaves the others as they are. *)
LEMMA RunEndsTypes ==
    ASSUME SyncTypeInv, NEW s \in Syncs, RunEnds(s)
    PROVE  /\ syncing' \in [Syncs -> {"idle", "find", "replace", "create", "write"}]
           /\ refs' \in [Syncs -> SUBSET Addresses] /\ unwritten' \in [Syncs -> SUBSET Addresses]
           /\ hook' \in [Syncs -> Nat]
           /\ outcome' \in [Syncs -> {"pending", "active", "errored"}]
           /\ syncing'[s] = "idle"
           /\ \A t \in Syncs \ {s} :
                 /\ syncing'[t] = syncing[t] /\ refs'[t] = refs[t] /\ hook'[t] = hook[t]
                 /\ outcome'[t] = outcome[t] /\ unwritten'[t] = unwritten[t]
  BY DEF RunEnds, SyncTypeInv, SyncTypeOK

(* A row that is written keeps the types. *)
LEMMA WriteRowType ==
    ASSUME SyncTypeInv, NEW s \in Syncs, WriteRow(s)
    PROVE  SyncTypeInv'
<1> USE DEF SyncTypeInv, SyncTypeOK
<1>1. PICK w \in unwritten[s] :
         /\ subscription' = [subscription EXCEPT ![w] = outcome[s]]
         /\ IF unwritten[s] = {w} THEN RunEnds(s)
            ELSE /\ unwritten' = [unwritten EXCEPT ![s] = @ \ {w}]
                 /\ UNCHANGED <<syncing, refs, hook, outcome>>
  BY DEF WriteRow
<1>2. UNCHANGED <<setup, listed, syncFailures, counterparties, hooks, displaced>>
  BY DEF WriteRow, syncFrame
<1>3. subscription' \in [Addresses -> {"none", "pending", "active", "errored"}]
  BY <1>1
<1>4. CASE unwritten[s] = {w}
  <2>1. RunEnds(s)
    BY <1>1, <1>4
  <2>2. /\ syncing' \in [Syncs -> {"idle", "find", "replace", "create", "write"}]
        /\ refs' \in [Syncs -> SUBSET Addresses] /\ unwritten' \in [Syncs -> SUBSET Addresses]
        /\ hook' \in [Syncs -> Nat] /\ outcome' \in [Syncs -> {"pending", "active", "errored"}]
        /\ syncing'[s] = "idle"
        /\ \A t \in Syncs \ {s} : /\ syncing'[t] = syncing[t] /\ refs'[t] = refs[t]
                                 /\ hook'[t] = hook[t] /\ unwritten'[t] = unwritten[t]
    BY <2>1, RunEndsTypes
  <2>3. \A t \in Syncs :
           /\ syncing'[t] = "write" => unwritten'[t] # {} /\ unwritten'[t] \subseteq refs'[t]
           /\ syncing'[t] = "replace" => hook'[t] \in DOMAIN hooks'
           /\ syncing'[t] # "idle" => refs'[t] # {}
    BY <1>2, <2>2
  <2> QED
    BY <1>2, <1>3, <2>2, <2>3
<1>5. CASE unwritten[s] # {w}
  <2>1. /\ unwritten' = [unwritten EXCEPT ![s] = @ \ {w}]
        /\ UNCHANGED <<syncing, refs, hook, outcome>>
    BY <1>1, <1>5
  <2>2. unwritten'[s] # {} /\ unwritten'[s] \subseteq unwritten[s]
    BY <1>1, <1>5, <2>1
  <2> QED
    BY <1>2, <1>3, <2>1, <2>2
<1> QED
  BY <1>4, <1>5

(* A run that fails keeps the types. *)
LEMMA RunFailsType ==
    ASSUME SyncTypeInv, NEW s \in Syncs, RunFails(s)
    PROVE  SyncTypeInv'
<1>1. /\ RunEnds(s)
      /\ UNCHANGED <<setup, listed, subscription, hooks, displaced, counterparties>>
      /\ syncFailures < MaxSyncFailures /\ syncFailures' = syncFailures + 1
  BY DEF RunFails
<1>2. syncFailures' \in 0..MaxSyncFailures
  BY <1>1 DEF SyncTypeInv, SyncTypeOK
<1> QED
  BY <1>1, <1>2, RunEndsTypes DEF SyncTypeInv, SyncTypeOK
-----------------------------------------------------------------------------
(* The types of the run that syncs are invariant. *)
LEMMA SyncTypeInvariant == SyncSpec => []SyncTypeInv
<1>1. SyncInit => SyncTypeInv
  <2> SUFFICES ASSUME SyncInit PROVE SyncTypeInv
    OBVIOUS
  <2>1. hooks \in Seq(SUBSET Addresses) /\ (setup = "webhook" => hooks # <<>>)
    <3>1. <<{}>> \in Seq(SUBSET Addresses) /\ <<{}>> # <<>> /\ <<>> \in Seq(SUBSET Addresses)
      OBVIOUS
    <3> QED
      BY <3>1 DEF SyncInit
  <2> QED
    BY <2>1 DEF SyncInit, SyncTypeInv, SyncTypeOK
<1>2. SyncTypeInv /\ [SyncNext]_syncVars => SyncTypeInv'
  <2> SUFFICES ASSUME SyncTypeInv, [SyncNext]_syncVars PROVE SyncTypeInv'
    OBVIOUS
  <2>1. CASE UNCHANGED syncVars
    BY <2>1 DEF syncVars, SyncTypeInv, SyncTypeOK
  <2>2. ASSUME NEW w \in Addresses, Track(w) PROVE SyncTypeInv'
    BY <2>2, TrackType
  <2>3. ASSUME NEW w \in Addresses, NEW other \in Addresses, AcceptEvent(w, other)
        PROVE  SyncTypeInv'
    BY <2>3, AcceptType
  <2>4. ASSUME NEW s \in Syncs, Reconcile(s) PROVE SyncTypeInv'
    <3>1. syncFailures' \in 0..MaxSyncFailures
      BY <2>4 DEF Reconcile, syncFrame, SyncTypeInv, SyncTypeOK
    <3> QED
      BY <2>4, <3>1, AnswerType DEF Reconcile, syncFrame
  <2>5. ASSUME NEW s \in Syncs, ReconcileFails(s) PROVE SyncTypeInv'
    <3>1. syncFailures' \in 0..MaxSyncFailures
      BY <2>5 DEF ReconcileFails, SyncTypeInv, SyncTypeOK
    <3> QED
      BY <2>5, <3>1, AnswerType DEF ReconcileFails
  <2> QED
    BY <2>1, <2>2, <2>3, <2>4, <2>5, ListType, FindType, WriteRowType, RunFailsType
    DEF SyncNext, SyncStep
<1> QED
  BY <1>1, <1>2, PTL DEF SyncSpec

(* Every variable keeps its type, whatever the calls return and however runs overlap. *)
THEOREM SyncTypeCorrect == SyncSpec => []SyncTypeOK
<1>1. SyncTypeInv => SyncTypeOK
  BY DEF SyncTypeInv
<1> QED
  BY <1>1, SyncTypeInvariant, PTL
-----------------------------------------------------------------------------
(* Nothing that is known is forgotten: an address leaves the provider's lists only to be
   displaced. *)
LEMMA KnownGrows ==
    ASSUME SyncTypeInv, [SyncNext]_syncVars
    PROVE  Known \subseteq Known'
<1>1. CASE UNCHANGED <<hooks, displaced>>
  <2>1. counterparties \subseteq counterparties'
    BY DEF SyncNext, SyncStep, Track, AcceptEvent, List, Find, Reconcile, WriteRow,
       ReconcileFails, RunFails, syncFrame, syncVars
  <2>2. Registered' = Registered /\ displaced' = displaced
    BY <1>1 DEF Registered
  <2> QED
    BY <2>1, <2>2 DEF Known
<1>2. ASSUME NEW s \in Syncs, syncing[s] \in {"replace", "create"}, Applies(s),
             counterparties' = counterparties
      PROVE  Known \subseteq Known'
  BY <1>2, AppliesKeeps DEF Known
<1>3. \/ UNCHANGED <<hooks, displaced>>
      \/ \E s \in Syncs : /\ syncing[s] \in {"replace", "create"} /\ Applies(s)
                          /\ counterparties' = counterparties
  BY DEF SyncNext, SyncStep, Track, AcceptEvent, List, Find, Reconcile, WriteRow,
     ReconcileFails, RunFails, syncFrame, syncVars
<1> QED
  BY <1>1, <1>2, <1>3

(* The rows change only as a run or an event writes them. *)
LEMMA HonestStep ==
    ASSUME SyncTypeInv, HonestInv, [SyncNext]_syncVars
    PROVE  HonestInv'
<1>1. Known \subseteq Known'
  BY KnownGrows
<1>2. ASSUME subscription' = subscription PROVE ActiveUnlessNamed'
  BY <1>1, <1>2 DEF HonestInv, ActiveUnlessNamed, Known
<1>3. ASSUME UNCHANGED <<syncing, outcome, unwritten>>,
             NEW s \in Syncs, syncing'[s] = "write", outcome'[s] = "active"
      PROVE  unwritten'[s] \subseteq Known'
  BY <1>1, <1>3 DEF HonestInv
<1>4. CASE UNCHANGED syncVars
  BY <1>2, <1>3, <1>4 DEF HonestInv, syncVars
<1>5. ASSUME NEW w \in Addresses, Track(w) PROVE HonestInv'
  BY <1>2, <1>3, <1>5 DEF HonestInv, Track
<1>6. ASSUME NEW w \in Addresses, NEW other \in Addresses, AcceptEvent(w, other)
      PROVE  HonestInv'
  <2>1. w \in Known' /\ other \in Known'
    BY <1>1, <1>6 DEF AcceptEvent, Known
  <2>2. PICK rows \in SUBSET {w, other} :
           subscription' = [v \in Addresses |-> IF v \in rows THEN "active" ELSE subscription[v]]
    BY <1>6 DEF AcceptEvent
  <2>3. ActiveUnlessNamed'
    BY <1>1, <2>1, <2>2 DEF HonestInv, ActiveUnlessNamed, Known
  <2> QED
    BY <1>3, <1>6, <2>3 DEF HonestInv, AcceptEvent
<1>7. ASSUME NEW s \in Syncs, WriteRow(s) PROVE HonestInv'
  <2>1. PICK w \in unwritten[s] :
           /\ subscription' = [subscription EXCEPT ![w] = outcome[s]]
           /\ IF unwritten[s] = {w} THEN RunEnds(s)
              ELSE /\ unwritten' = [unwritten EXCEPT ![s] = @ \ {w}]
                   /\ UNCHANGED <<syncing, refs, hook, outcome>>
    BY <1>7 DEF WriteRow
  <2>2. outcome[s] = "active" => w \in Known'
    BY <1>1, <1>7, <2>1 DEF HonestInv, WriteRow
  <2>3. ActiveUnlessNamed'
    BY <1>1, <2>1, <2>2 DEF HonestInv, ActiveUnlessNamed, Known, SyncTypeInv, SyncTypeOK
  <2>4. ASSUME NEW t \in Syncs, syncing'[t] = "write", outcome'[t] = "active"
        PROVE  unwritten'[t] \subseteq Known'
    <3>1. /\ syncing[t] = "write" /\ outcome[t] = "active"
          /\ unwritten'[t] \subseteq unwritten[t]
      <4>1. CASE unwritten[s] = {w}
        BY <2>1, <2>4, <4>1, RunEndsTypes
      <4>2. CASE unwritten[s] # {w}
        <5>1. unwritten' = [unwritten EXCEPT ![s] = @ \ {w}] /\ UNCHANGED <<syncing, outcome>>
          BY <2>1, <4>2
        <5>2. unwritten \in [Syncs -> SUBSET Addresses]
          BY DEF SyncTypeInv, SyncTypeOK
        <5> QED
          BY <2>4, <5>1, <5>2
      <4> QED
        BY <4>1, <4>2
    <3> QED
      BY <1>1, <3>1 DEF HonestInv
  <2> QED
    BY <2>3, <2>4 DEF HonestInv
<1>8. ASSUME NEW s \in Syncs, List(s) \/ Find(s) \/ RunFails(s) PROVE HonestInv'
  <2>1. subscription' = subscription
    BY <1>8 DEF List, Find, RunFails
  <2>2. ASSUME NEW t \in Syncs, syncing'[t] = "write", outcome'[t] = "active"
        PROVE  /\ syncing[t] = "write" /\ outcome[t] = "active"
               /\ unwritten'[t] = unwritten[t]
    <3>1. CASE List(s)
      BY <2>2, <3>1 DEF List, Write, SyncTypeInv, SyncTypeOK
    <3>2. CASE Find(s)
      BY <2>2, <3>2 DEF Find, SyncTypeInv, SyncTypeOK
    <3>3. CASE RunFails(s)
      BY <2>2, <3>3, RunEndsTypes DEF RunFails
    <3> QED
      BY <1>8, <3>1, <3>2, <3>3
  <2> QED
    BY <1>1, <1>2, <2>1, <2>2 DEF HonestInv
<1>9. ASSUME NEW s \in Syncs, Reconcile(s) PROVE HonestInv'
  <2>1. subscription' = subscription
    BY <1>9 DEF Reconcile
  <2>2. unwritten' = [unwritten EXCEPT ![s] = refs[s]] /\ refs[s] \subseteq Known'
    BY <1>9, AppliesKeeps DEF Reconcile, Write, Known
  <2>3. ASSUME NEW t \in Syncs, syncing'[t] = "write", outcome'[t] = "active"
        PROVE  unwritten'[t] \subseteq Known'
    BY <1>1, <1>9, <2>2, <2>3 DEF Reconcile, Write, HonestInv, SyncTypeInv, SyncTypeOK
  <2> QED
    BY <1>2, <2>1, <2>3 DEF HonestInv
<1>10. ASSUME NEW s \in Syncs, ReconcileFails(s) PROVE HonestInv'
  <2>1. subscription' = subscription
    BY <1>10 DEF ReconcileFails
  <2>2. ASSUME NEW t \in Syncs, syncing'[t] = "write", outcome'[t] = "active"
        PROVE  /\ syncing[t] = "write" /\ outcome[t] = "active"
               /\ unwritten'[t] = unwritten[t]
    BY <1>10, <2>2 DEF ReconcileFails, Write, SyncTypeInv, SyncTypeOK
  <2> QED
    BY <1>1, <1>2, <2>1, <2>2 DEF HonestInv
<1> QED
  BY <1>4, <1>5, <1>6, <1>7, <1>8, <1>9, <1>10 DEF SyncNext, SyncStep

(* A row says active only for an address that the provider watches, that another run has
   taken off its list, or that a transfer has named. *)
THEOREM ActiveRows == SyncSpec => []ActiveUnlessNamed
<1>1. SyncInit => HonestInv
  BY DEF SyncInit, HonestInv, ActiveUnlessNamed
<1>2. SyncTypeInv /\ HonestInv /\ [SyncNext]_syncVars => HonestInv'
  BY HonestStep
<1>3. HonestInv => ActiveUnlessNamed
  BY DEF HonestInv
<1> QED
  BY <1>1, <1>2, <1>3, SyncTypeInvariant, PTL DEF SyncSpec
-----------------------------------------------------------------------------
(* Neither part disturbs the other. *)
LEMMA WorkersBehave == WorkersSpec => QueueSpec /\ SyncSpec
<1>1. WorkersInit => QueueInit /\ SyncInit
  BY DEF WorkersInit
<1>2. [WorkersNext]_workerVars => [QueueNext]_queueVars /\ [SyncNext]_syncVars
  BY DEF WorkersNext, workerVars, QueuePart, SyncPart
<1> QED
  BY <1>1, <1>2, PTL DEF WorkersSpec, QueueSpec, SyncSpec

(* The variables of the queue and of the tracking keep their types side by side; powers of two
   are numbers, and there are wallets. *)
THEOREM WorkersTypes ==
    ASSUME Wallets # {}, \A n \in Nat : 2^n \in Nat
    PROVE  WorkersSpec => []WorkersTypeOK
<1>1. QueueSpec => []QueueTypeOK
  BY QueueTypesHold
<1>2. QueueTypeOK /\ SyncTypeOK => WorkersTypeOK
  BY DEF WorkersTypeOK
<1> QED
  BY <1>1, <1>2, WorkersBehave, SyncTypeCorrect, PTL

(* What is proved of the queue and of the tracking holds of both side by side: no job and no
   wallet is lost between the workers but for a failure that is counted. *)
THEOREM WorkersKeep ==
    WorkersSpec => [](/\ EveryJobAccounted /\ NothingPassedOver /\ DoneIsTracked
                      /\ ExpansionPerFailure /\ ActiveUnlessNamed)
BY WorkersBehave, JobsAccounted, NothingIsPassedOver, TrackedStays, ExpansionsPaid, ActiveRows, PTL
=============================================================================
