--------------------------- MODULE PendingQueueProofs ---------------------------
(***************************************************************************)
(* Proofs about PendingQueue, for any expiry times and any bound on the    *)
(* number of pending requests.                                             *)
(*                                                                         *)
(* No operation loses or duplicates a request, however many RpcClients     *)
(* there are.  The order of expiry is another matter: scrub() leaves the   *)
(* requests of the other clients where they happen to be, so the queue     *)
(* is a heap, and implements PriorityQueue, as long as there is one client *)
(* only.                                                                   *)
(***************************************************************************)
EXTENDS PendingQueue, PendingHeapProofs

Content == [e \in Entries |-> Count(e)]

\* What scrub() draws from the queue
LEMMA ScrubDrawn ==
  ASSUME NEW T, NEW q \in Seq(T), NEW k
  PROVE  Drawn(Scrub(q, k), q, {i \in 1..Len(q) : q[i].instance # k})
<1> DEFINE S == {i \in 1..Len(q) : q[i].instance # k}
<1>1. Drawn(Selected(q, S), q, S \intersect 1..Len(q))
  BY SelectedDrawn
<1>2. S \intersect 1..Len(q) = S
  OBVIOUS
<1> QED
  BY <1>1, <1>2 DEF Scrub

\* The queue is a sequence of requests and respects the bound.
LEMMA TypeNext ==
  ASSUME TypeOK, [Next]_pending
  PROVE  TypeOK'
<1>0. MaxPending \in Nat /\ Len(pending) \in Nat
  BY MaxPendingAssumption DEF TypeOK
<1>1. ASSUME NEW e \in Entries, Enqueue(e) PROVE TypeOK'
  BY <1>0, <1>1, EmplaceDrawn DEF Enqueue, TypeOK
<1>2. CASE TakeTop
  BY <1>0, <1>2, PopDrawn DEF TakeTop, TypeOK
<1>3. ASSUME NEW k \in Instances, ScrubInstance(k) PROVE TypeOK'
  <2>1. Scrub(pending, k) \in Seq(Entries) /\ Len(Scrub(pending, k)) <= Len(pending)
    BY ScrubItems DEF TypeOK
  <2>2. Len(Scrub(pending, k)) \in Nat
    BY <2>1
  <2> QED
    BY <1>0, <1>3, <2>1, <2>2 DEF ScrubInstance, TypeOK
<1>4. CASE UNCHANGED pending
  BY <1>4 DEF TypeOK
<1> QED
  BY <1>1, <1>2, <1>3, <1>4 DEF Next

\* The type invariant holds in every reachable state.
THEOREM TypeCorrect == Spec => []TypeOK
<1>1. Init => TypeOK
  BY MaxPendingAssumption DEF Init, TypeOK
<1> QED
  BY <1>1, TypeNext, PTL DEF Spec

-------------------------------------------------------------------------------
(* What the operations do to the content. *)

\* The counts are natural numbers, positive for what is in the queue.
LEMMA CountType ==
  ASSUME TypeOK, NEW e
  PROVE  /\ IsFiniteSet({i \in 1..Len(pending) : pending[i] = e})
         /\ Count(e) \in Nat
         /\ Count(e) > 0 <=> e \in Items(pending)
<1> DEFINE S == {i \in 1..Len(pending) : pending[i] = e}
<1>1. IsFiniteSet(S)
  <2>1. IsFiniteSet(1..Len(pending))
    BY FS_Interval DEF TypeOK
  <2> QED
    BY <2>1, FS_Subset
<1>2. Count(e) = Cardinality(S) /\ Count(e) \in Nat
  BY <1>1, FS_CardinalityType DEF Count
<1>3. Count(e) = 0 <=> S = {}
  BY <1>1, <1>2, FS_EmptySet
<1>4. S = {} <=> e \notin Items(pending)
  BY DEF Items
<1> QED
  BY <1>1, <1>2, <1>3, <1>4

\* enqueue() adds the request once.
LEMMA EnqueueContent ==
  ASSUME TypeOK, NEW e \in Entries, Enqueue(e)
  PROVE  Content' = [Content EXCEPT ![e] = @ + 1]
<1> DEFINE w == Append(pending, e)
           n == Len(pending)
<1>1. n \in Nat /\ pending \in Seq(Entries)
  BY DEF TypeOK
<1>2. pending' = Emplace(pending, e) /\ Drawn(pending', w, 1..(n + 1)) /\ Len(pending') \in Nat
  BY <1>1, EmplaceDrawn DEF Enqueue
<1>3. w[n + 1] = e /\ (\A i \in 1..n : w[i] = pending[i]) /\ 1..(n + 1) = 1..n \union {n + 1}
  BY <1>1
<1> HIDE DEF w
<1>4. ASSUME NEW d \in Entries
      PROVE  Count(d)' = IF d = e THEN Count(d) + 1 ELSE Count(d)
  <2> DEFINE S == {i \in 1..n : pending[i] = d}
             W == {i \in 1..(n + 1) : w[i] = d}
  <2>1. Count(d)' = Cardinality(W)
    <3>1. Cardinality(Holding(pending', 1..Len(pending'), d)) = Cardinality(Holding(w, 1..(n + 1), d))
      BY <1>2, DrawnCount
    <3> QED
      BY <3>1 DEF Count, Holding
  <2>2. Count(d) = Cardinality(S) /\ IsFiniteSet(S)
    BY CountType DEF Count
  <2>3. d # e => W = S
    BY <1>1, <1>3
  <2>4. d = e => W = S \union {n + 1} /\ n + 1 \notin S
    BY <1>1, <1>3
  <2> HIDE DEF S, W
  <2>5. IsFiniteSet(S) => Cardinality(S \union {n + 1})
                            = IF n + 1 \in S THEN Cardinality(S) ELSE Cardinality(S) + 1
    BY FS_AddElement
  <2> QED
    BY <2>1, <2>2, <2>3, <2>4, <2>5
<1> QED
  BY <1>4 DEF Content

\* pop() removes the top once.
LEMMA TakeContent ==
  ASSUME TypeOK, TakeTop
  PROVE  /\ pending[1] \in Entries /\ Count(pending[1]) > 0
         /\ Content' = [Content EXCEPT ![pending[1]] = @ - 1]
<1> DEFINE n == Len(pending)
           e == pending[1]
<1>1. n \in Nat /\ n # 0 /\ pending \in Seq(Entries)
  BY DEF TypeOK, TakeTop
<1>2. pending' = Pop(pending) /\ Drawn(pending', pending, 2..n) /\ Len(pending') \in Nat
  BY <1>1, PopDrawn DEF TakeTop
<1>3. 1..n = 2..n \union {1} /\ e \in Entries /\ 1 \in 1..n
  BY <1>1
<1>4. Count(e) > 0
  BY <1>3, CountType DEF Items
<1> HIDE DEF e
<1>5. ASSUME NEW d \in Entries
      PROVE  Count(d)' = IF d = e THEN Count(d) - 1 ELSE Count(d)
  <2> DEFINE S == {i \in 1..n : pending[i] = d}
             W == {i \in 2..n : pending[i] = d}
  <2>1. Count(d)' = Cardinality(W)
    <3>1. Cardinality(Holding(pending', 1..Len(pending'), d)) = Cardinality(Holding(pending, 2..n, d))
      BY <1>2, DrawnCount
    <3> QED
      BY <3>1 DEF Count, Holding
  <2>2. Count(d) = Cardinality(S) /\ IsFiniteSet(S)
    BY CountType DEF Count
  <2>3. d # e => W = S
    BY <1>1, <1>3 DEF e
  <2>4. d = e => W = S \ {1} /\ 1 \in S
    BY <1>1, <1>3 DEF e
  <2> HIDE DEF S, W
  <2>5. IsFiniteSet(S) => Cardinality(S \ {1})
                            = IF 1 \in S THEN Cardinality(S) - 1 ELSE Cardinality(S)
    BY FS_RemoveElement
  <2> QED
    BY <2>1, <2>2, <2>3, <2>4, <2>5
<1> QED
  BY <1>3, <1>4, <1>5 DEF Content, e

\* scrub() removes the requests of one instance, and no other.
LEMMA ScrubContent ==
  ASSUME TypeOK, NEW k, ScrubInstance(k)
  PROVE  Content' = [e \in Entries |-> IF e.instance = k THEN 0 ELSE Content[e]]
<1> DEFINE R == {i \in 1..Len(pending) : pending[i].instance # k}
<1>1. Drawn(pending', pending, R) /\ Len(pending') \in Nat
  <2>1. Scrub(pending, k) \in Seq(Entries)
    BY ScrubItems DEF TypeOK
  <2>2. pending' = Scrub(pending, k)
    BY DEF ScrubInstance
  <2>3. Drawn(Scrub(pending, k), pending, R)
    BY ScrubDrawn DEF TypeOK
  <2> QED
    BY <2>1, <2>2, <2>3
<1>2. ASSUME NEW d \in Entries
      PROVE  Count(d)' = IF d.instance = k THEN 0 ELSE Count(d)
  <2> DEFINE W == {i \in R : pending[i] = d}
             S == {i \in 1..Len(pending) : pending[i] = d}
  <2>1. Count(d)' = Cardinality(W)
    <3>1. Cardinality(Holding(pending', 1..Len(pending'), d)) = Cardinality(Holding(pending, R, d))
      BY <1>1, DrawnCount
    <3> QED
      BY <3>1 DEF Count, Holding
  <2>2. Count(d) = Cardinality(S)
    BY DEF Count
  <2>3. d.instance = k => W = {}
    OBVIOUS
  <2>4. d.instance # k => W = S
    OBVIOUS
  <2> HIDE DEF S, W
  <2> QED
    BY <2>1, <2>2, <2>3, <2>4, FS_EmptySet
<1> QED
  BY <1>2 DEF Content

\* What a step may do to the bag of pending requests
BagStep ==
    \/ \E e \in Entries : Content' = [Content EXCEPT ![e] = @ + 1]
    \/ \E e \in Entries : Content[e] > 0 /\ Content' = [Content EXCEPT ![e] = @ - 1]
    \/ \E k \in Instances :
          Content' = [e \in Entries |-> IF e.instance = k THEN 0 ELSE Content[e]]

\* However many RpcClients share the queue, and whether or not it is a heap: an enqueue()
\* adds the request, a pop() removes one, scrub() removes those of its instance, and no
\* operation loses, duplicates or changes any other.
THEOREM NothingLost == Spec => [][BagStep]_pending
<1>1. ASSUME TypeOK, [Next]_pending PROVE [BagStep]_pending
  <2>1. ASSUME NEW e \in Entries, Enqueue(e) PROVE BagStep
    BY <1>1, <2>1, EnqueueContent DEF BagStep
  <2>2. CASE TakeTop
    <3>1. /\ pending[1] \in Entries /\ Count(pending[1]) > 0
          /\ Content' = [Content EXCEPT ![pending[1]] = @ - 1]
      BY <1>1, <2>2, TakeContent
    <3>2. Content[pending[1]] > 0
      BY <3>1 DEF Content
    <3> QED
      BY <3>1, <3>2 DEF BagStep
  <2>3. ASSUME NEW k \in Instances, ScrubInstance(k) PROVE BagStep
    BY <1>1, <2>3, ScrubContent DEF BagStep
  <2> QED
    BY <1>1, <2>1, <2>2, <2>3 DEF Next
<1> QED
  BY <1>1, TypeCorrect, PTL DEF Spec

-------------------------------------------------------------------------------
(* The order of expiry, with one RpcClient. *)

OneInstance == \A j, k \in Instances : j = k

HeapInv == TypeOK /\ IsHeap(pending)

\* Entries have comparable expiry times.
LEMMA EntriesComparable == \A t \in Entries : t.when \in Int
  BY WhensAssumption DEF Entries

\* The queue of one client stays a heap: all a scrub() can do is empty it.
LEMMA HeapNext ==
  ASSUME OneInstance, HeapInv, [Next]_pending
  PROVE  HeapInv'
<1>0. TypeOK /\ IsHeap(pending) /\ pending \in Seq(Entries)
  BY DEF HeapInv, TypeOK
<1>t. TypeOK'
  BY <1>0, TypeNext
<1>1. ASSUME NEW e \in Entries, Enqueue(e) PROVE IsHeap(pending')
  BY <1>0, <1>1, EmplaceDrawn, EntriesComparable DEF Enqueue
<1>2. ASSUME TakeTop PROVE IsHeap(pending')
  BY <1>0, <1>2, PopDrawn, EntriesComparable DEF TakeTop
<1>3. ASSUME NEW k \in Instances, ScrubInstance(k) PROVE IsHeap(pending')
  <2>1. /\ pending' = Scrub(pending, k) /\ pending' \in Seq(Entries)
        /\ Items(pending') = {p \in Items(pending) : p.instance # k}
    BY <1>0, <1>3, ScrubItems DEF ScrubInstance
  <2>2. \A p \in Items(pending) : p.instance \in Instances
    <3>1. \A i \in 1..Len(pending) : pending[i] \in Entries
      BY <1>0
    <3> QED
      BY <3>1 DEF Items, Entries
  <2>3. Items(pending') = {}
    BY <2>1, <2>2 DEF OneInstance
  <2>4. \A i \in 1..Len(pending') : pending'[i] \in Items(pending')
    BY DEF Items
  <2>5. 1..Len(pending') = {} /\ Len(pending') \in Nat
    BY <2>1, <2>3, <2>4
  <2>6. 2..Len(pending') = {}
    BY <2>5
  <2> QED
    BY <2>6 DEF IsHeap
<1>4. ASSUME UNCHANGED pending PROVE IsHeap(pending')
  BY <1>0, <1>4
<1> QED
  BY <1>t, <1>1, <1>2, <1>3, <1>4 DEF Next, HeapInv

\* The queue of one RpcClient is a heap in every reachable state.
THEOREM StaysHeap ==
  ASSUME OneInstance
  PROVE  Spec => []HeapInv
<1>1. Init => HeapInv
  <2>1. Init => IsHeap(pending)
    BY DEF Init, IsHeap
  <2>2. Init => TypeOK
    BY MaxPendingAssumption DEF Init, TypeOK
  <2> QED
    BY <2>1, <2>2 DEF HeapInv
<1>2. HeapInv /\ [Next]_pending => HeapInv'
  BY HeapNext
<1> QED
  BY <1>1, <1>2, PTL DEF Spec

\* As long as all pending requests are of one RpcClient, none expires before the top.
THEOREM TopFirst ==
  ASSUME OneInstance
  PROVE  Spec => []TopIsEarliest
<1>1. HeapInv => TopIsEarliest
  BY TopEarliest, EntriesComparable DEF HeapInv, TypeOK, TopIsEarliest
<1> QED
  BY <1>1, StaysHeap, PTL

\* The queue of one RpcClient implements the abstract priority queue: requests leave it
\* one by one in the order in which they expire, or all together.
THEOREM Implements ==
  ASSUME OneInstance
  PROVE  Spec => ImplementsQueue
<1>1. Init => Queue!Init
  <2>1. ASSUME Init, NEW e \in Entries PROVE Count(e) = 0
    <3>1. {i \in 1..Len(pending) : pending[i] = e} = {}
      BY <2>1 DEF Init
    <3> QED
      BY <3>1, FS_EmptySet DEF Count
  <2> QED
    BY <2>1 DEF Queue!Init
<1>2. ASSUME HeapInv, [Next]_pending
      PROVE  [Queue!Next]_Content
  <2>0. TypeOK /\ TopIsEarliest
    BY <1>2, TopEarliest, EntriesComparable DEF HeapInv, TypeOK, TopIsEarliest
  <2>1. ASSUME NEW e \in Entries, Enqueue(e) PROVE Queue!Enqueue(e)
    BY <2>0, <2>1, EnqueueContent DEF Queue!Enqueue, Content
  <2>2. CASE TakeTop
    <3>1. /\ pending[1] \in Entries /\ Count(pending[1]) > 0
          /\ Content' = [Content EXCEPT ![pending[1]] = @ - 1]
      BY <2>0, <2>2, TakeContent
    <3>2. ASSUME NEW d \in Entries, Count(d) > 0 PROVE pending[1].when <= d.when
      <4>1. PICK i \in 1..Len(pending) : d = pending[i]
        BY <2>0, <3>2, CountType DEF Items
      <4> QED
        BY <2>0, <3>1, <4>1, EntriesComparable DEF TopIsEarliest, Later
    <3>3. Queue!TakeEarliest(pending[1])
      BY <3>1, <3>2 DEF Queue!TakeEarliest, Content
    <3> QED
      BY <3>1, <3>3 DEF Queue!Next
  <2>3. ASSUME NEW k \in Instances, ScrubInstance(k) PROVE Queue!Remove(k)
    BY <2>0, <2>3, ScrubContent DEF Queue!Remove, Content
  <2>4. CASE UNCHANGED pending
    BY <2>4 DEF Content, Count
  <2> QED
    BY <1>2, <2>1, <2>2, <2>3, <2>4 DEF Next, Queue!Next
<1> QED
  BY <1>1, <1>2, StaysHeap, PTL DEF Spec, ImplementsQueue, Queue!Spec, Content

===============================================================================
