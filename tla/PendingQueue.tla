------------------------------ MODULE PendingQueue ------------------------------
(***************************************************************************)
(* ScrubablePendingQueue as a component: any sequence of the operations    *)
(* that ExpireWorker performs on it with pending_mtx_ held.                *)
(***************************************************************************)
EXTENDS PendingHeap, FiniteSets

CONSTANTS
    Instances,          \* instance ids of the RpcClients that share the worker
    Whens,              \* possible values of when_expire_
    MaxPending          \* bound on the number of pending requests

ASSUME WhensAssumption == Whens \subseteq Int
ASSUME MaxPendingAssumption == MaxPending \in Nat

VARIABLE pending

Entries == [when : Whens, instance : Instances]

TypeOK == pending \in Seq(Entries) /\ Len(pending) <= MaxPending

Init == pending = <<>>

\* ExpireWorker::enqueue()
Enqueue(e) ==
    /\ Len(pending) < MaxPending
    /\ pending' = Emplace(pending, e)

\* ExpireWorker::doWork() takes the top.
TakeTop ==
    /\ pending # <<>>
    /\ pending' = Pop(pending)

\* ExpireWorker::scrub()
ScrubInstance(k) == pending' = Scrub(pending, k)

Next ==
    \/ \E e \in Entries : Enqueue(e)
    \/ TakeTop
    \/ \E k \in Instances : ScrubInstance(k)

Spec == Init /\ [][Next]_pending

-------------------------------------------------------------------------------
Count(e) == Cardinality({i \in 1..Len(pending) : pending[i] = e})

Queue == INSTANCE PriorityQueue WITH content <- [e \in Entries |-> Count(e)]

\* Requests leave the queue one by one in the order in which they expire, or
\* all together when their RpcClient is destroyed.
ImplementsQueue == Queue!Spec

\* The worker sleeps until top().when_expire_: no pending request may expire
\* before the top does.
TopIsEarliest ==
    \A i \in 1..Len(pending) : ~Later(pending[1], pending[i])

===============================================================================
