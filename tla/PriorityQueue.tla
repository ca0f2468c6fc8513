----------------------------- MODULE PriorityQueue -----------------------------
(***************************************************************************)
(* What the expire worker expects of its queue: a bag of pending requests  *)
(* of which it takes an earliest one, and from which the requests of one   *)
(* RpcClient instance can be removed.                                      *)
(***************************************************************************)
EXTENDS Integers

CONSTANTS
    Entries,            \* the possible pending requests
    Instances           \* the instance ids they carry

VARIABLE content        \* how many requests equal to e are in the queue

Init == content = [e \in Entries |-> 0]

Enqueue(e) == content' = [content EXCEPT ![e] = @ + 1]

\* Only a request none expires before is taken.
TakeEarliest(e) ==
    /\ content[e] > 0
    /\ \A f \in Entries : content[f] > 0 => e.when <= f.when
    /\ content' = [content EXCEPT ![e] = @ - 1]

Remove(k) == content' = [e \in Entries |-> IF e.instance = k THEN 0 ELSE content[e]]

Next ==
    \/ \E e \in Entries : Enqueue(e) \/ TakeEarliest(e)
    \/ \E k \in Instances : Remove(k)

\* Requests are neither lost nor duplicated, and leave in the order of expiry.
Spec == Init /\ [][Next]_content

===============================================================================
