------------------------------ MODULE PendingHeap ------------------------------
(***************************************************************************)
(* The container of ScrubablePendingQueue (src/communication/RpcClient.cpp): *)
(* a std::priority_queue over a vector, ordered by std::greater on          *)
(* when_expire_, with a scrub() that edits the vector behind its back.      *)
(*                                                                         *)
(* A pending request is a record with at least the fields "when" (its       *)
(* when_expire_) and "instance" (its instance_id_); a queue is a sequence,  *)
(* its first element being top().  The heap operations are those of         *)
(* libstdc++, which are deterministic on a vector that is not a heap too.   *)
(***************************************************************************)
EXTENDS Integers, Sequences

\* PendingRequest::operator>, by which std::greater<> orders the heap.
Later(p, other) == p.when > other.when

\* std::push_heap's loop: the value moves up from the hole while its parent
\* expires later.
SiftUp(q, hole, value) ==
    LET up[i \in 1..Len(q)] ==
            IF i = 1 \/ ~Later(q[i \div 2], value)
            THEN [q EXCEPT ![i] = value]
            ELSE [up[i \div 2] EXCEPT ![i] = q[i \div 2]]
    IN  up[hole]

\* Faulty variant: the request is added a second time.
EmplaceTwice(q, p) == Append(SiftUp(Append(q, p), Len(q) + 1, p), p)

\* priority_queue::emplace(): push_back and push_heap.
Emplace(q, p) == SiftUp(Append(q, p), Len(q) + 1, p)

\* Faulty variant: the left child is always moved up.
LeftChild(q, i) == 2 * i

\* The child that std::pop_heap moves into the hole at i: the earlier one,
\* the right one if they are equal, the only one if there is no other.
EarlierChild(q, i) ==
    IF 2 * i = Len(q) \/ Later(q[2 * i + 1], q[2 * i]) THEN 2 * i ELSE 2 * i + 1

\* priority_queue::pop(): the last element replaces the first, whose hole has
\* first been moved down to a leaf.
Pop(q) ==
    LET last == q[Len(q)]
        rest == SubSeq(q, 1, Len(q) - 1)
        leaf[i \in 1..Len(rest)] ==
            IF 2 * i > Len(rest) THEN i ELSE leaf[EarlierChild(rest, i)]
        shifted[i \in 1..Len(rest)] ==
            IF 2 * i > Len(rest) THEN rest
            ELSE [shifted[EarlierChild(rest, i)] EXCEPT
                    ![i] = rest[EarlierChild(rest, i)]]
    IN  IF rest = <<>> THEN <<>> ELSE SiftUp(shifted[1], leaf[1], last)

\* The elements of q at some positions, in their order.
Selected(q, positions) ==
    LET upTo[n \in 0..Len(q)] ==
            IF n = 0 THEN <<>>
            ELSE IF n \in positions THEN Append(upTo[n - 1], q[n]) ELSE upTo[n - 1]
    IN  upTo[Len(q)]

\* scrub(): std::remove_if and erase keep the others in their order, and do
\* nothing to restore the heap.
Scrub(q, instance) == Selected(q, {i \in 1..Len(q) : q[i].instance # instance})

\* The requests whose expire lambdas scrub() returns, in that order.
AllExpired(q, instance) == Selected(q, {i \in 1..Len(q) : q[i].instance = instance})

\* remove_if moves the survivors to the front by assignment: a request to be
\* removed that stands where a survivor ends up is assigned over, ...
Overwritten(q, instance) ==
    {q[i] : i \in {j \in 1..Len(Scrub(q, instance)) : q[j].instance = instance}}

\* ... while the ones behind the survivors are destroyed by erase, in order.
Erased(q, instance) ==
    AllExpired(SubSeq(q, Len(Scrub(q, instance)) + 1, Len(q)), instance)

===============================================================================
