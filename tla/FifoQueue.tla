----------------------------- MODULE FifoQueue -----------------------------
(***************************************************************************)
(* A queue of distinct items from which the oldest items leave in order    *)
(* and any item may be withdrawn: what the array-with-tombstones queues of *)
(* the native client (LaneQueue, NativeWriteQueue) implement.              *)
(***************************************************************************)
EXTENDS Naturals, Sequences

CONSTANT Items
VARIABLE q

Present == {q[i] : i \in 1..Len(q)}

Init == q = <<>>

Push(x) == x \notin Present /\ q' = Append(q, x)

Withdraw(i) == q' = SubSeq(q, 1, i - 1) \o SubSeq(q, i + 1, Len(q))

TakeOldest(n) == q' = SubSeq(q, n + 1, Len(q))

Next == \/ \E x \in Items : Push(x)
        \/ \E i \in 1..Len(q) : Withdraw(i)
        \/ \E n \in 1..Len(q) : TakeOldest(n)

Spec == Init /\ [][Next]_q
============================================================================
