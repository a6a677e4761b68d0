---------------------------- MODULE PriorityBag ----------------------------
(***************************************************************************)
(* What a priority queue promises: a bag of elements, of which only one    *)
(* that no other exceeds is ever taken out (src/rmutil/priority_queue.h).  *)
(***************************************************************************)
EXTENDS Integers

CONSTANTS Elem, Rank(_)   \* an element compares as its key does

VARIABLE bag             \* how often each element is in the queue

Init == bag = [e \in Elem |-> 0]

Insert(e) == bag' = [bag EXCEPT ![e] = @ + 1]

Greatest(e) == bag[e] > 0 /\ \A f \in Elem : bag[f] > 0 => Rank(f) <= Rank(e)

RemoveGreatest(e) == Greatest(e) /\ bag' = [bag EXCEPT ![e] = @ - 1]

Next == \E e \in Elem : Insert(e) \/ RemoveGreatest(e)

Spec == Init /\ [][Next]_bag

=============================================================================
