--------------------------- MODULE TimeoutQueues ---------------------------
(***************************************************************************)
(* The queues of a dehydrator as sequences, one for each timeout in use:   *)
(* what Dehydrator takes for granted and ElementList implements with       *)
(* linked nodes.                                                           *)
(***************************************************************************)
EXTENDS Integers, SequencesExt

CONSTANTS Addr, Ttl

VARIABLE queues

(* The queues with queue t replaced; an empty queue is not kept. *)
With(t, queue) ==
  LET all == [u \in DOMAIN queues \cup {t} |-> IF u = t THEN queue ELSE queues[u]]
  IN  Restrict(all, {u \in DOMAIN all : all[u] # <<>>})

Linked(a) == \E t \in DOMAIN queues : a \in Range(queues[t])

Enqueue(a, t) ==
  /\ ~ Linked(a)
  /\ queues' = With(t, Append(IF t \in DOMAIN queues THEN queues[t] ELSE <<>>, a))

(* Any number of elements leaves from the head, in order. *)
Dequeue(t) ==
  \E n \in 0 .. Len(queues[t]) :
    queues' = With(t, SubSeq(queues[t], n + 1, Len(queues[t])))

(* One element leaves from wherever it is; the others keep their order. *)
Withdraw(t) ==
  \E i \in DOMAIN queues[t] : queues' = With(t, RemoveAt(queues[t], i))

Clear == queues' = <<>>

Init == queues = <<>>

Next ==
  \/ \E a \in Addr, t \in Ttl : Enqueue(a, t)
  \/ \E t \in DOMAIN queues : Dequeue(t) \/ Withdraw(t)
  \/ Clear

Spec == Init /\ [][Next]_queues
============================================================================
