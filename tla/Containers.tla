----------------------------- MODULE Containers -----------------------------
(***************************************************************************)
(* The vector of src/rmutil/vector.c, the heap of heap.c that orders a     *)
(* range of it, and the priority queue of priority_queue.c, which is a     *)
(* vector that is all heap.                                                *)
(*                                                                         *)
(* `list` and `heap` are not in the code: the one is the sequence the      *)
(* vector stands for, with Stale where it shows what an earlier element    *)
(* left behind; the other the range a caller has made a heap.              *)
(***************************************************************************)
EXTENDS Integers, FiniteSets, SequencesExt

CONSTANTS
  Elem,     \* the elements, numbers; 0 is what memset leaves
  Rank(_),  \* what the caller's cmp looks at
  MaxCap,   \* bounds the capacity of a vector
  MaxQueue  \* bounds the elements of a priority queue

ASSUME ElemAssumption ==
  /\ 0 \in Elem /\ \A e \in Elem : Rank(e) \in Int
  /\ MaxCap \in Nat

VARIABLES
  v,        \* the vector: data, indexed from 0, cap and top
  list,     \* what it stands for
  heap,     \* the range first <= i < last that is a heap
  queue     \* whether the vector is the inside of a priority queue

con == <<v, list, heap, queue>>

Stale == -1
NoHeap == [first |-> 0, last |-> 0]

Less(a, b) == Rank(a) < Rank(b)

----------------------------------------------------------------------------
(* Vector. *)

newVectorSize(cap) == [data |-> [i \in 0 .. cap - 1 |-> 0], cap |-> cap, top |-> 0]

Vector_Resize(w, newcap) ==
  [w EXCEPT !.cap = newcap,
            !.data = [i \in 0 .. newcap - 1 |-> IF i < w.cap THEN w.data[i] ELSE 0]]

(* Mutant: an element put behind the last one does not move the end. *)
vector_PutPtr_KeepTop(w, pos, e) ==
  LET roomy == IF pos >= w.cap THEN Vector_Resize(w, pos + 1) ELSE w
  IN  [roomy EXCEPT !.data[pos] = e, !.top = IF pos = w.top THEN pos + 1 ELSE @]

vector_PutPtr(w, pos, e) ==
  LET roomy == IF pos >= w.cap THEN Vector_Resize(w, pos + 1) ELSE w
  IN  [roomy EXCEPT !.data[pos] = e, !.top = IF pos >= @ THEN pos + 1 ELSE @]

vector_PushPtr(w, e) ==
  LET roomy == IF w.top = w.cap
               THEN Vector_Resize(w, IF w.cap = 0 THEN 1 ELSE 2 * w.cap) ELSE w
  IN  vector_PutPtr(roomy, w.top, e)

Vector_Pop(w) == [w EXCEPT !.top = @ - 1]

----------------------------------------------------------------------------
(* Heap. *)

(* Mutant: the parent as it is where the first element has number 1. *)
Parent_FromOne(i) == i \div 2

Parent(i) == (i - 1) \div 2

(* Mutant: the element that rises is not put down. *)
Rise_Lost(d, first, i, t) ==
  LET risen[k \in 0 .. i] ==
        IF k = 0 \/ ~Less(d[first + Parent(k)], t) THEN d
        ELSE [risen[Parent(k)] EXCEPT ![first + k] = d[first + Parent(k)]]
  IN  risen[i]

(* The element t rises from the hole at i. *)
Rise(d, first, i, t) ==
  LET risen[k \in 0 .. i] ==
        IF k = 0 \/ ~Less(d[first + Parent(k)], t) THEN [d EXCEPT ![first + k] = t]
        ELSE [risen[Parent(k)] EXCEPT ![first + k] = d[first + Parent(k)]]
  IN  risen[i]

sift_up(d, first, last) ==
  IF last - first > 1 THEN Rise(d, first, last - 1 - first, d[last - 1]) ELSE d

GreaterChild(d, first, len, i) ==
  LET left == 2 * i + 1
  IN  IF left + 1 < len /\ Less(d[first + left], d[first + left + 1]) THEN left + 1 ELSE left

(* The element t sinks from the hole at i, below its equals too. *)
Sink(d, first, len, i, t) ==
  LET sunk[k \in 0 .. len - 1] ==
        LET child == GreaterChild(d, first, len, k)
        IN  IF 2 * k + 1 >= len \/ Less(d[first + child], t) THEN [d EXCEPT ![first + k] = t]
            ELSE [sunk[child] EXCEPT ![first + k] = d[first + child]]
  IN  sunk[i]

sift_down(d, first, last, start) ==
  IF last - first < 2 THEN d ELSE Sink(d, first, last - first, start - first, d[start])

(* Every element with children sinks, the last of them first. *)
SiftAll(d, first, last, parents) ==
  LET sifted[n \in 0 .. parents] ==
        IF n = 0 THEN d ELSE sift_down(sifted[n - 1], first, last, first + parents - n)
  IN  sifted[parents]

Make_Heap(d, first, last) ==
  IF last - first > 1 THEN SiftAll(d, first, last, (last - first) \div 2) ELSE d

Heap_Push(d, first, last) == sift_up(d, first, last)

(* Mutant: the greatest element is not moved out of the heap first. *)
Heap_Pop_NoSwap(d, first, last) ==
  IF last - first > 1 THEN sift_down(d, first, last - 1, first) ELSE d

Heap_Pop(d, first, last) ==
  IF last - first > 1
  THEN sift_down([d EXCEPT ![first] = d[last - 1], ![last - 1] = d[first]],
                 first, last - 1, first)
  ELSE d

----------------------------------------------------------------------------
(* The calls. *)

Elements(w) == [i \in 1 .. w.top |-> w.data[i - 1]]

ConInit ==
  /\ \E cap \in 0 .. 2 : v = newVectorSize(cap)
  /\ list = <<>>
  /\ heap = NoHeap
  /\ queue \in BOOLEAN

Revised(w, l) ==
  /\ ~queue
  /\ w.cap <= MaxCap
  /\ v' = w /\ list' = l /\ heap' = NoHeap
  /\ UNCHANGED queue

Vector_Push(e) == Revised(vector_PushPtr(v, e), Append(list, e))

Pop == v.top > 0 /\ Revised(Vector_Pop(v), Front(list))

(* A gap before the element is zero where it had to be allocated. *)
Put(pos, e) ==
  Revised(vector_PutPtr(v, pos, e),
          IF pos < Len(list) THEN [list EXCEPT ![pos + 1] = e]
          ELSE list \o [i \in 1 .. pos - Len(list) |->
                          IF Len(list) + i > v.cap THEN 0 ELSE Stale] \o <<e>>)

(* Nobody shrinks a vector below its elements: it would keep counting them.*)
Resize(newcap) == newcap >= v.top /\ Revised(Vector_Resize(v, newcap), list)

Reorders(d, range) ==
  /\ ~queue
  /\ v' = [v EXCEPT !.data = d]
  /\ list' = Elements([v EXCEPT !.data = d])
  /\ heap' = range
  /\ UNCHANGED queue

MakeHeap(first, last) ==
  /\ heap = NoHeap /\ last <= v.top
  /\ Reorders(Make_Heap(v.data, first, last), [first |-> first, last |-> last])

HeapPush ==
  /\ heap # NoHeap /\ heap.last < v.top
  /\ Reorders(Heap_Push(v.data, heap.first, heap.last + 1), [heap EXCEPT !.last = @ + 1])

HeapPop ==
  /\ heap.last > heap.first
  /\ Reorders(Heap_Pop(v.data, heap.first, heap.last), [heap EXCEPT !.last = @ - 1])

Requeued(w) ==
  /\ queue
  /\ w.top <= MaxQueue
  /\ v' = w
  /\ list' = Elements(w)
  /\ heap' = [first |-> 0, last |-> w.top]
  /\ UNCHANGED queue

Priority_Queue_Push(e) ==
  LET pushed == vector_PushPtr(v, e)
  IN  Requeued([pushed EXCEPT !.data = Heap_Push(@, 0, pushed.top)])

Priority_Queue_Pop ==
  /\ v.top > 0
  /\ Requeued([v EXCEPT !.data = Heap_Pop(@, 0, v.top), !.top = @ - 1])

ConNext ==
  \/ \E e \in Elem : Vector_Push(e) \/ Priority_Queue_Push(e) \/ \E pos \in 0 .. MaxCap - 1 : Put(pos, e)
  \/ \E cap \in 0 .. MaxCap : Resize(cap)
  \/ \E first \in 0 .. MaxCap - 1, last \in 1 .. MaxCap : first < last /\ MakeHeap(first, last)
  \/ Pop \/ HeapPush \/ HeapPop \/ Priority_Queue_Pop

ConSpec == ConInit /\ [][ConNext]_con

----------------------------------------------------------------------------
(* Properties. *)

(* Through growth, shrinking and gaps the vector holds the elements it     *)
(* stands for, in order, within its capacity, and zeros where it grew over *)
(* a gap (vector.c:35-66).                                                 *)
HoldsList ==
  /\ DOMAIN v.data = 0 .. v.cap - 1 /\ v.top <= v.cap
  /\ Len(list) = v.top
  /\ \A i \in DOMAIN list : list[i] \in {Stale, v.data[i - 1]}

(* A range made a heap stays one through every Heap_Push and Heap_Pop: no  *)
(* element is less than its children, wherever the range begins (heap.h).  *)
HeapInOrder ==
  \A i \in heap.first .. heap.last - 1 :
    i > heap.first =>
      ~Less(v.data[heap.first + ((i - heap.first + 1) \div 2) - 1], v.data[i])

(* The heap operations move elements about within their range and lose     *)
(* none; Heap_Pop leaves the greatest behind the range (heap.h).           *)
HeapKeepsElements ==
  [][ ~queue /\ heap' # NoHeap =>
        LET range == heap'.first .. (IF heap.last > heap'.last THEN heap.last ELSE heap'.last) - 1
            Count(d, e) == Cardinality({ i \in range : d[i] = e })
        IN  /\ \A e \in Elem : Count(v'.data, e) = Count(v.data, e)
            /\ \A i \in DOMAIN v.data \ range : v'.data[i] = v.data[i]
            /\ heap'.last < heap.last =>
                 \A i \in range : ~Less(v'.data[heap'.last], v.data[i]) ]_con

(* The priority queue is a bag from which the greatest element is taken,   *)
(* through growth of its vector and whatever the ties.                     *)
Bag == INSTANCE PriorityBag
         WITH bag <- [e \in Elem |->
                        IF queue THEN Cardinality({ i \in 0 .. v.top - 1 : v.data[i] = e }) ELSE 0]

QueueIsBag == Bag!Spec

=============================================================================
