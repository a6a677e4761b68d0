----------------------------- MODULE UtilProofs -----------------------------
(***************************************************************************)
(* The containers and the argument helpers of src/rmutil.                  *)
(*                                                                         *)
(* A vector holds its elements, a range made a heap stays one and loses no *)
(* element, and the priority queue is a bag from which the greatest is     *)
(* taken, for any elements, keys and sizes.  sift_up and sift_down are each*)
(* a hole that moves along cells of falling rank.  What such a hole does to*)
(* the elements is proved once, and what it does to the order for each;    *)
(* then Heap_Push, Make_Heap and Heap_Pop; then the vector under them,     *)
(* every call, and the refinement.                                         *)
(*                                                                         *)
(* Arguments follow their format, INFO is read right and paths lead on, for*)
(* any words and formats: a loop is a function from its turns to what it   *)
(* has found so far, and what is said of that holds after every turn.      *)
(***************************************************************************)
EXTENDS Containers, Args, BasicLemmas

----------------------------------------------------------------------------
(* A hole that moves. *)

One(b) == IF b THEN 1 ELSE 0

(* How often e is in the cells R of x. *)
Count(x, R, e) == Cardinality({i \in R : x[i] = e})

(* A cell changed changes the count of what it held and of what it holds. *)
LEMMA CountExcept ==
  ASSUME NEW R, IsFiniteSet(R), NEW a \in R, NEW x, NEW y, NEW z, NEW e,
         z[a] = y, \A i \in R : i # a => z[i] = x[i]
  PROVE  /\ Count(x, R, e) \in Nat /\ Count(z, R, e) \in Nat
         /\ Count(z, R, e) = Count(x, R, e) - One(x[a] = e) + One(y = e)
<1> DEFINE T == {i \in R \ {a} : x[i] = e}
           X == {i \in R : x[i] = e}
           Z == {i \in R : z[i] = e}
<1>1. IsFiniteSet(T)
  <2>1. T \subseteq R
    OBVIOUS
  <2>2. QED
    BY <2>1, FS_Subset
<1>2. a \notin T
  OBVIOUS
<1>3. Cardinality(T) \in Nat /\ Cardinality(T \cup {a}) = Cardinality(T) + 1
  <2> HIDE DEF T
  <2>1. QED
    BY <1>1, <1>2, FS_CardinalityType, FS_AddElement
<1>4. X = IF x[a] = e THEN T \cup {a} ELSE T
  OBVIOUS
<1>5. Z = IF y = e THEN T \cup {a} ELSE T
  OBVIOUS
<1> HIDE DEF T, X, Z
<1>6. Cardinality(X) = Cardinality(T) + One(x[a] = e)
  BY <1>3, <1>4 DEF One
<1>7. Cardinality(Z) = Cardinality(T) + One(y = e)
  BY <1>3, <1>5 DEF One
<1>8. One(x[a] = e) \in {0, 1} /\ One(y = e) \in {0, 1}
  BY DEF One
<1>9. Count(x, R, e) = Cardinality(X) /\ Count(z, R, e) = Cardinality(Z)
  BY DEF Count, X, Z
<1> DEFINE c == Cardinality(T)
           p == One(x[a] = e)
           q == One(y = e)
<1>10. c \in Nat /\ p \in {0, 1} /\ q \in {0, 1} /\ Count(x, R, e) = c + p /\ Count(z, R, e) = c + q
  BY <1>3, <1>6, <1>7, <1>8, <1>9
<1> HIDE DEF c, p, q
<1>11. /\ Count(x, R, e) \in Nat /\ Count(z, R, e) \in Nat
       /\ Count(z, R, e) = Count(x, R, e) - p + q
  BY <1>10
<1>12. QED
  BY <1>11 DEF p, q

(* The hole at k of the data d moves to next[k], whose element comes to k, *)
(* until it stops and t fills it. *)
Turn(d, first, next, stop, t, f, k) ==
  IF stop[k] THEN [d EXCEPT ![first + k] = t]
  ELSE [f[next[k]] EXCEPT ![first + k] = d[first + next[k]]]

Moved(d, first, K, next, stop, t, f) == f = [k \in K |-> Turn(d, first, next, stop, t, f, k)]

(* The rank of a hole falls while it moves. *)
Falls(K, next, stop, rank) ==
  /\ \A k \in K : rank[k] \in Nat
  /\ \A k \in K : ~stop[k] => next[k] \in K /\ rank[next[k]] < rank[k]

(* So there is such a function. *)
LEMMA MovedExists ==
  ASSUME NEW d, NEW first, NEW K, NEW next, NEW stop, NEW t, NEW rank,
         Falls(K, next, stop, rank), NEW N \in Nat, \A k \in K : rank[k] < N
  PROVE  \E f : Moved(d, first, K, next, stop, t, f)
<1> DEFINE V(f, k) == Turn(d, first, next, stop, t, f, k)
           Part(m, f) == \A k \in K : rank[k] < m => f[k] = V(f, k)
           S == {m \in Nat : \E f : DOMAIN f = K /\ f = [k \in K |-> f[k]] /\ Part(m, f)}
<1>1. \A k \in K : rank[k] \in Nat
  BY DEF Falls
<1>2. 0 \in S
  <2> DEFINE f == [k \in K |-> 0]
  <2>1. DOMAIN f = K /\ f = [k \in K |-> f[k]]
    OBVIOUS
  <2> HIDE DEF f
  <2>2. Part(0, f)
    BY <1>1
  <2>3. QED
    BY <2>1, <2>2
<1>3. ASSUME NEW m \in Nat, m \in S
      PROVE  m + 1 \in S
  <2>1. PICK f : DOMAIN f = K /\ f = [k \in K |-> f[k]] /\ Part(m, f)
    BY <1>3
  <2> DEFINE g == [k \in K |-> IF rank[k] < m THEN f[k] ELSE V(f, k)]
  <2>2. DOMAIN g = K /\ \A k \in K : g[k] = IF rank[k] < m THEN f[k] ELSE V(f, k)
    BY Zenon
  <2>3. g = [k \in K |-> g[k]]
    BY Zenon
  <2> HIDE DEF g
  <2>4. ASSUME NEW k \in K, rank[k] < m + 1
        PROVE  g[k] = V(g, k)
    <3>1. g[k] = V(f, k)
      <4>1. CASE rank[k] < m
        <5>1. f[k] = V(f, k)
          BY <2>1, <4>1
        <5> HIDE DEF V
        <5>2. QED
          BY <2>2, <4>1, <5>1
      <4>2. CASE ~(rank[k] < m)
        <5> HIDE DEF V
        <5>1. QED
          BY <2>2, <4>2
      <4>3. QED
        BY <4>1, <4>2
    <3>2. CASE stop[k]
      BY <3>1, <3>2 DEF Turn
    <3>3. CASE ~stop[k]
      <4>1. next[k] \in K /\ rank[next[k]] < rank[k] /\ rank[next[k]] \in Nat
        BY <1>1, <3>3 DEF Falls
      <4>2. rank[next[k]] < m
        BY <1>1, <2>4, <4>1
      <4>3. g[next[k]] = f[next[k]]
        BY <2>2, <4>1, <4>2
      <4>4. QED
        BY <3>1, <3>3, <4>3 DEF Turn
    <3>4. QED
      BY <3>2, <3>3
  <2>5. Part(m + 1, g)
    BY <2>4
  <2> HIDE DEF Part
  <2>6. m + 1 \in Nat
    OBVIOUS
  <2>7. QED
    BY <2>2, <2>3, <2>5, <2>6
<1> HIDE DEF S
<1>4. N \in S
  BY <1>2, <1>3, SetInduction
<1>5. PICK f : DOMAIN f = K /\ f = [k \in K |-> f[k]] /\ Part(N, f)
  BY <1>4 DEF S
<1>6. \A k \in K : f[k] = V(f, k)
  BY <1>5
<1> HIDE DEF V
<1>7. f = [k \in K |-> V(f, k)]
  BY <1>5, <1>6
<1>8. QED
  BY <1>7 DEF V, Moved

(* x differs from d in no cell of a hole ranked above k, and holds what d *)
(* would hold with t at k. *)
Refilled(d, D, R, first, K, rank, t, k, x) ==
  /\ x \in [D -> Elem]
  /\ \A c \in D : (\A j \in K : rank[j] <= rank[k] => c # first + j) => x[c] = d[c]
  /\ \A e : /\ Count(x, R, e) \in Nat /\ Count(d, R, e) \in Nat
            /\ Count(x, R, e) = Count(d, R, e) - One(d[first + k] = e) + One(t = e)

(* The cells of the holes, different holes of different rank. *)
Holes(D, R, first, K, rank) ==
  /\ IsFiniteSet(R) /\ R \subseteq D /\ first \in Nat /\ K \subseteq Nat
  /\ \A k \in K : first + k \in R
  /\ \A j, k \in K : rank[j] = rank[k] => j = k

(* A hole that moves along cells of the heap moves elements one place      *)
(* each: the counts change by the element overwritten at the start and the *)
(* one put down at the end.                                                *)
LEMMA MovedKeeps ==
  ASSUME NEW d, NEW D, NEW R, NEW first, NEW K, NEW next, NEW stop, NEW t, NEW rank, NEW f,
         Holes(D, R, first, K, rank), Falls(K, next, stop, rank), Moved(d, first, K, next, stop, t, f),
         d \in [D -> Elem], t \in Elem
  PROVE  \A k \in K : Refilled(d, D, R, first, K, rank, t, k, f[k])
<1> DEFINE P(k) == Refilled(d, D, R, first, K, rank, t, k, f[k])
           S == {m \in Nat : \A k \in K : rank[k] < m => P(k)}
<1>1. \A k \in K : f[k] = Turn(d, first, next, stop, t, f, k)
  BY DEF Moved
<1>2. /\ \A k \in K : rank[k] \in Nat
      /\ \A k \in K : ~stop[k] => next[k] \in K /\ rank[next[k]] < rank[k]
  BY DEF Falls
<1>3. /\ IsFiniteSet(R) /\ R \subseteq D /\ first \in Nat /\ K \subseteq Nat
      /\ \A k \in K : first + k \in R
      /\ \A j, k \in K : rank[j] = rank[k] => j = k
  BY DEF Holes
<1>4. 0 \in S
  <2> HIDE DEF P
  <2>1. QED
    BY <1>2
<1>5. ASSUME NEW m \in Nat, m \in S
      PROVE  m + 1 \in S
  <2>1. ASSUME NEW k \in K, rank[k] < m + 1
        PROVE  P(k)
    <3> DEFINE a == first + k
               x == f[k]
    <3>1. a \in R /\ a \in D /\ d[a] \in Elem
      BY <1>3
    <3>2. CASE stop[k]
      <4>1. x = [d EXCEPT ![a] = t]
        BY <1>1, <3>2 DEF Turn
      <4> HIDE DEF x
      <4>2. x \in [D -> Elem] /\ x[a] = t /\ \A c \in D : c # a => x[c] = d[c]
        BY <3>1, <4>1
      <4>3. \A c \in D : (\A j \in K : rank[j] <= rank[k] => c # first + j) => x[c] = d[c]
        BY <1>2, <4>2
      <4>4. \A i \in R : i # a => x[i] = d[i]
        BY <1>3, <4>2
      <4> HIDE DEF a
      <4>5. \A e : /\ Count(d, R, e) \in Nat /\ Count(x, R, e) \in Nat
                   /\ Count(x, R, e) = Count(d, R, e) - One(d[a] = e) + One(t = e)
        BY <1>3, <3>1, <4>2, <4>4, CountExcept
      <4>6. QED
        BY <4>2, <4>3, <4>5 DEF Refilled, a, x
    <3>3. CASE ~stop[k]
      <4> DEFINE p == next[k]
                 b == first + p
                 y == f[p]
      <4>1. p \in K /\ rank[p] < rank[k] /\ rank[p] \in Nat /\ rank[k] \in Nat
        BY <1>2, <3>3
      <4>2. P(p)
        <5>1. rank[p] < m
          BY <2>1, <4>1
        <5> HIDE DEF P
        <5>2. QED
          BY <1>5, <4>1, <5>1
      <4>3. x = [y EXCEPT ![a] = d[b]]
        BY <1>1, <3>3 DEF Turn
      <4>4. b \in R /\ b \in D /\ d[b] \in Elem
        BY <1>3, <4>1
      <4> HIDE DEF x, y
      <4>5. /\ y \in [D -> Elem]
            /\ \A c \in D : (\A j \in K : rank[j] <= rank[p] => c # first + j) => y[c] = d[c]
            /\ \A e : /\ Count(y, R, e) \in Nat /\ Count(d, R, e) \in Nat
                      /\ Count(y, R, e) = Count(d, R, e) - One(d[b] = e) + One(t = e)
        BY <4>2 DEF Refilled, y
      <4>6. y[a] = d[a]
        <5>1. ASSUME NEW j \in K, rank[j] <= rank[p], a = first + j
              PROVE  FALSE
          <6>1. j = k
            <7>1. j \in Nat /\ k \in Nat
              BY <1>3
            <7>2. QED
              BY <1>3, <5>1, <7>1
          <6>2. QED
            BY <4>1, <5>1, <6>1
        <5>2. QED
          BY <3>1, <4>5, <5>1
      <4>7. x \in [D -> Elem] /\ x[a] = d[b] /\ \A c \in D : c # a => x[c] = y[c]
        BY <3>1, <4>3, <4>4, <4>5
      <4>8. ASSUME NEW c \in D, \A j \in K : rank[j] <= rank[k] => c # first + j
            PROVE  x[c] = d[c]
        <5>1. c # a
          BY <1>2, <4>8
        <5>2. \A j \in K : rank[j] <= rank[p] => c # first + j
          BY <1>2, <4>1, <4>8
        <5>3. QED
          BY <4>5, <4>7, <5>1, <5>2
      <4>9. ASSUME NEW e
            PROVE  /\ Count(x, R, e) \in Nat /\ Count(d, R, e) \in Nat
                   /\ Count(x, R, e) = Count(d, R, e) - One(d[a] = e) + One(t = e)
        <5>1. \A i \in R : i # a => x[i] = y[i]
          BY <1>3, <4>7
        <5> HIDE DEF a, b
        <5>2. /\ Count(x, R, e) \in Nat /\ Count(y, R, e) \in Nat
              /\ Count(x, R, e) = Count(y, R, e) - One(y[a] = e) + One(d[b] = e)
          BY <1>3, <3>1, <4>7, <5>1, CountExcept
        <5> DEFINE cx == Count(x, R, e)
                   cy == Count(y, R, e)
                   cd == Count(d, R, e)
                   oa == One(d[a] = e)
                   ob == One(d[b] = e)
                   ot == One(t = e)
        <5>3. cx \in Nat /\ cy \in Nat /\ cx = cy - oa + ob
          BY <4>6, <5>2
        <5>4. cd \in Nat /\ cy = cd - ob + ot
          BY <4>5
        <5>5. oa \in Nat /\ ob \in Nat /\ ot \in Nat
          BY DEF One
        <5> HIDE DEF cx, cy, cd, oa, ob, ot
        <5>6. cx = cd - oa + ot
          BY <5>3, <5>4, <5>5
        <5>7. QED
          BY <5>3, <5>4, <5>6 DEF cx, cd, oa, ot
      <4>10. QED
        BY <4>7, <4>8, <4>9 DEF Refilled, a, x
    <3>4. QED
      BY <3>2, <3>3
  <2> HIDE DEF P
  <2>2. QED
    BY <2>1
<1> HIDE DEF S
<1>6. Nat \subseteq S
  BY <1>4, <1>5, SetInduction
<1>7. ASSUME NEW k \in K
      PROVE  P(k)
  <2>1. rank[k] + 1 \in Nat /\ rank[k] < rank[k] + 1
    BY <1>2
  <2>2. rank[k] + 1 \in S
    BY <1>6, <2>1
  <2> HIDE DEF P
  <2>3. QED
    BY <2>1, <2>2 DEF S
<1>8. QED
  BY <1>7

----------------------------------------------------------------------------
(* An element rises. *)

(* The n elements from first on are a heap. *)
Ordered(x, first, n) == \A k \in 1 .. n - 1 : ~Less(x[first + Parent(k)], x[first + k])

(* The parent of an element is before it. *)
LEMMA ParentIsBefore ==
  \A k \in Nat : k >= 1 => Parent(k) \in Nat /\ Parent(k) \in 0 .. k - 1 /\ Parent(k) < k
BY DEF Parent

(* Elements further on have parents no earlier. *)
LEMMA ParentsRise ==
  \A j, k \in Nat : 1 <= j /\ j <= k => Parent(j) <= Parent(k)
BY DEF Parent

(* The caller's comparison is that of the keys. *)
LEMMA KeysCompare ==
  /\ \A a, b, c \in Elem : ~Less(a, b) /\ ~Less(b, c) => ~Less(a, c)
  /\ \A a, b \in Elem : Less(a, b) => ~Less(b, a)
  /\ \A a, b, c \in Elem : Less(a, b) /\ ~Less(a, c) => Less(c, b)
BY ElemAssumption DEF Less

RiseNext(i) == [k \in 0 .. i |-> Parent(k)]
RiseStop(d, first, i, t) == [k \in 0 .. i |-> k = 0 \/ ~Less(d[first + Parent(k)], t)]
RiseRank(i) == [k \in 0 .. i |-> k]

(* Rise moves a hole up. *)
LEMMA RiseIsMoved ==
  ASSUME NEW d, NEW first, NEW i \in Nat, NEW t
  PROVE  /\ Falls(0 .. i, RiseNext(i), RiseStop(d, first, i, t), RiseRank(i))
         /\ \E f : /\ Moved(d, first, 0 .. i, RiseNext(i), RiseStop(d, first, i, t), t, f)
                   /\ Rise(d, first, i, t) = f[i]
<1> DEFINE K == 0 .. i
           next == RiseNext(i)
           stop == RiseStop(d, first, i, t)
           rank == RiseRank(i)
           Body(f, k) == IF k = 0 \/ ~Less(d[first + Parent(k)], t) THEN [d EXCEPT ![first + k] = t]
                         ELSE [f[Parent(k)] EXCEPT ![first + k] = d[first + Parent(k)]]
           Sol(f) == f = [k \in K |-> Body(f, k)]
           M(f) == Moved(d, first, K, next, stop, t, f)
<1>1. /\ \A k \in K : next[k] = Parent(k) /\ rank[k] = k
      /\ \A k \in K : stop[k] = (k = 0 \/ ~Less(d[first + Parent(k)], t))
  <2>1. \A k \in K : next[k] = Parent(k) /\ rank[k] = k
    BY DEF RiseNext, RiseRank
  <2>2. \A k \in K : stop[k] = (k = 0 \/ ~Less(d[first + Parent(k)], t))
    BY Zenon DEF RiseStop
  <2>3. QED
    BY <2>1, <2>2
<1> HIDE DEF next, stop, rank
<1>2. Falls(K, next, stop, rank)
  <2>1. \A k \in K : rank[k] \in Nat
    BY <1>1
  <2>2. ASSUME NEW k \in K, ~stop[k]
        PROVE  next[k] \in K /\ rank[next[k]] < rank[k]
    <3>1. k # 0
      BY <1>1, <2>2, Zenon
    <3>2. k \in Nat /\ k >= 1 /\ k <= i
      BY <3>1
    <3>3. Parent(k) \in K /\ Parent(k) < k
      BY <3>2, ParentIsBefore
    <3>4. QED
      BY <1>1, <3>3
  <2>3. QED
    BY <2>1, <2>2 DEF Falls
<1>3. ASSUME NEW f, NEW k \in K
      PROVE  Turn(d, first, next, stop, t, f, k) = Body(f, k)
  BY <1>1, Zenon DEF Turn
<1>4. \A f : M(f) <=> Sol(f)
  <2> TAKE f
  <2> DEFINE T(k) == Turn(d, first, next, stop, t, f, k)
             B(k) == Body(f, k)
  <2>1. \A k \in K : T(k) = B(k)
    BY <1>3
  <2> HIDE DEF T, B
  <2>2. [k \in K |-> T(k)] = [k \in K |-> B(k)]
    BY <2>1
  <2>3. M(f) <=> f = [k \in K |-> T(k)]
    BY DEF Moved, T
  <2>4. Sol(f) <=> f = [k \in K |-> B(k)]
    BY DEF B
  <2> HIDE DEF M, Sol
  <2>5. QED
    BY <2>2, <2>3, <2>4
<1>5. \E f : M(f)
  <2>1. i + 1 \in Nat /\ \A k \in K : rank[k] < i + 1
    BY <1>1
  <2>2. QED
    BY <1>2, <2>1, MovedExists
<1>6. Rise(d, first, i, t) = (CHOOSE f : Sol(f))[i]
  BY DEF Rise
<1> HIDE DEF Sol
<1>7. Sol(CHOOSE f : Sol(f))
  BY <1>4, <1>5, Zenon
<1>8. M(CHOOSE f : Sol(f))
  BY <1>4, <1>7, Zenon
<1> HIDE DEF M
<1>9. \E f : M(f) /\ Rise(d, first, i, t) = f[i]
  BY <1>6, <1>8, Zenon
<1>10. QED
  BY <1>2, <1>9 DEF M, next, stop, rank

(* x differs from d in the cells lo to hi only and holds what d would hold *)
(* with t in the cell a. *)
Replaced(d, D, R, lo, hi, a, t, x) ==
  /\ x \in [D -> Elem]
  /\ \A c \in D : ~(lo <= c /\ c <= hi) => x[c] = d[c]
  /\ \A e : /\ Count(x, R, e) \in Nat /\ Count(d, R, e) \in Nat
            /\ Count(x, R, e) = Count(d, R, e) - One(d[a] = e) + One(t = e)

(* The cells of the holes 0 .. n - 1 from first on. *)
Cells(D, R, first, n) ==
  /\ IsFiniteSet(R) /\ R \subseteq D /\ D \subseteq Nat /\ first \in Nat
  /\ \A k \in 0 .. n - 1 : first + k \in R

(* sift_up (heap.c): an element that rises from behind a heap leaves a     *)
(* heap one longer.                                                        *)
LEMMA RiseSound ==
  ASSUME NEW D, NEW R, NEW first, NEW i \in Nat, Cells(D, R, first, i + 1),
         NEW d \in [D -> Elem], NEW t \in Elem,
         Ordered(d, first, i), d[first + i] = t
  PROVE  /\ Replaced(d, D, R, first, first + i, first + i, t, Rise(d, first, i, t))
         /\ Ordered(Rise(d, first, i, t), first, i + 1)
<1> DEFINE K == 0 .. i
           next == RiseNext(i)
           stop == RiseStop(d, first, i, t)
           rank == RiseRank(i)
<1>1. Falls(K, next, stop, rank)
  BY RiseIsMoved
<1>2. PICK f : /\ Moved(d, first, K, next, stop, t, f)
               /\ Rise(d, first, i, t) = f[i]
  BY RiseIsMoved
<1>3. /\ \A k \in K : next[k] = Parent(k) /\ rank[k] = k
      /\ \A k \in K : stop[k] = (k = 0 \/ ~Less(d[first + Parent(k)], t))
  <2>1. \A k \in K : next[k] = Parent(k) /\ rank[k] = k
    BY DEF RiseNext, RiseRank
  <2>2. \A k \in K : stop[k] = (k = 0 \/ ~Less(d[first + Parent(k)], t))
    BY Zenon DEF RiseStop
  <2>3. QED
    BY <2>1, <2>2
<1> HIDE DEF next, stop, rank
<1>4. /\ IsFiniteSet(R) /\ R \subseteq D /\ D \subseteq Nat /\ first \in Nat
      /\ \A k \in K : first + k \in R /\ first + k \in D /\ d[first + k] \in Elem
  <2>1. (i + 1) - 1 = i
    OBVIOUS
  <2>2. /\ IsFiniteSet(R) /\ R \subseteq D /\ D \subseteq Nat /\ first \in Nat
        /\ \A k \in K : first + k \in R
    BY <2>1 DEF Cells
  <2>3. QED
    BY <2>2
<1>5. Holes(D, R, first, K, rank)
  BY <1>3, <1>4 DEF Holes
<1>6. \A k \in K : Refilled(d, D, R, first, K, rank, t, k, f[k])
  BY <1>1, <1>2, <1>5, MovedKeeps
<1>7. \A k \in K : f[k] = Turn(d, first, next, stop, t, f, k)
  BY <1>2 DEF Moved
<1>8. \A k \in K : f[k] \in [D -> Elem] /\ \A j \in K : j > k => f[k][first + j] = d[first + j]
  <2> SUFFICES ASSUME NEW k \in K
               PROVE  f[k] \in [D -> Elem] /\ \A j \in K : j > k => f[k][first + j] = d[first + j]
    OBVIOUS
  <2>1. /\ f[k] \in [D -> Elem]
        /\ \A c \in D : (\A j \in K : rank[j] <= rank[k] => c # first + j) => f[k][c] = d[c]
    BY <1>6 DEF Refilled
  <2>2. ASSUME NEW j \in K, j > k
        PROVE  f[k][first + j] = d[first + j]
    <3>1. \A h \in K : rank[h] <= rank[k] => first + j # first + h
      BY <1>3, <1>4, <2>2
    <3>2. QED
      BY <1>4, <2>1, <3>1
  <2>3. QED
    BY <2>1, <2>2
<1>9. i \in K /\ i \in Nat
  OBVIOUS
<1>10. Replaced(d, D, R, first, first + i, first + i, t, f[i])
  <2>1. /\ f[i] \in [D -> Elem]
        /\ \A c \in D : (\A j \in K : rank[j] <= rank[i] => c # first + j) => f[i][c] = d[c]
        /\ \A e : /\ Count(f[i], R, e) \in Nat /\ Count(d, R, e) \in Nat
                  /\ Count(f[i], R, e) = Count(d, R, e) - One(d[first + i] = e) + One(t = e)
    BY <1>6, <1>9 DEF Refilled
  <2>2. ASSUME NEW c \in D, ~(first <= c /\ c <= first + i)
        PROVE  f[i][c] = d[c]
    <3>1. \A j \in K : c # first + j
      BY <1>4, <2>2
    <3>2. QED
      BY <2>1, <3>1
  <2>3. QED
    BY <2>1, <2>2 DEF Replaced
<1> DEFINE Order(k) == \A j \in 1 .. k : ~Less(f[k][first + Parent(j)], f[k][first + j])
           Above(k) == \A j \in 0 .. k : ~Less(f[k][first + j], d[first + j])
           Q(k) == (k = i \/ Less(d[first + k], t)) => Order(k) /\ (k # i => Above(k))
           S == {m \in Nat : \A k \in K : k < m => Q(k)}
<1>11. \A j, k \in K : f[k][first + j] \in Elem
  BY <1>4, <1>8
<1>12. \A j \in 1 .. i - 1 : ~Less(d[first + Parent(j)], d[first + j])
  BY DEF Ordered
<1>13. \A k \in K : k >= 1 => Parent(k) \in K /\ Parent(k) < k /\ Parent(k) \in 0 .. k - 1
  BY ParentIsBefore
<1>14. ASSUME NEW k \in K, stop[k], k = i \/ Less(d[first + k], t)
       PROVE  Order(k) /\ (k # i => Above(k))
  <2>1. f[k] = [d EXCEPT ![first + k] = t]
    BY <1>7, <1>14 DEF Turn
  <2>2. f[k][first + k] = t /\ \A j \in K : j # k => f[k][first + j] = d[first + j]
    <3>1. \A j \in K : j # k => first + j # first + k
      BY <1>4
    <3>2. QED
      BY <1>4, <2>1, <3>1
  <2>3. ASSUME NEW j \in 1 .. k
        PROVE  ~Less(f[k][first + Parent(j)], f[k][first + j])
    <3>1. j \in K /\ Parent(j) \in K /\ Parent(j) # k /\ k # 0
      BY <1>13
    <3>2. CASE j = k
      BY <1>3, <1>14, <2>2, <3>1, <3>2
    <3>3. CASE j # k
      <4>1. j \in 1 .. i - 1
        BY <3>3
      <4>2. QED
        BY <1>12, <2>2, <3>1, <3>3, <4>1
    <3>4. QED
      BY <3>2, <3>3
  <2>4. ASSUME NEW j \in 0 .. k, k # i
        PROVE  ~Less(f[k][first + j], d[first + j])
    <3>1. j \in K
      OBVIOUS
    <3>2. CASE j = k
      BY <1>4, <1>14, <2>2, <2>4, <3>2, KeysCompare
    <3>3. CASE j # k
      <4>1. f[k][first + j] = d[first + j] /\ d[first + j] \in Elem
        BY <1>4, <2>2, <3>1, <3>3
      <4>2. QED
        BY <4>1, KeysCompare
    <3>4. QED
      BY <3>2, <3>3
  <2>5. QED
    BY <2>3, <2>4
<1>15. ASSUME NEW k \in K, ~stop[k], k = i \/ Less(d[first + k], t), Q(Parent(k))
       PROVE  Order(k) /\ (k # i => Above(k))
  <2> DEFINE p == Parent(k)
  <2>1. k # 0 /\ Less(d[first + p], t) /\ next[k] = p
    BY <1>3, <1>15, Zenon
  <2>2. k >= 1 /\ p \in K /\ p < k /\ p # i /\ k \in Nat /\ k <= i
    BY <1>13, <2>1
  <2>3. Order(p) /\ Above(p)
    BY <1>15, <2>1, <2>2
  <2>4. f[k] = [f[p] EXCEPT ![first + k] = d[first + p]]
    BY <1>7, <1>15, <2>1 DEF Turn
  <2> HIDE DEF p
  <2>5. f[k][first + k] = d[first + p] /\ \A j \in K : j # k => f[k][first + j] = f[p][first + j]
    <3>1. \A j \in K : j # k => first + j # first + k
      BY <1>4
    <3>2. f[p] \in [D -> Elem] /\ first + k \in D
      BY <1>4, <1>8, <2>2
    <3>3. QED
      BY <1>4, <2>4, <3>1, <3>2
  <2>6. \A j \in K : j > p /\ j # k => f[k][first + j] = d[first + j]
    BY <1>8, <2>2, <2>5
  <2>7. \A j \in 0 .. p : j \in K /\ j # k /\ ~Less(f[k][first + j], d[first + j])
    <3>1. \A j \in 0 .. p : j \in K /\ j # k
      BY <2>2
    <3>2. QED
      BY <2>3, <2>5, <3>1
  <2>8. ASSUME NEW j \in 1 .. k
        PROVE  ~Less(f[k][first + Parent(j)], f[k][first + j])
    <3>1. j \in K /\ j \in Nat /\ 1 <= j /\ j <= k /\ Parent(j) \in K /\ Parent(j) < j
      BY <1>13
    <3>2. Parent(j) \in 0 .. p
      BY <2>2, <3>1, ParentsRise DEF p
    <3>3. CASE j = k
      BY <2>5, <2>7, <3>2, <3>3 DEF p
    <3>4. CASE j # k /\ j <= p
      <4>1. j \in 1 .. p /\ Parent(j) # k
        BY <2>2, <3>1, <3>4
      <4>2. ~Less(f[p][first + Parent(j)], f[p][first + j])
        BY <2>3, <4>1
      <4>3. QED
        BY <2>5, <3>1, <3>4, <4>1, <4>2
    <3>5. CASE j # k /\ j > p
      <4>1. j \in 1 .. i - 1
        BY <2>2, <3>1, <3>5
      <4>2. ~Less(d[first + Parent(j)], d[first + j])
        BY <1>12, <4>1
      <4>3. ~Less(f[k][first + Parent(j)], d[first + Parent(j)])
        BY <2>7, <3>2
      <4>4. f[k][first + j] = d[first + j]
        BY <2>6, <3>1, <3>5
      <4> DEFINE x == f[k][first + Parent(j)]
                 y == d[first + Parent(j)]
                 z == d[first + j]
      <4>5. x \in Elem /\ y \in Elem /\ z \in Elem
        BY <1>4, <1>11, <3>1
      <4>6. ~Less(x, y) /\ ~Less(y, z)
        BY <4>2, <4>3
      <4> HIDE DEF x, y, z
      <4>7. ~Less(x, z)
        BY <4>5, <4>6, KeysCompare
      <4>8. QED
        BY <4>4, <4>7 DEF x, z
    <3>6. QED
      BY <2>2, <3>1, <3>3, <3>4, <3>5
  <2>9. ASSUME NEW j \in 0 .. k, k # i
        PROVE  ~Less(f[k][first + j], d[first + j])
    <3>1. j \in K /\ k \in 1 .. i - 1
      BY <2>2, <2>9
    <3>2. CASE j <= p
      <4>1. j \in 0 .. p
        BY <2>2, <3>2
      <4>2. QED
        BY <2>7, <4>1
    <3>3. CASE j > p /\ j # k
      <4>1. f[k][first + j] = d[first + j] /\ d[first + j] \in Elem
        BY <1>4, <2>6, <3>1, <3>3
      <4>2. QED
        BY <4>1, KeysCompare
    <3>4. CASE j = k
      <4>1. ~Less(d[first + p], d[first + k])
        BY <1>12, <3>1 DEF p
      <4>2. QED
        BY <2>5, <3>4, <4>1
    <3>5. QED
      BY <2>2, <3>1, <3>2, <3>3, <3>4
  <2>10. QED
    BY <2>8, <2>9
<1> HIDE DEF Order, Above
<1>16. 0 \in S
  OBVIOUS
<1>17. ASSUME NEW m \in Nat, m \in S
       PROVE  m + 1 \in S
  <2>1. ASSUME NEW k \in K, k < m + 1
        PROVE  Q(k)
    <3>1. CASE stop[k]
      BY <1>14, <3>1
    <3>2. CASE ~stop[k]
      <4>1. k # 0
        BY <1>3, <3>2, Zenon
      <4>2. Parent(k) \in K /\ Parent(k) < m
        BY <1>13, <2>1, <4>1
      <4>3. Q(Parent(k))
        BY <1>17, <4>2
      <4>4. QED
        BY <1>15, <3>2, <4>3
    <3>3. QED
      BY <3>1, <3>2
  <2> HIDE DEF Q
  <2>2. QED
    BY <2>1
<1> HIDE DEF Q
<1>18. Nat \subseteq S
  <2> HIDE DEF S
  <2>1. QED
    BY <1>16, <1>17, SetInduction
<1>19. i + 1 \in Nat /\ i < i + 1
  OBVIOUS
<1>20. Q(i)
  BY <1>9, <1>18, <1>19
<1>21. Order(i)
  BY <1>20 DEF Q
<1>22. Ordered(f[i], first, i + 1)
  <2>1. (i + 1) - 1 = i
    OBVIOUS
  <2>2. QED
    BY <1>21, <2>1 DEF Order, Ordered
<1>23. QED
  BY <1>2, <1>10, <1>22

----------------------------------------------------------------------------
(* An element sinks. *)

(* Every child of an element from lo on is no greater than it. *)
OrderedFrom(x, first, n, lo) ==
  \A k \in 1 .. n - 1 : Parent(k) >= lo => ~Less(x[first + Parent(k)], x[first + k])

(* c is the child of k that no other exceeds. *)
Chosen(d, first, len, k, c) ==
  /\ c \in 0 .. len - 1 /\ c > k /\ Parent(c) = k
  /\ \A j \in 1 .. len - 1 : Parent(j) = k => ~Less(d[first + c], d[first + j])

(* sift_down goes on to a child that the other does not exceed. *)
LEMMA ChildIsChosen ==
  ASSUME NEW d, NEW first \in Nat, NEW len \in Nat, NEW k \in 0 .. len - 1, 2 * k + 1 < len,
         \A j \in 0 .. len - 1 : d[first + j] \in Elem
  PROVE  Chosen(d, first, len, k, GreaterChild(d, first, len, k))
<1> DEFINE left == 2 * k + 1
           right == left + 1
           c == GreaterChild(d, first, len, k)
           both == right < len /\ Less(d[first + left], d[first + right])
<1>1. c = IF both THEN right ELSE left
  <2>1. first + left + 1 = first + right
    OBVIOUS
  <2>2. c = IF right < len /\ Less(d[first + left], d[first + left + 1]) THEN right ELSE left
    BY DEF GreaterChild
  <2> HIDE DEF left, right, c
  <2>3. QED
    BY <2>1, <2>2
<1>2. /\ left \in Nat /\ left \in 0 .. len - 1 /\ left > k /\ Parent(left) = k
      /\ right \in Nat /\ right > k /\ Parent(right) = k
      /\ right < len => right \in 0 .. len - 1
  BY DEF Parent
<1>3. \A j \in 1 .. len - 1 : Parent(j) = k => j = left \/ j = right
  BY DEF Parent
<1>4. \A j \in 1 .. len - 1 : j < len
  OBVIOUS
<1> HIDE DEF left, right, c
<1>5. CASE both
  <2>1. c = right /\ right < len /\ Less(d[first + left], d[first + right])
    BY <1>1, <1>5
  <2>2. d[first + left] \in Elem /\ d[first + right] \in Elem
    BY <1>2, <2>1
  <2>3. ~Less(d[first + right], d[first + left]) /\ ~Less(d[first + right], d[first + right])
    BY <2>1, <2>2, KeysCompare
  <2>4. \A j \in 1 .. len - 1 : Parent(j) = k => ~Less(d[first + c], d[first + j])
    BY <1>3, <2>1, <2>3
  <2>5. QED
    BY <1>2, <2>1, <2>4 DEF Chosen, c
<1>6. CASE ~both
  <2>1. c = left
    BY <1>1, <1>6
  <2>2. ~Less(d[first + left], d[first + left])
    BY <1>2, KeysCompare
  <2>3. ASSUME NEW j \in 1 .. len - 1, Parent(j) = k
        PROVE  ~Less(d[first + c], d[first + j])
    <3>1. CASE j = left
      BY <2>1, <2>2, <3>1
    <3>2. CASE j = right
      <4>1. right < len
        BY <1>4, <3>2
      <4>2. QED
        BY <1>6, <2>1, <3>2, <4>1
    <3>3. QED
      BY <1>3, <2>3, <3>1, <3>2
  <2>4. QED
    BY <1>2, <2>1, <2>3 DEF Chosen, c
<1>7. QED
  BY <1>5, <1>6

SinkNext(d, first, len) == [k \in 0 .. len - 1 |-> GreaterChild(d, first, len, k)]
SinkStop(d, first, len, t) ==
  [k \in 0 .. len - 1 |-> 2 * k + 1 >= len \/ Less(d[first + GreaterChild(d, first, len, k)], t)]
SinkRank(len) == [k \in 0 .. len - 1 |-> len - 1 - k]

SinkMoves(d, first, len, i, t, f) ==
  /\ Moved(d, first, 0 .. len - 1, SinkNext(d, first, len), SinkStop(d, first, len, t), t, f)
  /\ Sink(d, first, len, i, t) = f[i]

(* Sink moves a hole down. *)
LEMMA SinkIsMoved ==
  ASSUME NEW d, NEW first \in Nat, NEW len \in Nat, NEW i, NEW t,
         \A j \in 0 .. len - 1 : d[first + j] \in Elem
  PROVE  /\ Falls(0 .. len - 1, SinkNext(d, first, len), SinkStop(d, first, len, t), SinkRank(len))
         /\ \E f : SinkMoves(d, first, len, i, t, f)
<1> DEFINE K == 0 .. len - 1
           next == SinkNext(d, first, len)
           stop == SinkStop(d, first, len, t)
           rank == SinkRank(len)
           C(k) == GreaterChild(d, first, len, k)
           Body(f, k) == IF 2 * k + 1 >= len \/ Less(d[first + C(k)], t) THEN [d EXCEPT ![first + k] = t]
                         ELSE [f[C(k)] EXCEPT ![first + k] = d[first + C(k)]]
           Sol(f) == f = [k \in K |-> Body(f, k)]
           M(f) == Moved(d, first, K, next, stop, t, f)
<1>1. /\ \A k \in K : next[k] = C(k) /\ rank[k] = len - 1 - k
      /\ \A k \in K : stop[k] = (2 * k + 1 >= len \/ Less(d[first + C(k)], t))
  <2>1. \A k \in K : next[k] = C(k)
    BY Zenon DEF SinkNext
  <2>2. \A k \in K : rank[k] = len - 1 - k
    BY DEF SinkRank
  <2>3. \A k \in K : stop[k] = (2 * k + 1 >= len \/ Less(d[first + C(k)], t))
    BY Zenon DEF SinkStop
  <2>4. QED
    BY <2>1, <2>2, <2>3
<1> HIDE DEF next, stop, rank
<1>2. Falls(K, next, stop, rank)
  <2>1. \A k \in K : rank[k] \in Nat
    BY <1>1
  <2>2. ASSUME NEW k \in K, ~stop[k]
        PROVE  next[k] \in K /\ rank[next[k]] < rank[k]
    <3>1. ~(2 * k + 1 >= len)
      BY <1>1, <2>2, Zenon
    <3>2. 2 * k + 1 < len
      BY <3>1
    <3>3. C(k) \in K /\ C(k) > k
      <4>1. Chosen(d, first, len, k, C(k))
        BY <3>2, ChildIsChosen
      <4> HIDE DEF C
      <4>2. QED
        BY <4>1 DEF Chosen
    <3> HIDE DEF C
    <3>4. next[k] = C(k) /\ rank[k] = len - 1 - k /\ rank[C(k)] = len - 1 - C(k)
      BY <1>1, <3>3
    <3>5. QED
      BY <3>3, <3>4
  <2>3. QED
    BY <2>1, <2>2 DEF Falls
<1> HIDE DEF C
<1>3. ASSUME NEW f, NEW k \in K
      PROVE  Turn(d, first, next, stop, t, f, k) = Body(f, k)
  BY <1>1, Zenon DEF Turn
<1>4. \A f : M(f) <=> Sol(f)
  <2> TAKE f
  <2> DEFINE T(k) == Turn(d, first, next, stop, t, f, k)
             B(k) == Body(f, k)
  <2>1. \A k \in K : T(k) = B(k)
    BY <1>3
  <2> HIDE DEF T, B
  <2>2. [k \in K |-> T(k)] = [k \in K |-> B(k)]
    BY <2>1
  <2>3. M(f) <=> f = [k \in K |-> T(k)]
    BY DEF Moved, T
  <2>4. Sol(f) <=> f = [k \in K |-> B(k)]
    BY DEF B
  <2> HIDE DEF M, Sol
  <2>5. QED
    BY <2>2, <2>3, <2>4
<1>5. \E f : M(f)
  <2>1. \A k \in K : rank[k] < len
    BY <1>1
  <2>2. QED
    BY <1>2, <2>1, MovedExists
<1>6. Sink(d, first, len, i, t) = (CHOOSE f : Sol(f))[i]
  BY DEF Sink, C
<1> HIDE DEF Sol
<1>7. Sol(CHOOSE f : Sol(f))
  BY <1>4, <1>5, Zenon
<1>8. M(CHOOSE f : Sol(f))
  BY <1>4, <1>7, Zenon
<1> HIDE DEF M
<1>9. \E f : M(f) /\ Sink(d, first, len, i, t) = f[i]
  BY <1>6, <1>8, Zenon
<1>10. QED
  BY <1>2, <1>9 DEF M, next, stop, rank, SinkMoves

(* sift_down (heap.c): an element that sinks leaves in order whatever was  *)
(* so below it, and itself.                                                *)
LEMMA SinkSound ==
  ASSUME NEW D, NEW R, NEW first, NEW len \in Nat, NEW i \in 0 .. len - 1, Cells(D, R, first, len),
         NEW d \in [D -> Elem], NEW t \in Elem, OrderedFrom(d, first, len, i + 1)
  PROVE  /\ Replaced(d, D, R, first + i, first + (len - 1), first + i, t, Sink(d, first, len, i, t))
         /\ OrderedFrom(Sink(d, first, len, i, t), first, len, i)
<1> DEFINE K == 0 .. len - 1
           next == SinkNext(d, first, len)
           stop == SinkStop(d, first, len, t)
           rank == SinkRank(len)
           C(k) == GreaterChild(d, first, len, k)
<1>1. /\ IsFiniteSet(R) /\ R \subseteq D /\ D \subseteq Nat /\ first \in Nat
      /\ \A k \in K : first + k \in R /\ first + k \in D /\ d[first + k] \in Elem
  <2>1. /\ IsFiniteSet(R) /\ R \subseteq D /\ D \subseteq Nat /\ first \in Nat
        /\ \A k \in K : first + k \in R
    BY DEF Cells
  <2>2. QED
    BY <2>1
<1>2. Falls(K, next, stop, rank)
  BY <1>1, SinkIsMoved
<1>3. PICK f : /\ Moved(d, first, K, next, stop, t, f)
               /\ Sink(d, first, len, i, t) = f[i]
  <2>1. first \in Nat /\ \A j \in 0 .. len - 1 : d[first + j] \in Elem
    BY <1>1
  <2>2. \E f : SinkMoves(d, first, len, i, t, f)
    BY <2>1, SinkIsMoved
  <2>3. QED
    BY <2>2 DEF SinkMoves
<1>4. /\ \A k \in K : next[k] = C(k) /\ rank[k] = len - 1 - k
      /\ \A k \in K : stop[k] = (2 * k + 1 >= len \/ Less(d[first + C(k)], t))
  <2>1. \A k \in K : next[k] = C(k)
    BY Zenon DEF SinkNext
  <2>2. \A k \in K : rank[k] = len - 1 - k
    BY DEF SinkRank
  <2>3. \A k \in K : stop[k] = (2 * k + 1 >= len \/ Less(d[first + C(k)], t))
    BY Zenon DEF SinkStop
  <2>4. QED
    BY <2>1, <2>2, <2>3
<1> HIDE DEF next, stop, rank
<1>5. \A k \in K : 2 * k + 1 < len => Chosen(d, first, len, k, C(k))
  BY <1>1, ChildIsChosen
<1> HIDE DEF C
<1>6. Holes(D, R, first, K, rank)
  <2>1. \A j, k \in K : rank[j] = rank[k] => j = k
    BY <1>4
  <2>2. K \subseteq Nat
    OBVIOUS
  <2>3. QED
    BY <1>1, <2>1, <2>2 DEF Holes
<1>7. \A k \in K : Refilled(d, D, R, first, K, rank, t, k, f[k])
  BY <1>2, <1>3, <1>6, MovedKeeps
<1>8. \A k \in K : f[k] = Turn(d, first, next, stop, t, f, k)
  BY <1>3 DEF Moved
<1>9. \A k \in K : f[k] \in [D -> Elem] /\ \A j \in K : j < k => f[k][first + j] = d[first + j]
  <2> SUFFICES ASSUME NEW k \in K
               PROVE  f[k] \in [D -> Elem] /\ \A j \in K : j < k => f[k][first + j] = d[first + j]
    OBVIOUS
  <2>1. /\ f[k] \in [D -> Elem]
        /\ \A c \in D : (\A j \in K : rank[j] <= rank[k] => c # first + j) => f[k][c] = d[c]
    BY <1>7 DEF Refilled
  <2>2. ASSUME NEW j \in K, j < k
        PROVE  f[k][first + j] = d[first + j]
    <3>1. \A h \in K : rank[h] <= rank[k] => first + j # first + h
      BY <1>1, <1>4, <2>2
    <3>2. QED
      BY <1>1, <2>1, <3>1
  <2>3. QED
    BY <2>1, <2>2
<1>10. Replaced(d, D, R, first + i, first + (len - 1), first + i, t, f[i])
  <2>1. /\ f[i] \in [D -> Elem]
        /\ \A c \in D : (\A j \in K : rank[j] <= rank[i] => c # first + j) => f[i][c] = d[c]
        /\ \A e : /\ Count(f[i], R, e) \in Nat /\ Count(d, R, e) \in Nat
                  /\ Count(f[i], R, e) = Count(d, R, e) - One(d[first + i] = e) + One(t = e)
    BY <1>7 DEF Refilled
  <2>2. ASSUME NEW c \in D, ~(first + i <= c /\ c <= first + (len - 1))
        PROVE  f[i][c] = d[c]
    <3>1. \A j \in K : rank[j] <= rank[i] => j >= i
      BY <1>4
    <3>2. \A j \in K : j >= i => c # first + j
      BY <1>1, <2>2
    <3>3. QED
      BY <2>1, <3>1, <3>2
  <2>3. QED
    BY <2>1, <2>2 DEF Replaced
<1> DEFINE Order(k) == \A j \in 1 .. len - 1 : Parent(j) >= k => ~Less(f[k][first + Parent(j)], f[k][first + j])
           Below(k) == \A j \in K : ~Less(d[first + j], f[k][first + j])
           Q(k) == (k = i \/ (k > i /\ ~Less(d[first + k], t))) => Order(k) /\ (k # i => Below(k))
           S == {m \in Nat : \A k \in K : len - 1 - k < m => Q(k)}
<1>11. \A j, k \in K : f[k][first + j] \in Elem
  BY <1>1, <1>9
<1>12. \A j \in 1 .. len - 1 : Parent(j) >= i + 1 => ~Less(d[first + Parent(j)], d[first + j])
  BY DEF OrderedFrom
<1>13. \A j \in 1 .. len - 1 : j \in K /\ Parent(j) \in K /\ Parent(j) < j
  BY ParentIsBefore
<1>14. ASSUME NEW k \in K, stop[k], k = i \/ (k > i /\ ~Less(d[first + k], t))
       PROVE  Order(k) /\ (k # i => Below(k))
  <2>1. f[k] = [d EXCEPT ![first + k] = t]
    BY <1>8, <1>14 DEF Turn
  <2>2. f[k][first + k] = t /\ \A j \in K : j # k => f[k][first + j] = d[first + j]
    <3>1. \A j \in K : j # k => first + j # first + k
      BY <1>1
    <3>2. QED
      BY <1>1, <2>1, <3>1
  <2>3. ASSUME NEW j \in 1 .. len - 1, Parent(j) >= k
        PROVE  ~Less(f[k][first + Parent(j)], f[k][first + j])
    <3>1. j \in K /\ Parent(j) \in K /\ Parent(j) < j /\ j # k
      BY <1>13, <2>3
    <3>2. CASE Parent(j) = k
      <4>1. ~(2 * k + 1 >= len) /\ 2 * k + 1 < len
        BY <3>1, <3>2 DEF Parent
      <4>2. Less(d[first + C(k)], t)
        BY <1>4, <1>14, <4>1, Zenon
      <4>3. ~Less(d[first + C(k)], d[first + j]) /\ C(k) \in K
        BY <1>5, <3>2, <4>1 DEF Chosen
      <4> DEFINE x == d[first + C(k)]
                 y == d[first + j]
      <4>4. x \in Elem /\ y \in Elem /\ Less(x, t) /\ ~Less(x, y)
        BY <1>1, <3>1, <4>2, <4>3
      <4> HIDE DEF x, y
      <4>5. ~Less(t, y)
        BY <4>4, KeysCompare
      <4>6. QED
        BY <2>2, <3>1, <3>2, <4>5 DEF y
    <3>3. CASE Parent(j) # k
      <4>1. Parent(j) >= i + 1
        BY <1>14, <2>3, <3>1, <3>3
      <4>2. QED
        BY <1>12, <2>2, <3>1, <3>3, <4>1
    <3>4. QED
      BY <3>2, <3>3
  <2>4. ASSUME NEW j \in K, k # i
        PROVE  ~Less(d[first + j], f[k][first + j])
    <3>1. CASE j = k
      BY <1>14, <2>2, <2>4, <3>1
    <3>2. CASE j # k
      <4>1. f[k][first + j] = d[first + j] /\ d[first + j] \in Elem
        BY <1>1, <2>2, <3>2
      <4>2. QED
        BY <4>1, KeysCompare
    <3>3. QED
      BY <3>1, <3>2
  <2>5. QED
    BY <2>3, <2>4
<1>15. ASSUME NEW k \in K, ~stop[k], k = i \/ (k > i /\ ~Less(d[first + k], t)), Q(C(k))
       PROVE  Order(k) /\ (k # i => Below(k))
  <2> DEFINE c == C(k)
  <2>1. ~(2 * k + 1 >= len) /\ ~Less(d[first + c], t) /\ next[k] = c
    BY <1>4, <1>15, Zenon
  <2>2. 2 * k + 1 < len
    BY <2>1
  <2>3. Chosen(d, first, len, k, c)
    BY <1>5, <2>2
  <2>4. /\ c \in K /\ c > k /\ c > i /\ c # i /\ Parent(c) = k /\ c \in 1 .. len - 1
        /\ \A j \in 1 .. len - 1 : Parent(j) = k => ~Less(d[first + c], d[first + j])
    BY <1>15, <2>3 DEF Chosen
  <2>5. Order(c) /\ Below(c)
    BY <1>15, <2>1, <2>4
  <2>6. f[k] = [f[c] EXCEPT ![first + k] = d[first + c]]
    BY <1>8, <1>15, <2>1 DEF Turn
  <2> HIDE DEF c
  <2>7. f[k][first + k] = d[first + c] /\ \A j \in K : j # k => f[k][first + j] = f[c][first + j]
    <3>1. \A j \in K : j # k => first + j # first + k
      BY <1>1
    <3>2. f[c] \in [D -> Elem] /\ first + k \in D
      BY <1>1, <1>9, <2>4
    <3>3. QED
      BY <1>1, <2>6, <3>1, <3>2
  <2>8. \A j \in K : j < c /\ j # k => f[k][first + j] = d[first + j]
    BY <1>9, <2>4, <2>7
  <2>9. \A j \in K : j # k => ~Less(d[first + j], f[k][first + j])
    BY <2>5, <2>7
  <2>10. ASSUME NEW j \in 1 .. len - 1, Parent(j) >= k
         PROVE  ~Less(f[k][first + Parent(j)], f[k][first + j])
    <3>1. j \in K /\ Parent(j) \in K /\ Parent(j) < j /\ j # k
      BY <1>13, <2>10
    <3> DEFINE x == f[k][first + Parent(j)]
               y == d[first + j]
               z == f[k][first + j]
    <3>2. x \in Elem /\ y \in Elem /\ z \in Elem
      BY <1>1, <1>11, <3>1
    <3>3. ~Less(y, z)
      BY <2>9, <3>1
    <3>4. CASE Parent(j) = k
      <4>1. ~Less(x, y)
        BY <2>4, <2>7, <3>4
      <4> HIDE DEF x, y, z
      <4>2. ~Less(x, z)
        BY <3>2, <3>3, <4>1, KeysCompare
      <4>3. QED
        BY <4>2 DEF x, z
    <3>5. CASE Parent(j) # k /\ Parent(j) < c
      <4>1. Parent(j) >= i + 1
        BY <1>15, <2>10, <3>1, <3>5
      <4>2. ~Less(d[first + Parent(j)], y)
        BY <1>12, <4>1
      <4>3. ~Less(x, y)
        BY <2>8, <3>1, <3>5, <4>2
      <4> HIDE DEF x, y, z
      <4>4. ~Less(x, z)
        BY <3>2, <3>3, <4>3, KeysCompare
      <4>5. QED
        BY <4>4 DEF x, z
    <3>6. CASE Parent(j) # k /\ ~(Parent(j) < c)
      <4>1. Parent(j) >= c
        BY <2>4, <3>1, <3>6
      <4>2. ~Less(f[c][first + Parent(j)], f[c][first + j])
        BY <2>5, <4>1
      <4>3. QED
        BY <2>7, <3>1, <3>6, <4>2
    <3>7. QED
      BY <3>4, <3>5, <3>6
  <2>11. ASSUME NEW j \in K, k # i
         PROVE  ~Less(d[first + j], f[k][first + j])
    <3>1. CASE j = k
      <4>1. k >= i + 1
        BY <1>15, <2>11
      <4>2. ~Less(d[first + k], d[first + c])
        BY <1>12, <2>4, <4>1
      <4>3. QED
        BY <2>7, <3>1, <4>2
    <3>2. CASE j # k
      BY <2>9, <3>2
    <3>3. QED
      BY <3>1, <3>2
  <2>12. QED
    BY <2>10, <2>11
<1> HIDE DEF Order, Below
<1>16. 0 \in S
  OBVIOUS
<1>17. ASSUME NEW m \in Nat, m \in S
       PROVE  m + 1 \in S
  <2>1. ASSUME NEW k \in K, len - 1 - k < m + 1
        PROVE  Q(k)
    <3>1. CASE stop[k]
      BY <1>14, <3>1
    <3>2. CASE ~stop[k]
      <4>1. ~(2 * k + 1 >= len)
        BY <1>4, <3>2, Zenon
      <4>2. 2 * k + 1 < len
        BY <4>1
      <4>3. C(k) \in K /\ C(k) > k
        BY <1>5, <4>2 DEF Chosen
      <4>4. len - 1 - C(k) < m
        BY <2>1, <4>3
      <4>5. Q(C(k))
        BY <1>17, <4>3, <4>4
      <4>6. QED
        BY <1>15, <3>2, <4>5
    <3>3. QED
      BY <3>1, <3>2
  <2> HIDE DEF Q
  <2>2. QED
    BY <2>1
<1> HIDE DEF Q
<1>18. Nat \subseteq S
  <2> HIDE DEF S
  <2>1. QED
    BY <1>16, <1>17, SetInduction
<1>19. len \in S /\ len - 1 - i < len
  BY <1>18
<1>20. Q(i)
  BY <1>19
<1>21. Order(i)
  BY <1>20 DEF Q
<1>22. OrderedFrom(f[i], first, len, i)
  BY <1>21 DEF Order, OrderedFrom
<1>23. QED
  BY <1>3, <1>10, <1>22

----------------------------------------------------------------------------
(* The heap operations. *)

(* x holds what d holds in the cells R, and elsewhere the same as d. *)
Kept(d, D, R, x) ==
  /\ x \in [D -> Elem]
  /\ \A e : Count(x, R, e) = Count(d, R, e)
  /\ \A c \in D \ R : x[c] = d[c]

(* Operations that keep the elements keep them one after another. *)
LEMMA KeptOnAndOn ==
  ASSUME NEW D, NEW R, NEW d, NEW x, NEW y, Kept(d, D, R, x), Kept(x, D, R, y)
  PROVE  Kept(d, D, R, y)
BY DEF Kept

(* A hole that is filled with the element taken from it keeps the          *)
(* elements.                                                               *)
LEMMA ReplacedIsKept ==
  ASSUME NEW D, NEW R, NEW first, NEW n, Cells(D, R, first, n), NEW d, NEW lo, NEW hi, NEW a, NEW t, NEW x,
         Replaced(d, D, R, lo, hi, a, t, x), d[a] = t,
         lo \in Int, hi \in Int, \A c \in Nat : lo <= c /\ c <= hi => c \in R
  PROVE  Kept(d, D, R, x)
<1>1. ASSUME NEW e
      PROVE  Count(x, R, e) = Count(d, R, e)
  <2> DEFINE cx == Count(x, R, e)
             cd == Count(d, R, e)
             o == One(t = e)
  <2>1. cx \in Nat /\ cd \in Nat /\ cx = cd - o + o
    BY DEF Replaced
  <2>2. o \in Nat
    BY DEF One
  <2> HIDE DEF cx, cd, o
  <2>3. cx = cd
    BY <2>1, <2>2
  <2>4. QED
    BY <2>3 DEF cx, cd
<1>2. \A c \in D \ R : x[c] = d[c]
  <2>1. D \subseteq Nat
    BY DEF Cells
  <2>2. QED
    BY <2>1 DEF Replaced
<1>3. QED
  BY <1>1, <1>2 DEF Kept, Replaced

(* Heap_Push: the last element rises. *)
LEMMA PushSound ==
  ASSUME NEW D, D \subseteq Nat, NEW first \in Nat, NEW last \in Nat, first < last,
         NEW R, R = first .. last - 1, R \subseteq D, NEW d \in [D -> Elem],
         Ordered(d, first, last - first - 1)
  PROVE  /\ Kept(d, D, R, Heap_Push(d, first, last))
         /\ Ordered(Heap_Push(d, first, last), first, last - first)
<1> DEFINE i == last - 1 - first
           t == d[last - 1]
           x == Heap_Push(d, first, last)
<1>1. i \in Nat /\ first + i = last - 1 /\ i + 1 = last - first /\ last - first - 1 = i
  OBVIOUS
<1>2. last - 1 \in R /\ last - 1 \in D /\ t \in Elem
  OBVIOUS
<1>3. Cells(D, R, first, i + 1)
  <2>1. IsFiniteSet(R)
    BY FS_Interval
  <2>2. \A k \in 0 .. (i + 1) - 1 : first + k \in R
    OBVIOUS
  <2>3. QED
    BY <2>1, <2>2 DEF Cells
<1>4. CASE last - first > 1
  <2>1. x = Rise(d, first, i, t)
    BY <1>4 DEF Heap_Push, sift_up
  <2>2. d[first + i] = t /\ Ordered(d, first, i)
    BY <1>1
  <2> HIDE DEF i, t, x
  <2>3. Replaced(d, D, R, first, first + i, first + i, t, x) /\ Ordered(x, first, i + 1)
    BY <1>1, <1>2, <1>3, <2>1, <2>2, RiseSound
  <2>4. \A c \in Nat : first <= c /\ c <= first + i => c \in R
    BY <1>1
  <2>5. first \in Int /\ first + i \in Int
    BY <1>1
  <2>6. Kept(d, D, R, x)
    BY <1>3, <2>2, <2>3, <2>4, <2>5, ReplacedIsKept
  <2>7. QED
    BY <1>1, <2>3, <2>6 DEF x
<1>5. CASE ~(last - first > 1)
  <2>1. x = d
    BY <1>5 DEF Heap_Push, sift_up
  <2>2. Kept(d, D, R, d)
    BY DEF Kept
  <2>3. 1 .. (last - first) - 1 = {}
    BY <1>5
  <2>4. Ordered(d, first, last - first)
    BY <2>3 DEF Ordered
  <2>5. QED
    BY <2>1, <2>2, <2>4
<1>6. QED
  BY <1>4, <1>5

(* sift_down: the element at start sinks. *)
LEMMA DownSound ==
  ASSUME NEW D, NEW R, NEW first \in Nat, NEW last \in Nat, NEW i \in 0 .. last - first - 1,
         Cells(D, R, first, last - first), NEW d \in [D -> Elem],
         OrderedFrom(d, first, last - first, i + 1),
         NEW x, x = sift_down(d, first, last, first + i)
  PROVE  /\ Kept(d, D, R, x)
         /\ \A c \in D : c >= last => x[c] = d[c]
         /\ OrderedFrom(x, first, last - first, i)
<1> DEFINE len == last - first
           t == d[first + i]
           a == first + i
           hi == first + (len - 1)
<1>1. len \in Nat /\ i \in Nat /\ i \in 0 .. len - 1 /\ a - first = i /\ hi = last - 1
  OBVIOUS
<1>2. D \subseteq Nat /\ \A k \in 0 .. len - 1 : first + k \in R /\ first + k \in D
  BY DEF Cells
<1>3. CASE len < 2
  <2>1. x = d
    BY <1>3 DEF sift_down
  <2>2. Kept(d, D, R, d)
    BY DEF Kept
  <2>3. 1 .. len - 1 = {}
    BY <1>1, <1>3
  <2>4. OrderedFrom(d, first, len, i)
    BY <2>3 DEF OrderedFrom
  <2>5. QED
    BY <2>1, <2>2, <2>4
<1>4. CASE ~(len < 2)
  <2>1. x = Sink(d, first, len, a - first, d[a])
    BY <1>4 DEF sift_down
  <2>2. x = Sink(d, first, len, i, t)
    BY <1>1, <2>1
  <2>3. t \in Elem /\ t = d[a]
    BY <1>1, <1>2
  <2>4. Cells(D, R, first, len) /\ OrderedFrom(d, first, len, i + 1)
    OBVIOUS
  <2> HIDE DEF len, t
  <2>5. /\ Replaced(d, D, R, a, hi, a, t, x)
        /\ OrderedFrom(x, first, len, i)
    BY <1>1, <2>2, <2>3, <2>4, SinkSound
  <2>6. \A c \in Nat : a <= c /\ c <= hi => c \in R
    <3> SUFFICES ASSUME NEW c \in Nat, a <= c, c <= hi
                 PROVE  c \in R
      OBVIOUS
    <3>1. c - first \in 0 .. len - 1 /\ first + (c - first) = c
      BY <1>1
    <3>2. QED
      BY <1>2, <3>1
  <2>7. a \in Int /\ hi \in Int
    BY <1>1
  <2> HIDE DEF a, hi
  <2>8. Kept(d, D, R, x)
    BY <2>3, <2>4, <2>5, <2>6, <2>7, ReplacedIsKept
  <2>9. ASSUME NEW c \in D, c >= last
        PROVE  x[c] = d[c]
    <3>1. ~(a <= c /\ c <= hi)
      BY <1>1, <1>2, <2>7, <2>9
    <3>2. QED
      BY <2>5, <3>1 DEF Replaced
  <2>10. QED
    BY <2>5, <2>8, <2>9 DEF len
<1>5. QED
  BY <1>3, <1>4

(* The states of the range while Make_Heap sifts. *)
SiftStep(d, first, last, parents, f, n) ==
  IF n = 0 THEN d ELSE sift_down(f[n - 1], first, last, first + parents - n)
Sifted(d, first, last, parents, m, f) ==
  f = [n \in 0 .. m |-> SiftStep(d, first, last, parents, f, n)]

(* The loop of Make_Heap has a result after every turn. *)
LEMMA SiftedExists ==
  ASSUME NEW d, NEW first, NEW last, NEW parents
  PROVE  \A m \in Nat : \E f : Sifted(d, first, last, parents, m, f)
<1> DEFINE V(f, n) == SiftStep(d, first, last, parents, f, n)
           S == {m \in Nat : \E f : f = [n \in 0 .. m |-> V(f, n)]}
<1>1. 0 \in S
  <2> DEFINE f == [n \in 0 .. 0 |-> d]
  <2>1. \A n \in 0 .. 0 : V(f, n) = d
    BY DEF SiftStep
  <2> HIDE DEF V
  <2>2. f = [n \in 0 .. 0 |-> V(f, n)]
    BY <2>1
  <2> HIDE DEF f
  <2>3. QED
    BY <2>2
<1>2. ASSUME NEW m \in Nat, m \in S
      PROVE  m + 1 \in S
  <2>1. PICK f : f = [n \in 0 .. m |-> V(f, n)]
    BY <1>2
  <2> DEFINE g == [n \in 0 .. m + 1 |-> IF n <= m THEN f[n] ELSE V(f, n)]
  <2>2. \A n \in 0 .. m + 1 : g[n] = IF n <= m THEN f[n] ELSE V(f, n)
    BY Zenon
  <2>3. g = [n \in 0 .. m + 1 |-> g[n]]
    BY Zenon
  <2> HIDE DEF g
  <2>4. ASSUME NEW n \in 0 .. m + 1
        PROVE  g[n] = V(g, n)
    <3>1. g[n] = V(f, n)
      <4>1. CASE n <= m
        <5>1. n \in 0 .. m
          BY <4>1
        <5> HIDE DEF V
        <5>2. f[n] = V(f, n)
          BY <2>1, <5>1
        <5>3. QED
          BY <2>2, <4>1, <5>2
      <4>2. CASE ~(n <= m)
        <5> HIDE DEF V
        <5>1. QED
          BY <2>2, <4>2
      <4>3. QED
        BY <4>1, <4>2
    <3>2. CASE n = 0
      BY <3>1, <3>2 DEF SiftStep
    <3>3. CASE n # 0
      <4>1. n - 1 \in 0 .. m + 1 /\ n - 1 <= m
        BY <3>3
      <4>2. g[n - 1] = f[n - 1]
        BY <2>2, <4>1
      <4>3. QED
        BY <3>1, <3>3, <4>2 DEF SiftStep
    <3>4. QED
      BY <3>2, <3>3
  <2> HIDE DEF V
  <2>5. g = [n \in 0 .. m + 1 |-> V(g, n)]
    BY <2>3, <2>4
  <2>6. QED
    BY <2>5
<1> HIDE DEF S
<1>3. Nat \subseteq S
  BY <1>1, <1>2, SetInduction
<1>4. QED
  BY <1>3 DEF S, Sifted

(* SiftAll is the last of them. *)
LEMMA SiftAllIsSifted ==
  ASSUME NEW d, NEW first, NEW last, NEW parents \in Nat
  PROVE  \E f : /\ Sifted(d, first, last, parents, parents, f)
                /\ SiftAll(d, first, last, parents) = f[parents]
<1> DEFINE Sol(f) == Sifted(d, first, last, parents, parents, f)
<1>1. \E f : Sol(f)
  BY SiftedExists
<1>2. SiftAll(d, first, last, parents) = (CHOOSE f : Sol(f))[parents]
  BY DEF SiftAll, Sifted, SiftStep
<1> HIDE DEF Sol
<1>3. QED
  BY <1>1, <1>2, Zenon DEF Sol

(* Make_Heap orders the range. *)
LEMMA MakeSound ==
  ASSUME NEW D, D \subseteq Nat, NEW first \in Nat, NEW last \in Nat, first < last,
         NEW R, R = first .. last - 1, R \subseteq D, NEW d \in [D -> Elem]
  PROVE  /\ Kept(d, D, R, Make_Heap(d, first, last))
         /\ OrderedFrom(Make_Heap(d, first, last), first, last - first, 0)
<1> DEFINE len == last - first
           parents == len \div 2
           x == Make_Heap(d, first, last)
<1>1. len \in Nat /\ parents \in Nat /\ parents <= len /\ 2 * parents + 1 >= len
      /\ (len > 1 => parents < len)
  OBVIOUS
<1>2. Cells(D, R, first, len)
  <2>1. IsFiniteSet(R)
    BY FS_Interval
  <2>2. \A k \in 0 .. len - 1 : first + k \in R
    OBVIOUS
  <2>3. QED
    BY <2>1, <2>2 DEF Cells
<1>3. Kept(d, D, R, d)
  BY DEF Kept
<1>4. CASE ~(len > 1)
  <2>1. x = d
    BY <1>4 DEF Make_Heap
  <2>2. 1 .. len - 1 = {}
    BY <1>1, <1>4
  <2>3. OrderedFrom(d, first, len, 0)
    BY <2>2 DEF OrderedFrom
  <2>4. QED
    BY <1>3, <2>1, <2>3
<1>5. CASE len > 1
  <2>1. PICK f : /\ Sifted(d, first, last, parents, parents, f)
                 /\ SiftAll(d, first, last, parents) = f[parents]
    <3> HIDE DEF parents
    <3>1. QED
      BY <1>1, SiftAllIsSifted
  <2>2. x = f[parents]
    BY <1>5, <2>1 DEF Make_Heap
  <2> HIDE DEF x
  <2>3. \A n \in 0 .. parents : f[n] = SiftStep(d, first, last, parents, f, n)
    <3> HIDE DEF parents
    <3>1. QED
      BY <2>1 DEF Sifted
  <2> DEFINE P(n) == Kept(d, D, R, f[n]) /\ OrderedFrom(f[n], first, len, parents - n)
             S == {n \in Nat : n <= parents => P(n)}
  <2>4. 0 \in S
    <3>1. f[0] = d
      <4> HIDE DEF parents
      <4>1. 0 \in 0 .. parents
        BY <1>1
      <4>2. QED
        BY <2>3, <4>1 DEF SiftStep
    <3>2. OrderedFrom(d, first, len, parents - 0)
      <4>1. \A k \in 1 .. len - 1 : ~(Parent(k) >= parents - 0)
        BY <1>1 DEF Parent
      <4>2. QED
        BY <4>1 DEF OrderedFrom
    <3>3. P(0)
      BY <1>3, <3>1, <3>2
    <3> HIDE DEF P
    <3>4. QED
      BY <3>3
  <2>5. ASSUME NEW n \in Nat, n \in S
        PROVE  n + 1 \in S
    <3> SUFFICES ASSUME n + 1 <= parents
                 PROVE  P(n + 1)
      OBVIOUS
    <3> HIDE DEF parents, len
    <3> DEFINE i == parents - (n + 1)
               y == f[n]
               z == f[n + 1]
    <3>1. n \in 0 .. parents /\ n <= parents /\ n + 1 \in 0 .. parents /\ n + 1 # 0 /\ (n + 1) - 1 = n
      BY <1>1
    <3>2. Kept(d, D, R, y) /\ OrderedFrom(y, first, len, parents - n)
      BY <2>5, <3>1
    <3>3. i \in Nat /\ i + 1 = parents - n /\ i \in 0 .. len - 1 /\ first + parents - (n + 1) = first + i
      BY <1>1, <1>5, <3>1
    <3>4. z = SiftStep(d, first, last, parents, f, n + 1)
      BY <2>3, <3>1
    <3>5. z = sift_down(f[(n + 1) - 1], first, last, first + parents - (n + 1))
      BY <3>1, <3>4 DEF SiftStep
    <3>6. z = sift_down(y, first, last, first + i)
      BY <3>1, <3>3, <3>5
    <3> HIDE DEF i, z, y
    <3>7. y \in [D -> Elem] /\ OrderedFrom(y, first, len, i + 1)
      BY <3>2, <3>3 DEF Kept
    <3>8. Kept(y, D, R, z) /\ OrderedFrom(z, first, len, i)
      <4>1. last - first = len
        BY DEF len
      <4>2. /\ i \in 0 .. last - first - 1 /\ Cells(D, R, first, last - first)
            /\ OrderedFrom(y, first, last - first, i + 1)
        BY <1>2, <3>3, <3>7, <4>1
      <4>3. Kept(y, D, R, z) /\ OrderedFrom(z, first, last - first, i)
        BY <3>6, <3>7, <4>2, DownSound
      <4>4. QED
        BY <4>1, <4>3
    <3>9. Kept(d, D, R, z)
      BY <3>2, <3>8, KeptOnAndOn
    <3>10. QED
      BY <3>8, <3>9 DEF i, z
  <2> HIDE DEF S
  <2>6. Nat \subseteq S
    BY <2>4, <2>5, SetInduction
  <2>7. P(parents)
    <3> HIDE DEF parents, P
    <3>1. parents \in S
      BY <1>1, <2>6
    <3>2. QED
      BY <1>1, <3>1 DEF S
  <2>8. parents - parents = 0
    BY <1>1
  <2>9. QED
    BY <2>2, <2>7, <2>8 DEF x
<1>6. QED
  BY <1>4, <1>5

(* A range is a heap when every element is, from the first on. *)
LEMMA OrderedIsFromTheTop ==
  ASSUME NEW x, NEW first, NEW n \in Nat
  PROVE  Ordered(x, first, n) <=> OrderedFrom(x, first, n, 0)
<1>1. \A k \in 1 .. n - 1 : Parent(k) >= 0
  BY ParentIsBefore
<1>2. QED
  BY <1>1 DEF Ordered, OrderedFrom

(* No element of a heap exceeds the first. *)
LEMMA RootIsGreatest ==
  ASSUME NEW x, NEW first, NEW n \in Nat, Ordered(x, first, n),
         \A k \in 0 .. n - 1 : x[first + k] \in Elem
  PROVE  \A k \in 0 .. n - 1 : ~Less(x[first + 0], x[first + k])
<1> DEFINE P(k) == ~Less(x[first + 0], x[first + k])
           S == {m \in Nat : \A k \in 0 .. n - 1 : k < m => P(k)}
<1>1. 0 \in S
  OBVIOUS
<1>2. ASSUME NEW m \in Nat, m \in S
      PROVE  m + 1 \in S
  <2>1. ASSUME NEW k \in 0 .. n - 1, k < m + 1
        PROVE  P(k)
    <3>1. CASE k = 0
      BY <3>1, KeysCompare
    <3>2. CASE k # 0
      <4>1. k \in 1 .. n - 1 /\ Parent(k) \in 0 .. n - 1 /\ Parent(k) < m
        BY <2>1, <3>2, ParentIsBefore
      <4>2. P(Parent(k))
        <5> HIDE DEF P
        <5>1. QED
          BY <1>2, <4>1
      <4> DEFINE a == x[first + 0]
                 b == x[first + Parent(k)]
                 c == x[first + k]
      <4>3. ~Less(a, b) /\ ~Less(b, c)
        BY <4>1, <4>2 DEF Ordered
      <4>4. a \in Elem /\ b \in Elem /\ c \in Elem
        BY <4>1
      <4> HIDE DEF a, b, c
      <4>5. ~Less(a, c)
        BY <4>3, <4>4, KeysCompare
      <4>6. QED
        BY <4>5 DEF a, c
    <3>3. QED
      BY <3>1, <3>2
  <2> HIDE DEF P
  <2>2. QED
    BY <2>1
<1> HIDE DEF S
<1>3. Nat \subseteq S
  BY <1>1, <1>2, SetInduction
<1>4. n \in S
  BY <1>3
<1>5. \A k \in 0 .. n - 1 : k < n
  OBVIOUS
<1>6. QED
  BY <1>4, <1>5 DEF S

(* w is d with the cells a and b exchanged. *)
Swapped(d, R, a, b, w) ==
  /\ a # b /\ w[a] = d[b] /\ w[b] = d[a]
  /\ \A c \in R : c # a /\ c # b => w[c] = d[c]

(* Two cells that change places change no count. *)
LEMMA SwapCounts ==
  ASSUME NEW R, IsFiniteSet(R), NEW a \in R, NEW b \in R, NEW d, NEW w,
         Swapped(d, R, a, b, w), NEW e
  PROVE  Count(w, R, e) = Count(d, R, e)
<1> DEFINE u == [c \in R |-> IF c = a THEN d[b] ELSE d[c]]
           y == d[b]
           z == d[a]
<1>1. u[a] = y /\ u[b] = y /\ \A c \in R : c # a => u[c] = d[c]
  BY DEF Swapped
<1>2. w[b] = z /\ \A c \in R : c # b => w[c] = u[c]
  BY DEF Swapped
<1> HIDE DEF u, y, z
<1>3. /\ Count(d, R, e) \in Nat /\ Count(u, R, e) \in Nat
      /\ Count(u, R, e) = Count(d, R, e) - One(d[a] = e) + One(y = e)
  BY <1>1, CountExcept
<1>4. /\ Count(w, R, e) \in Nat
      /\ Count(w, R, e) = Count(u, R, e) - One(u[b] = e) + One(z = e)
  BY <1>2, CountExcept
<1> DEFINE cd == Count(d, R, e)
           cu == Count(u, R, e)
           cw == Count(w, R, e)
           oz == One(z = e)
           oy == One(y = e)
<1>5. cd \in Nat /\ cu \in Nat /\ cu = cd - oz + oy
  BY <1>3 DEF z
<1>6. cw \in Nat /\ cw = cu - oy + oz
  BY <1>1, <1>4
<1>7. oz \in Nat /\ oy \in Nat
  BY DEF One
<1> HIDE DEF cd, cu, cw, oz, oy
<1>8. cw = cd
  BY <1>5, <1>6, <1>7
<1>9. QED
  BY <1>8 DEF cw, cd

(* Nothing behind the heap changes. *)
Behind(d, D, top, x) == \A c \in D : c >= top => x[c] = d[c]

(* The first element sinks. *)
LEMMA DownFromTheTop ==
  ASSUME NEW D, NEW R, NEW first \in Nat, NEW top \in Nat, first < top,
         Cells(D, R, first, top - first), NEW d \in [D -> Elem],
         OrderedFrom(d, first, top - first, 1),
         NEW x, x = sift_down(d, first, top, first)
  PROVE  /\ Kept(d, D, R, x)
         /\ Behind(d, D, top, x)
         /\ OrderedFrom(x, first, top - first, 0)
<1> DEFINE i == 0
<1>1. i \in 0 .. top - first - 1 /\ i + 1 = 1 /\ first + i = first
  OBVIOUS
<1>2. OrderedFrom(d, first, top - first, i + 1) /\ x = sift_down(d, first, top, first + i)
  BY <1>1
<1> HIDE DEF i
<1>3. /\ Kept(d, D, R, x)
      /\ \A c \in D : c >= top => x[c] = d[c]
      /\ OrderedFrom(x, first, top - first, i)
  BY <1>1, <1>2, DownSound
<1>4. QED
  BY <1>3 DEF i, Behind

(* The first and the last element of a heap change places and the first sinks. *)
LEMMA SwapSound ==
  ASSUME NEW D, NEW R, NEW first \in Nat, NEW top \in Nat, first < top,
         IsFiniteSet(R), first \in R, top \in R, first \in D, top \in D,
         Cells(D, R, first, top - first), NEW d, d \in [D -> Elem],
         Ordered(d, first, top - first),
         NEW w, w \in [D -> Elem], Swapped(d, D, first, top, w),
         NEW x, x = sift_down(w, first, top, first)
  PROVE  /\ Kept(d, D, R, x)
         /\ Ordered(x, first, top - first)
         /\ x[top] = d[first]
<1> DEFINE m == top - first
<1>1. m \in Nat /\ m >= 1
  OBVIOUS
<1>2. /\ w \in [D -> Elem] /\ w[top] = d[first] /\ w[first] = d[top]
      /\ \A c \in D : c # first /\ c # top => w[c] = d[c]
  BY DEF Swapped
<1>3. D \subseteq Nat /\ R \subseteq D /\ first # top
  BY DEF Cells
<1>4. Kept(d, D, R, w)
  <2>1. Swapped(d, R, first, top, w)
    BY <1>2, <1>3 DEF Swapped
  <2>2. \A e : Count(w, R, e) = Count(d, R, e)
    BY <2>1, SwapCounts
  <2>3. \A c \in D \ R : w[c] = d[c]
    BY <1>2
  <2>4. QED
    BY <1>2, <2>2, <2>3 DEF Kept
<1>5. OrderedFrom(w, first, m, 1)
  <2>1. ASSUME NEW k \in 1 .. m - 1, Parent(k) >= 1
        PROVE  ~Less(w[first + Parent(k)], w[first + k])
    <3>1. k \in 0 .. m - 1 /\ Parent(k) \in 0 .. m - 1 /\ Parent(k) < k
      BY <1>1, ParentIsBefore
    <3>2. /\ first + k # first /\ first + k # top
          /\ first + Parent(k) # first /\ first + Parent(k) # top
      BY <1>1, <2>1, <3>1
    <3>3. ~Less(d[first + Parent(k)], d[first + k])
      BY DEF Ordered
    <3>4. first + k \in D /\ first + Parent(k) \in D
      BY <1>3, <3>1 DEF Cells
    <3> HIDE DEF m
    <3>5. w[first + k] = d[first + k] /\ w[first + Parent(k)] = d[first + Parent(k)]
      BY <1>2, <3>2, <3>4
    <3>6. QED
      BY <3>3, <3>5
  <2>2. QED
    BY <2>1 DEF OrderedFrom
<1>6. /\ Kept(w, D, R, x)
      /\ Behind(w, D, top, x)
      /\ OrderedFrom(x, first, m, 0)
  BY <1>2, <1>5, DownFromTheTop
<1>7. Kept(d, D, R, x)
  BY <1>4, <1>6, KeptOnAndOn
<1>8. Ordered(x, first, m)
  BY <1>1, <1>6, OrderedIsFromTheTop
<1>9. x[top] = d[first]
  BY <1>2, <1>6 DEF Behind
<1>10. QED
  BY <1>7, <1>8, <1>9

(* The first element of the range is now its last. *)
LeftBehind(d, first, last, x) == x[last - 1] = d[first]

(* a is the greatest of what d holds in the cells R. *)
NoneExceeds(d, R, a) == \A c \in R : ~Less(a, d[c])

(* Heap_Pop leaves the first element, the greatest, behind the heap. *)
LEMMA PopSound ==
  ASSUME NEW D, D \subseteq Nat, NEW first \in Nat, NEW last \in Nat, first < last,
         NEW R, R = first .. last - 1, R \subseteq D, NEW d, d \in [D -> Elem],
         Ordered(d, first, last - first),
         NEW x, x = Heap_Pop(d, first, last)
  PROVE  /\ Kept(d, D, R, x)
         /\ Ordered(x, first, last - first - 1)
         /\ LeftBehind(d, first, last, x)
         /\ NoneExceeds(d, R, d[first])
<1> DEFINE len == last - first
           top == last - 1
           m == top - first
<1>1. len \in Nat /\ top \in Nat /\ m \in Nat /\ m = len - 1 /\ first <= top /\ last - first - 1 = m
  OBVIOUS
<1>2. /\ first \in R /\ top \in R /\ first \in D /\ top \in D /\ IsFiniteSet(R)
      /\ \A k \in 0 .. len - 1 : first + k \in R /\ first + k \in D /\ d[first + k] \in Elem
      /\ \A c \in R : c - first \in 0 .. len - 1 /\ first + (c - first) = c
  <2>1. IsFiniteSet(R)
    BY FS_Interval
  <2>2. first \in R /\ top \in R
    OBVIOUS
  <2>3. \A k \in 0 .. len - 1 : first + k \in R
    OBVIOUS
  <2>4. \A c \in R : c - first \in 0 .. len - 1 /\ first + (c - first) = c
    OBVIOUS
  <2>5. QED
    BY <2>1, <2>2, <2>3, <2>4
<1>3. NoneExceeds(d, R, d[first])
  <2>1. \A k \in 0 .. len - 1 : ~Less(d[first + 0], d[first + k])
    BY <1>1, <1>2, RootIsGreatest
  <2>2. first + 0 = first
    OBVIOUS
  <2>3. QED
    BY <1>2, <2>1, <2>2 DEF NoneExceeds
<1>4. CASE ~(len > 1)
  <2>1. x = d
    BY <1>4 DEF Heap_Pop
  <2>2. Kept(d, D, R, d)
    BY DEF Kept
  <2>3. top = first /\ 1 .. m - 1 = {}
    BY <1>1, <1>4
  <2>4. Ordered(d, first, m)
    BY <2>3 DEF Ordered
  <2> HIDE DEF top, m, len
  <2>5. Kept(d, D, R, x) /\ Ordered(x, first, m) /\ x[top] = d[first]
    BY <2>1, <2>2, <2>3, <2>4
  <2>6. QED
    BY <1>3, <2>5 DEF top, m, LeftBehind
<1>5. CASE len > 1
  <2> DEFINE w == [d EXCEPT ![first] = d[top], ![top] = d[first]]
  <2>1. x = sift_down(w, first, top, first)
    BY <1>5 DEF Heap_Pop
  <2>2. first < top /\ top - first = m
    BY <1>5
  <2>3. Cells(D, R, first, m)
    <3>1. \A k \in 0 .. m - 1 : k \in 0 .. len - 1
      BY <1>1
    <3> HIDE DEF top, m, len
    <3>2. QED
      BY <1>2, <3>1 DEF Cells
  <2>4. Ordered(d, first, m)
    BY <1>1 DEF Ordered
  <2>5. Kept(d, D, R, x) /\ Ordered(x, first, m) /\ x[top] = d[first]
    <3>1. top \in Nat /\ first < top
      BY <1>1, <2>2
    <3> HIDE DEF top, m, len, w
    <3>2. w \in [D -> Elem] /\ Swapped(d, D, first, top, w)
      BY <1>2, <3>1 DEF w, Swapped
    <3>3. Cells(D, R, first, top - first) /\ Ordered(d, first, top - first)
      BY <2>2, <2>3, <2>4
    <3>4. /\ Kept(d, D, R, x)
          /\ Ordered(x, first, top - first)
          /\ x[top] = d[first]
      <4>1. IsFiniteSet(R) /\ first \in R /\ top \in R /\ first \in D /\ top \in D
        BY <1>2
      <4>2. d \in [D -> Elem] /\ first \in Nat
        OBVIOUS
      <4>3. QED
        BY ONLY <2>1, <3>1, <3>2, <3>3, <4>1, <4>2, SwapSound
    <3>5. QED
      BY <2>2, <3>4
  <2>6. QED
    BY <1>3, <2>5 DEF top, m, LeftBehind
<1>6. QED
  BY <1>4, <1>5

----------------------------------------------------------------------------
(* The vector. *)

(* A vector: its cells hold elements, and its end lies within them. *)
Vector(w) ==
  /\ w = [data |-> w.data, cap |-> w.cap, top |-> w.top]
  /\ w.cap \in Nat /\ w.top \in 0 .. w.cap
  /\ w.data \in [0 .. w.cap - 1 -> Elem]

(* r holds what w holds up to n, and 0 in what had to be allocated. *)
Extends(w, r, n) ==
  \A i \in 0 .. n - 1 : r.data[i] = IF i < w.cap THEN w.data[i] ELSE 0

(* Vector_Resize keeps the elements. *)
LEMMA ResizeSound ==
  ASSUME NEW w, Vector(w), NEW newcap \in Nat, newcap >= w.top,
         NEW r, r = Vector_Resize(w, newcap)
  PROVE  Vector(r) /\ r.cap = newcap /\ r.top = w.top /\ Extends(w, r, newcap)
<1> DEFINE x == [i \in 0 .. newcap - 1 |-> IF i < w.cap THEN w.data[i] ELSE 0]
<1>1. r = [w EXCEPT !.cap = newcap, !.data = x]
  BY DEF Vector_Resize
<1>2. x \in [0 .. newcap - 1 -> Elem]
  <2>1. \A i \in 0 .. newcap - 1 : i < w.cap => w.data[i] \in Elem
    BY DEF Vector
  <2>2. 0 \in Elem
    BY ElemAssumption
  <2>3. QED
    BY <2>1, <2>2
<1>3. \A i \in 0 .. newcap - 1 : x[i] = IF i < w.cap THEN w.data[i] ELSE 0
  OBVIOUS
<1> HIDE DEF x
<1>4. r = [data |-> x, cap |-> newcap, top |-> w.top]
  BY <1>1 DEF Vector
<1>5. r.data = x /\ r.cap = newcap /\ r.top = w.top
  BY <1>4
<1>6. Vector(r)
  <2>1. w.top \in 0 .. newcap
    BY DEF Vector
  <2>2. QED
    BY <1>2, <1>4, <1>5, <2>1 DEF Vector
<1>7. QED
  BY <1>3, <1>5, <1>6 DEF Extends

(* A vector made with newVectorSize is empty. *)
LEMMA NewVectorSound ==
  ASSUME NEW cap \in Nat
  PROVE  Vector(newVectorSize(cap)) /\ newVectorSize(cap).top = 0
<1> DEFINE x == [i \in 0 .. cap - 1 |-> 0]
           w == newVectorSize(cap)
<1>1. w = [data |-> x, cap |-> cap, top |-> 0]
  BY DEF newVectorSize
<1>2. x \in [0 .. cap - 1 -> Elem]
  BY ElemAssumption
<1> HIDE DEF x, w
<1>3. w.data = x /\ w.cap = cap /\ w.top = 0
  BY <1>1
<1>4. Vector(w)
  BY <1>1, <1>2, <1>3 DEF Vector
<1>5. QED
  BY <1>3, <1>4 DEF w

(* r is the vector w with e put at pos and the end no longer before it. *)
Placed(w, pos, e, r) ==
  /\ Vector(r) /\ r.data[pos] = e
  /\ r.top = IF pos >= w.top THEN pos + 1 ELSE w.top
  /\ \A i \in 0 .. r.top - 1 : i # pos => r.data[i] = IF i < w.cap THEN w.data[i] ELSE 0

(* vector_PutPtr puts e at pos and moves the end behind it. *)
LEMMA PutSound ==
  ASSUME NEW w, Vector(w), NEW pos \in Nat, NEW e \in Elem,
         NEW r, r = vector_PutPtr(w, pos, e)
  PROVE  Placed(w, pos, e, r)
<1> DEFINE n == IF pos >= w.cap THEN pos + 1 ELSE w.cap
           roomy == IF pos >= w.cap THEN Vector_Resize(w, pos + 1) ELSE w
           t == IF pos >= w.top THEN pos + 1 ELSE w.top
           x == [roomy.data EXCEPT ![pos] = e]
<1>1. n \in Nat /\ pos < n /\ w.cap \in Nat /\ w.top \in Nat /\ w.top <= n /\ t \in 0 .. n
  BY DEF Vector
<1>2. Vector(roomy) /\ roomy.cap = n /\ roomy.top = w.top /\ Extends(w, roomy, n)
  <2>1. CASE pos >= w.cap
    <3>1. pos + 1 \in Nat /\ pos + 1 >= w.top
      BY <1>1, <2>1 DEF Vector
    <3>2. roomy = Vector_Resize(w, pos + 1) /\ n = pos + 1
      BY <2>1
    <3> HIDE DEF roomy, n
    <3>3. QED
      BY <3>1, <3>2, ResizeSound
  <2>2. CASE ~(pos >= w.cap)
    <3>1. roomy = w /\ n = w.cap
      BY <2>2
    <3> HIDE DEF roomy, n
    <3>2. QED
      BY <3>1 DEF Extends, Vector
  <2>3. QED
    BY <2>1, <2>2
<1>3. r = [roomy EXCEPT !.data[pos] = e, !.top = IF pos >= @ THEN pos + 1 ELSE @]
  BY DEF vector_PutPtr
<1> HIDE DEF roomy, n
<1>4. r = [data |-> x, cap |-> n, top |-> t]
  <2>1. roomy = [data |-> roomy.data, cap |-> n, top |-> w.top]
    BY <1>2 DEF Vector
  <2>2. roomy.top = w.top
    BY <1>2
  <2>3. r = [roomy EXCEPT !.data = x, !.top = IF pos >= roomy.top THEN pos + 1 ELSE roomy.top]
    BY <1>3, Zenon
  <2>4. (IF pos >= roomy.top THEN pos + 1 ELSE roomy.top) = t
    BY <2>2
  <2> HIDE DEF x, t
  <2>5. r = [roomy EXCEPT !.data = x, !.top = t]
    BY <2>3, <2>4, Zenon
  <2> DEFINE y == roomy.data
             m == w.top
  <2>6. roomy = [data |-> y, cap |-> n, top |-> m]
    BY <2>1
  <2> HIDE DEF y, m
  <2>7. QED
    BY ONLY <2>5, <2>6
<1>5. x \in [0 .. n - 1 -> Elem] /\ x[pos] = e /\ \A i \in 0 .. n - 1 : i # pos => x[i] = roomy.data[i]
  <2>1. roomy.data \in [0 .. n - 1 -> Elem] /\ pos \in 0 .. n - 1
    BY <1>1, <1>2 DEF Vector
  <2> DEFINE y == roomy.data
  <2> HIDE DEF y
  <2>2. QED
    BY <2>1 DEF y
<1> HIDE DEF x, t
<1>6. r.data = x /\ r.cap = n /\ r.top = t
  BY <1>4
<1>7. Vector(r)
  BY <1>1, <1>4, <1>5, <1>6 DEF Vector
<1>8. \A i \in 0 .. t - 1 : i \in 0 .. n - 1
  BY <1>1
<1>9. \A i \in 0 .. t - 1 : i # pos => x[i] = IF i < w.cap THEN w.data[i] ELSE 0
  BY <1>2, <1>5, <1>8 DEF Extends
<1>10. QED
  BY <1>5, <1>6, <1>7, <1>9 DEF t, Placed

(* vector_PushPtr puts e behind the last element. *)
LEMMA AppendSound ==
  ASSUME NEW w, Vector(w), NEW e \in Elem, NEW r, r = vector_PushPtr(w, e)
  PROVE  /\ Vector(r) /\ r.top = w.top + 1 /\ r.data[w.top] = e
         /\ \A i \in 0 .. w.top - 1 : r.data[i] = w.data[i]
<1> DEFINE n == IF w.cap = 0 THEN 1 ELSE 2 * w.cap
           roomy == IF w.top = w.cap THEN Vector_Resize(w, n) ELSE w
<1>1. w.top \in Nat /\ w.cap \in Nat /\ w.top <= w.cap
  BY DEF Vector
<1>2. /\ Vector(roomy) /\ roomy.top = w.top
      /\ \A i \in 0 .. w.top - 1 : i < roomy.cap /\ roomy.data[i] = w.data[i]
  <2>1. CASE w.top = w.cap
    <3>1. n \in Nat /\ n >= w.top /\ roomy = Vector_Resize(w, n)
      BY <1>1, <2>1
    <3> HIDE DEF roomy, n
    <3>2. Vector(roomy) /\ roomy.cap = n /\ roomy.top = w.top /\ Extends(w, roomy, n)
      BY <3>1, ResizeSound
    <3>3. \A i \in 0 .. w.top - 1 : i \in 0 .. n - 1 /\ i < w.cap /\ i < n
      BY <1>1, <2>1, <3>1
    <3>4. QED
      BY <3>2, <3>3 DEF Extends
  <2>2. CASE w.top # w.cap
    <3>1. roomy = w
      BY <2>2
    <3> HIDE DEF roomy
    <3>2. QED
      BY <1>1, <3>1
  <2>3. QED
    BY <2>1, <2>2
<1>3. r = vector_PutPtr(roomy, w.top, e)
  BY DEF vector_PushPtr
<1> HIDE DEF roomy
<1> DEFINE pos == w.top
<1>4. pos \in Nat /\ r = vector_PutPtr(roomy, pos, e)
  BY <1>1, <1>3
<1> HIDE DEF pos
<1>5. /\ Vector(r) /\ r.data[pos] = e
      /\ r.top = IF pos >= roomy.top THEN pos + 1 ELSE roomy.top
      /\ \A i \in 0 .. r.top - 1 : i # pos => r.data[i] = IF i < roomy.cap THEN roomy.data[i] ELSE 0
  <2>1. Placed(roomy, pos, e, r)
    BY <1>2, <1>4, PutSound
  <2>2. QED
    BY <2>1 DEF Placed
<1>6. r.top = pos + 1
  BY <1>2, <1>4, <1>5 DEF pos
<1>7. \A i \in 0 .. pos - 1 : i \in 0 .. r.top - 1 /\ i # pos
  BY <1>4, <1>6
<1>8. \A i \in 0 .. pos - 1 : r.data[i] = w.data[i]
  BY <1>2, <1>5, <1>7 DEF pos
<1>9. QED
  BY <1>5, <1>6, <1>8 DEF pos

(* __vector_PopPtr takes the last element off and leaves the cells. *)
LEMMA VectorPopSound ==
  ASSUME NEW w, Vector(w), w.top > 0, NEW r, r = Vector_Pop(w)
  PROVE  Vector(r) /\ r.top = w.top - 1 /\ r.data = w.data
<1>1. w.top \in Nat /\ w.top - 1 \in 0 .. w.cap
  BY DEF Vector
<1> DEFINE t == w.top - 1
<1>2. r = [data |-> w.data, cap |-> w.cap, top |-> t]
  BY DEF Vector_Pop, Vector
<1> HIDE DEF t
<1>3. r.data = w.data /\ r.cap = w.cap /\ r.top = t
  BY <1>2
<1>4. Vector(r)
  BY <1>1, <1>2, <1>3 DEF Vector, t
<1>5. QED
  BY <1>3, <1>4 DEF t

(* The cells of a vector change, and nothing else of it. *)
LEMMA RefilledSound ==
  ASSUME NEW w, Vector(w), NEW x, x \in [0 .. w.cap - 1 -> Elem],
         NEW r, r = [w EXCEPT !.data = x]
  PROVE  Vector(r) /\ r.data = x /\ r.cap = w.cap /\ r.top = w.top
<1>1. r = [data |-> x, cap |-> w.cap, top |-> w.top]
  BY DEF Vector
<1>2. r.data = x /\ r.cap = w.cap /\ r.top = w.top
  BY <1>1
<1>3. QED
  BY <1>1, <1>2 DEF Vector

----------------------------------------------------------------------------
(* The list a vector stands for. *)

(* The vector w stands for the list l, whatever was left behind in a gap. *)
Shown == Elem \cup {Stale}

Stands(w, l) ==
  /\ l \in Seq(Shown) /\ Len(l) = w.top
  /\ \A i \in 1 .. Len(l) : l[i] \in {Stale, w.data[i - 1]}

(* A vector stands for the elements it shows. *)
LEMMA ElementsStand ==
  ASSUME NEW w, Vector(w)
  PROVE  Stands(w, Elements(w))
<1>1. w.top \in Nat /\ w.top <= w.cap /\ w.cap \in Nat /\ w.data \in [0 .. w.cap - 1 -> Elem]
  BY DEF Vector
<1> DEFINE n == w.top
           l == Elements(w)
<1>2. \A i \in 1 .. n : i - 1 \in 0 .. w.cap - 1
  BY <1>1
<1>3. \A i \in 1 .. n : w.data[i - 1] \in Shown
  BY <1>1, <1>2 DEF Shown
<1>4. l = [i \in 1 .. n |-> w.data[i - 1]]
  BY DEF Elements
<1>5. n \in Nat /\ n = w.top
  BY <1>1
<1> HIDE DEF l, n
<1>6. l \in Seq(Shown) /\ Len(l) = n /\ \A i \in 1 .. n : l[i] = w.data[i - 1]
  BY <1>3, <1>4, <1>5
<1>7. QED
  BY <1>5, <1>6 DEF Stands, l

(* An element is put behind the last one. *)
LEMMA AppendStands ==
  ASSUME NEW w, Vector(w), NEW l, Stands(w, l), NEW e \in Elem, NEW r, r = vector_PushPtr(w, e)
  PROVE  Stands(r, Append(l, e))
<1> DEFINE n == w.top
           m == Append(l, e)
<1>1. /\ r.top = n + 1 /\ r.data[n] = e
      /\ \A i \in 0 .. n - 1 : r.data[i] = w.data[i]
  BY AppendSound
<1>2. n \in Nat /\ l \in Seq(Shown) /\ Len(l) = n /\ e \in Shown
      /\ \A i \in 1 .. n : l[i] \in {Stale, w.data[i - 1]}
  BY DEF Stands, Vector, Shown
<1> HIDE DEF n
<1>3. m \in Seq(Shown) /\ Len(m) = n + 1 /\ m[n + 1] = e /\ \A i \in 1 .. n : m[i] = l[i]
  BY <1>2
<1> HIDE DEF m
<1>4. ASSUME NEW i \in 1 .. n + 1
      PROVE  m[i] \in {Stale, r.data[i - 1]}
  <2>1. CASE i = n + 1
    <3>1. i - 1 = n
      BY <1>2, <2>1
    <3>2. QED
      BY <1>1, <1>3, <2>1, <3>1
  <2>2. CASE i # n + 1
    <3>1. i \in 1 .. n /\ i - 1 \in 0 .. n - 1
      BY <1>2, <2>2
    <3>2. QED
      BY <1>1, <1>2, <1>3, <3>1
  <2>3. QED
    BY <2>1, <2>2
<1>5. QED
  BY <1>1, <1>3, <1>4 DEF Stands, m

(* The last element is dropped. *)
LEMMA FrontStands ==
  ASSUME NEW w, Vector(w), NEW l, Stands(w, l), w.top > 0, NEW r, r = Vector_Pop(w)
  PROVE  Stands(r, Front(l))
<1> DEFINE n == w.top
           m == Front(l)
<1>1. r.top = n - 1 /\ r.data = w.data
  BY VectorPopSound
<1>2. n \in Nat /\ l \in Seq(Shown) /\ Len(l) = n /\ n > 0
      /\ \A i \in 1 .. n : l[i] \in {Stale, w.data[i - 1]}
  BY DEF Stands, Vector
<1> HIDE DEF n
<1>3. m \in Seq(Shown) /\ Len(m) = n - 1 /\ \A i \in 1 .. n - 1 : m[i] = l[i]
  BY <1>2 DEF Front
<1> HIDE DEF m
<1>4. \A i \in 1 .. n - 1 : i \in 1 .. n
  BY <1>2
<1>5. QED
  BY <1>1, <1>2, <1>3, <1>4 DEF Stands, m

(* The vector is given another capacity. *)
LEMMA ResizeStands ==
  ASSUME NEW w, Vector(w), NEW l, Stands(w, l), NEW newcap \in Nat, newcap >= w.top,
         NEW r, r = Vector_Resize(w, newcap)
  PROVE  Stands(r, l)
<1>1. r.top = w.top /\ Extends(w, r, newcap)
  BY ResizeSound
<1>2. w.top \in Nat /\ w.cap \in Nat /\ w.top <= w.cap /\ Len(l) = w.top
      /\ \A i \in 1 .. w.top : l[i] \in {Stale, w.data[i - 1]}
  BY DEF Stands, Vector
<1>3. \A i \in 1 .. w.top : i - 1 \in 0 .. newcap - 1 /\ i - 1 < w.cap
  BY <1>2
<1>4. \A i \in 1 .. w.top : r.data[i - 1] = w.data[i - 1]
  BY <1>1, <1>3 DEF Extends
<1>5. QED
  BY <1>1, <1>2, <1>4 DEF Stands

(* An element is put within the list. *)
LEMMA WithinStands ==
  ASSUME NEW w, Vector(w), NEW l, Stands(w, l), NEW e \in Elem, NEW pos \in Nat, pos < Len(l),
         NEW r, r = vector_PutPtr(w, pos, e)
  PROVE  Stands(r, [l EXCEPT ![pos + 1] = e])
<1> DEFINE n == w.top
           m == [l EXCEPT ![pos + 1] = e]
<1>1. n \in Nat /\ l \in Seq(Shown) /\ Len(l) = n /\ e \in Shown /\ n <= w.cap /\ w.cap \in Nat /\ pos < n
      /\ \A i \in 1 .. n : l[i] \in {Stale, w.data[i - 1]}
  BY DEF Stands, Vector, Shown
<1>2. /\ r.data[pos] = e
      /\ r.top = IF pos >= n THEN pos + 1 ELSE n
      /\ \A i \in 0 .. r.top - 1 : i # pos => r.data[i] = IF i < w.cap THEN w.data[i] ELSE 0
  <2>1. Placed(w, pos, e, r)
    BY PutSound
  <2>2. QED
    BY ONLY <2>1 DEF Placed, n
<1> HIDE DEF n
<1>3. r.top = n
  BY <1>1, <1>2
<1>4. m \in Seq(Shown) /\ Len(m) = n /\ m[pos + 1] = e /\ \A i \in 1 .. n : i # pos + 1 => m[i] = l[i]
  BY <1>1
<1> HIDE DEF m
<1>5. ASSUME NEW i \in 1 .. n
      PROVE  m[i] \in {Stale, r.data[i - 1]}
  <2>1. CASE i = pos + 1
    <3>1. i - 1 = pos
      BY <2>1
    <3>2. QED
      BY <1>2, <1>4, <2>1, <3>1
  <2>2. CASE i # pos + 1
    <3>1. i - 1 \in 0 .. n - 1 /\ i - 1 # pos /\ i - 1 < w.cap
      BY <1>1, <2>2
    <3>2. r.data[i - 1] = w.data[i - 1]
      BY <1>2, <1>3, <3>1
    <3>3. QED
      BY <1>1, <1>4, <2>2, <3>2
  <2>3. QED
    BY <2>1, <2>2
<1>6. QED
  BY <1>3, <1>4, <1>5 DEF Stands, m

(* An element is put behind a gap, which is zero where it was allocated. *)
LEMMA BeyondStands ==
  ASSUME NEW w, Vector(w), NEW l, Stands(w, l), NEW e \in Elem, NEW pos \in Nat, ~(pos < Len(l)),
         NEW r, r = vector_PutPtr(w, pos, e)
  PROVE  Stands(r, l \o [i \in 1 .. pos - Len(l) |-> IF Len(l) + i > w.cap THEN 0 ELSE Stale] \o <<e>>)
<1> DEFINE n == Len(l)
           gap == [i \in 1 .. pos - n |-> IF n + i > w.cap THEN 0 ELSE Stale]
           k == l \o gap
           m == k \o <<e>>
<1>1. n \in Nat /\ l \in Seq(Shown) /\ n = w.top /\ n <= w.cap /\ w.cap \in Nat /\ n <= pos
      /\ \A i \in 1 .. n : l[i] \in {Stale, w.data[i - 1]}
  BY DEF Stands, Vector
<1>2. /\ r.data[pos] = e
      /\ r.top = IF pos >= w.top THEN pos + 1 ELSE w.top
      /\ \A i \in 0 .. r.top - 1 : i # pos => r.data[i] = IF i < w.cap THEN w.data[i] ELSE 0
  <2>1. Placed(w, pos, e, r)
    BY PutSound
  <2>2. QED
    BY ONLY <2>1 DEF Placed
<1>3. e \in Shown /\ 0 \in Shown /\ Stale \in Shown
  BY ElemAssumption DEF Shown
<1>4. r.top = pos + 1
  BY <1>1, <1>2
<1>5. m = l \o [i \in 1 .. pos - Len(l) |-> IF Len(l) + i > w.cap THEN 0 ELSE Stale] \o <<e>>
  OBVIOUS
<1>6. gap \in Seq(Shown) /\ Len(gap) = pos - n /\ DOMAIN gap = 1 .. pos - n
      /\ \A i \in 1 .. pos - n : gap[i] = IF n + i > w.cap THEN 0 ELSE Stale
  <2> HIDE DEF n
  <2>1. pos - n \in Nat
    BY <1>1
  <2>2. QED
    BY <1>3, <2>1
<1> HIDE DEF gap
<1>7. /\ k \in Seq(Shown) /\ Len(k) = pos
      /\ \A i \in 1 .. n : k[i] = l[i]
      /\ \A j \in 1 .. pos - n : k[n + j] = gap[j]
  <2>1. /\ k \in Seq(Shown) /\ Len(k) = Len(l) + Len(gap)
        /\ \A i \in 1 .. Len(l) : k[i] = l[i]
        /\ \A j \in 1 .. Len(gap) : k[Len(l) + j] = gap[j]
    <3> DEFINE X == Shown
    <3>1. l \in Seq(X) /\ gap \in Seq(X) /\ k = l \o gap
      BY <1>1, <1>6
    <3> HIDE DEF n, k, X
    <3>2. /\ k \in Seq(X) /\ Len(k) = Len(l) + Len(gap)
          /\ \A i \in 1 .. Len(l) : k[i] = l[i]
          /\ \A j \in 1 .. Len(gap) : k[Len(l) + j] = gap[j]
      BY <3>1, ConcatPositions
    <3>3. QED
      BY <3>2 DEF X
  <2> HIDE DEF k
  <2>2. Len(k) = n + Len(gap)
    BY <2>1
  <2>3. n + (pos - n) = pos
    BY <1>1
  <2>4. QED
    BY <1>6, <2>1, <2>2, <2>3
<1> DEFINE s == <<e>>
<1>8. s \in Seq(Shown) /\ Len(s) = 1 /\ s[1] = e
  BY <1>3
<1>9. m \in Seq(Shown) /\ Len(m) = pos + 1 /\ m[pos + 1] = e /\ \A i \in 1 .. pos : m[i] = k[i]
  <2>1. m = k \o s
    OBVIOUS
  <2> HIDE DEF k, s, m, n
  <2>2. /\ m \in Seq(Shown) /\ Len(m) = Len(k) + Len(s)
        /\ \A i \in 1 .. Len(k) : m[i] = k[i]
        /\ \A j \in 1 .. Len(s) : m[Len(k) + j] = s[j]
    <3> DEFINE X == Shown
    <3>1. k \in Seq(X) /\ s \in Seq(X)
      BY <1>7, <1>8
    <3> HIDE DEF X
    <3>2. /\ m \in Seq(X) /\ Len(m) = Len(k) + Len(s)
          /\ \A i \in 1 .. Len(k) : m[i] = k[i]
          /\ \A j \in 1 .. Len(s) : m[Len(k) + j] = s[j]
      BY <2>1, <3>1, ConcatPositions
    <3>3. QED
      BY <3>2 DEF X
  <2>3. 1 \in 1 .. Len(s)
    BY <1>8
  <2>4. QED
    BY <1>7, <1>8, <2>2, <2>3
<1> HIDE DEF k, s, m, n
<1>10. ASSUME NEW i \in 1 .. pos + 1
       PROVE  m[i] \in {Stale, r.data[i - 1]}
  <2>1. CASE i = pos + 1
    <3>1. i - 1 = pos
      BY <2>1
    <3>2. QED
      BY <1>2, <1>9, <2>1, <3>1
  <2>2. CASE i # pos + 1
    <3>1. i \in 1 .. pos /\ i - 1 \in 0 .. r.top - 1 /\ i - 1 # pos
      BY <1>4, <2>2
    <3>2. m[i] = k[i] /\ r.data[i - 1] = IF i - 1 < w.cap THEN w.data[i - 1] ELSE 0
      BY <1>2, <1>9, <3>1
    <3>3. CASE i <= n
      <4>1. i \in 1 .. n /\ i - 1 < w.cap
        BY <1>1, <3>3
      <4>2. QED
        BY <1>1, <1>7, <3>2, <4>1
    <3>4. CASE ~(i <= n)
      <4> DEFINE j == i - n
      <4>1. j \in 1 .. pos - n /\ n + j = i
        BY <1>1, <3>1, <3>4
      <4> HIDE DEF j
      <4>2. k[i] = IF i > w.cap THEN 0 ELSE Stale
        BY <1>6, <1>7, <4>1
      <4>3. i > w.cap => ~(i - 1 < w.cap)
        BY <1>1
      <4>4. QED
        BY <3>2, <4>2, <4>3
    <3>5. QED
      BY <3>3, <3>4
  <2>3. QED
    BY <2>1, <2>2
<1>11. Stands(r, m)
  BY <1>4, <1>9, <1>10 DEF Stands
<1>12. QED
  BY <1>5, <1>11

----------------------------------------------------------------------------
(* The invariant. *)

(* The range of a heap lies among the elements. *)
Within(range, top) ==
  /\ range = [first |-> range.first, last |-> range.last]
  /\ range.first \in Nat /\ range.last \in Nat
  /\ range.first <= range.last /\ range.last <= top

(* The vector stands for its list, the heap is in order, and it is all of a *)
(* queue.                                                                   *)
ConInv ==
  /\ Vector(v) /\ Stands(v, list)
  /\ Within(heap, v.top) /\ Ordered(v.data, heap.first, heap.last - heap.first)
  /\ queue \in BOOLEAN /\ (queue => heap.first = 0 /\ heap.last = v.top)

(* No range is a heap of none. *)
LEMMA EmptyRange ==
  ASSUME NEW x, NEW top \in Nat
  PROVE  /\ Within(NoHeap, top) /\ NoHeap.first = 0 /\ NoHeap.last = 0
         /\ Ordered(x, NoHeap.first, NoHeap.last - NoHeap.first)
<1>1. NoHeap.first = 0 /\ NoHeap.last = 0 /\ NoHeap = [first |-> 0, last |-> 0]
  BY DEF NoHeap
<1>2. 1 .. 0 - 1 = {}
  OBVIOUS
<1>3. Ordered(x, 0, 0)
  BY <1>2 DEF Ordered
<1>4. Within(NoHeap, top)
  BY <1>1 DEF Within
<1>5. QED
  BY <1>1, <1>3, <1>4

(* A new vector is empty, and so is a new queue. *)
LEMMA ConInitInv == ConInit => ConInv
<1> SUFFICES ASSUME ConInit
             PROVE  ConInv
  OBVIOUS
<1>1. PICK cap \in 0 .. 2 : v = newVectorSize(cap)
  BY DEF ConInit
<1>2. cap \in Nat /\ list = <<>> /\ heap = NoHeap /\ queue \in BOOLEAN
  BY DEF ConInit
<1>3. Vector(v) /\ v.top = 0
  BY <1>1, <1>2, NewVectorSound
<1>4. Stands(v, list)
  BY <1>2, <1>3 DEF Stands
<1>5. /\ Within(heap, v.top) /\ heap.first = 0 /\ heap.last = 0
      /\ Ordered(v.data, heap.first, heap.last - heap.first)
  <2> DEFINE x == v.data
             t == v.top
  <2>1. t \in Nat
    BY <1>3
  <2> HIDE DEF x, t
  <2>2. /\ Within(heap, t) /\ heap.first = 0 /\ heap.last = 0
        /\ Ordered(x, heap.first, heap.last - heap.first)
    BY <1>2, <2>1, EmptyRange
  <2>3. QED
    BY <2>2 DEF x, t
<1>6. QED
  BY <1>2, <1>3, <1>4, <1>5 DEF ConInv

(* A vector revised is no heap. *)
LEMMA RevisedKeeps ==
  ASSUME ConInv, NEW w, NEW l, Revised(w, l), Vector(w), Stands(w, l)
  PROVE  ConInv'
<1>1. v' = w /\ list' = l /\ heap' = NoHeap /\ queue' = queue /\ ~queue
  BY DEF Revised
<1>2. Vector(v') /\ Stands(v', list')
  BY <1>1
<1>3. v'.top \in Nat
  BY <1>2 DEF Vector
<1>4. Within(heap', v'.top) /\ Ordered(v'.data, heap'.first, heap'.last - heap'.first)
  <2> DEFINE x == v'.data
             t == v'.top
  <2>1. t \in Nat
    BY <1>3
  <2> HIDE DEF x, t
  <2>2. /\ Within(heap', t)
        /\ Ordered(x, heap'.first, heap'.last - heap'.first)
    BY <1>1, <2>1, EmptyRange
  <2>3. QED
    BY <2>2 DEF x, t
<1>5. QED
  BY <1>1, <1>2, <1>4 DEF ConInv

(* A heap operation leaves a heap in the range. *)
LEMMA ReordersKeeps ==
  ASSUME ConInv, NEW d, NEW range, Reorders(d, range), d \in [0 .. v.cap - 1 -> Elem],
         Within(range, v.top), Ordered(d, range.first, range.last - range.first)
  PROVE  ConInv'
<1> DEFINE w == [v EXCEPT !.data = d]
<1>1. v' = w /\ list' = Elements(w) /\ heap' = range /\ queue' = queue /\ ~queue
  BY DEF Reorders
<1>2. Vector(v)
  BY DEF ConInv
<1>3. Vector(w) /\ w.data = d /\ w.top = v.top
  BY <1>2, RefilledSound
<1> HIDE DEF w
<1>4. Vector(v') /\ Stands(v', list')
  BY <1>1, <1>3, ElementsStand
<1>5. v'.data = d /\ v'.top = v.top
  BY <1>1, <1>3
<1>6. QED
  BY <1>1, <1>4, <1>5 DEF ConInv

(* An operation of a queue leaves a vector that is all heap. *)
LEMMA RequeuedKeeps ==
  ASSUME ConInv, NEW w, Requeued(w), Vector(w), Ordered(w.data, 0, w.top)
  PROVE  ConInv'
<1>1. v' = w /\ list' = Elements(w) /\ heap' = [first |-> 0, last |-> w.top] /\ queue' = queue
  BY DEF Requeued
<1>2. Vector(v') /\ Stands(v', list')
  BY <1>1, ElementsStand
<1>3. heap'.first = 0 /\ heap'.last = w.top
  BY <1>1
<1>4. w.top \in Nat /\ w.top - 0 = w.top
  BY DEF Vector
<1>5. Within(heap', w.top)
  BY <1>1, <1>3, <1>4 DEF Within
<1>6. Ordered(w.data, heap'.first, heap'.last - heap'.first)
  BY <1>3, <1>4
<1>7. QED
  BY <1>1, <1>2, <1>3, <1>5, <1>6 DEF ConInv

(* The cells of a range of elements are cells of the vector. *)
LEMMA RangeInCells ==
  ASSUME NEW w, Vector(w), NEW first \in Nat, NEW last \in Nat, last <= w.top
  PROVE  /\ first .. last - 1 \subseteq 0 .. w.cap - 1 /\ 0 .. w.cap - 1 \subseteq Nat
         /\ w.data \in [0 .. w.cap - 1 -> Elem]
BY DEF Vector

(* x is what the heap operations leave of the vector w in the range. *)
Reordered(w, first, last, x) == Kept(w.data, 0 .. w.cap - 1, first .. last - 1, x)

(* Make_Heap on a range of a vector. *)
LEMMA MakeHeapSound ==
  ASSUME NEW w, Vector(w), NEW first \in Nat, NEW last \in Nat, first < last, last <= w.top
  PROVE  /\ Reordered(w, first, last, Make_Heap(w.data, first, last))
         /\ Ordered(Make_Heap(w.data, first, last), first, last - first)
<1> DEFINE D == 0 .. w.cap - 1
           R == first .. last - 1
           d == w.data
<1>1. R \subseteq D /\ D \subseteq Nat /\ d \in [D -> Elem]
  BY RangeInCells
<1>2. R = first .. last - 1
  OBVIOUS
<1>3. last - first \in Nat
  OBVIOUS
<1> HIDE DEF D, R, d
<1>4. /\ Kept(d, D, R, Make_Heap(d, first, last))
      /\ OrderedFrom(Make_Heap(d, first, last), first, last - first, 0)
  BY <1>1, <1>2, MakeSound
<1>5. Ordered(Make_Heap(d, first, last), first, last - first)
  BY <1>3, <1>4, OrderedIsFromTheTop
<1>6. QED
  BY <1>4, <1>5 DEF D, R, d, Reordered

(* Heap_Push on a range of a vector that is a heap but for its last        *)
(* element.                                                                *)
LEMMA HeapPushSound ==
  ASSUME NEW w, Vector(w), NEW first \in Nat, NEW last \in Nat, first < last, last <= w.top,
         Ordered(w.data, first, last - first - 1)
  PROVE  /\ Reordered(w, first, last, Heap_Push(w.data, first, last))
         /\ Ordered(Heap_Push(w.data, first, last), first, last - first)
<1> DEFINE D == 0 .. w.cap - 1
           R == first .. last - 1
           d == w.data
<1>1. R \subseteq D /\ D \subseteq Nat /\ d \in [D -> Elem]
  BY RangeInCells
<1>2. R = first .. last - 1 /\ Ordered(d, first, last - first - 1)
  OBVIOUS
<1> HIDE DEF D, R, d
<1>3. /\ Kept(d, D, R, Heap_Push(d, first, last))
      /\ Ordered(Heap_Push(d, first, last), first, last - first)
  BY <1>1, <1>2, PushSound
<1>4. QED
  BY <1>3 DEF D, R, d, Reordered

(* Heap_Pop on a range of a vector that is a heap. *)
LEMMA HeapPopSound ==
  ASSUME NEW w, Vector(w), NEW first \in Nat, NEW last \in Nat, first < last, last <= w.top,
         Ordered(w.data, first, last - first), NEW x, x = Heap_Pop(w.data, first, last)
  PROVE  /\ Reordered(w, first, last, x)
         /\ Ordered(x, first, last - first - 1)
         /\ LeftBehind(w.data, first, last, x)
         /\ NoneExceeds(w.data, first .. last - 1, w.data[first])
<1> DEFINE D == 0 .. w.cap - 1
           R == first .. last - 1
           d == w.data
<1>1. R \subseteq D /\ D \subseteq Nat /\ d \in [D -> Elem]
  BY RangeInCells
<1>2. R = first .. last - 1 /\ Ordered(d, first, last - first) /\ x = Heap_Pop(d, first, last)
  OBVIOUS
<1> HIDE DEF D, R, d
<1>3. /\ Kept(d, D, R, x)
      /\ Ordered(x, first, last - first - 1)
      /\ LeftBehind(d, first, last, x)
      /\ NoneExceeds(d, R, d[first])
  BY <1>1, <1>2, PopSound
<1>4. QED
  BY <1>3 DEF D, R, d, Reordered

----------------------------------------------------------------------------
(* Every call keeps it. *)

(* Vector_Push. *)
LEMMA PushKeeps ==
  ASSUME ConInv, NEW e \in Elem, Vector_Push(e)
  PROVE  ConInv'
<1>1. Vector(v) /\ Stands(v, list)
  BY DEF ConInv
<1> DEFINE w == vector_PushPtr(v, e)
           l == Append(list, e)
<1>2. Revised(w, l)
  BY DEF Vector_Push
<1>3. Vector(w)
  BY <1>1, AppendSound
<1>4. Stands(w, l)
  BY <1>1, AppendStands
<1> HIDE DEF w, l
<1>5. QED
  BY <1>2, <1>3, <1>4, RevisedKeeps

(* Vector_Pop. *)
LEMMA PopKeeps ==
  ASSUME ConInv, Pop
  PROVE  ConInv'
<1>1. Vector(v) /\ Stands(v, list) /\ v.top > 0
  BY DEF ConInv, Pop
<1> DEFINE w == Vector_Pop(v)
           l == Front(list)
<1>2. Revised(w, l)
  BY DEF Pop
<1>3. Vector(w)
  BY <1>1, VectorPopSound
<1>4. Stands(w, l)
  BY <1>1, FrontStands
<1> HIDE DEF w, l
<1>5. QED
  BY <1>2, <1>3, <1>4, RevisedKeeps

(* Vector_Put, before the end or behind a gap. *)
LEMMA PutKeeps ==
  ASSUME ConInv, NEW e \in Elem, NEW pos \in Nat, Put(pos, e)
  PROVE  ConInv'
<1>1. Vector(v) /\ Stands(v, list)
  BY DEF ConInv
<1> DEFINE w == vector_PutPtr(v, pos, e)
           beyond == list \o [i \in 1 .. pos - Len(list) |->
                                IF Len(list) + i > v.cap THEN 0 ELSE Stale] \o <<e>>
           within == [list EXCEPT ![pos + 1] = e]
           l == IF pos < Len(list) THEN within ELSE beyond
<1>2. Revised(w, l)
  BY DEF Put
<1>3. Vector(w)
  BY <1>1, PutSound DEF Placed
<1>4. Stands(w, l)
  <2>1. CASE pos < Len(list)
    <3>1. Stands(w, within)
      BY <1>1, <2>1, WithinStands
    <3>2. l = within
      BY <2>1
    <3> HIDE DEF w, l, within
    <3>3. QED
      BY <3>1, <3>2
  <2>2. CASE ~(pos < Len(list))
    <3>1. Stands(w, beyond)
      BY <1>1, <2>2, BeyondStands
    <3>2. l = beyond
      BY <2>2
    <3> HIDE DEF w, l, beyond
    <3>3. QED
      BY <3>1, <3>2
  <2>3. QED
    BY <2>1, <2>2
<1> HIDE DEF w, l
<1>5. QED
  BY <1>2, <1>3, <1>4, RevisedKeeps

(* Vector_Resize. *)
LEMMA ResizeKeeps ==
  ASSUME ConInv, NEW cap \in Nat, Resize(cap)
  PROVE  ConInv'
<1>1. Vector(v) /\ Stands(v, list) /\ cap >= v.top
  BY DEF ConInv, Resize
<1> DEFINE w == Vector_Resize(v, cap)
<1>2. Revised(w, list)
  BY DEF Resize
<1>3. Vector(w)
  BY <1>1, ResizeSound
<1>4. Stands(w, list)
  BY <1>1, ResizeStands
<1> HIDE DEF w
<1>5. QED
  BY <1>2, <1>3, <1>4, RevisedKeeps

(* What a heap operation on the range [heap, f, l) must establish. *)
LEMMA MakeHeapStep ==
  ASSUME ConInv, NEW first \in Nat, NEW last \in Nat, first < last, MakeHeap(first, last),
         NEW d, d = Make_Heap(v.data, first, last)
  PROVE  /\ Reordered(v, first, last, d) /\ ConInv'
         /\ v'.data = d /\ v'.cap = v.cap /\ heap' = [first |-> first, last |-> last]
<1> DEFINE range == [first |-> first, last |-> last]
<1>1. Vector(v) /\ last <= v.top /\ Reorders(d, range)
  BY DEF ConInv, MakeHeap
<1>2. Reordered(v, first, last, d) /\ Ordered(d, first, last - first)
  BY <1>1, MakeHeapSound
<1>3. d \in [0 .. v.cap - 1 -> Elem]
  BY <1>2 DEF Reordered, Kept
<1>4. range.first = first /\ range.last = last /\ Within(range, v.top)
  BY <1>1 DEF Within
<1>5. Ordered(d, range.first, range.last - range.first)
  BY <1>2, <1>4
<1>6. v'.data = d /\ v'.cap = v.cap /\ heap' = range
  BY <1>1, <1>3, RefilledSound DEF Reorders
<1> HIDE DEF range
<1>7. ConInv'
  BY <1>1, <1>3, <1>4, <1>5, ReordersKeeps
<1>8. QED
  BY <1>2, <1>6, <1>7 DEF range

(* Heap_Push makes the heap one longer. *)
LEMMA HeapPushStep ==
  ASSUME ConInv, HeapPush, NEW first, first = heap.first, NEW last, last = heap.last,
         NEW d, d = Heap_Push(v.data, first, last + 1)
  PROVE  /\ first \in Nat /\ last \in Nat /\ first <= last /\ last + 1 <= v.top
         /\ Reordered(v, first, last + 1, d) /\ ConInv'
         /\ v'.data = d /\ v'.cap = v.cap /\ heap' = [first |-> first, last |-> last + 1]
<1> DEFINE n == last + 1
           range == [first |-> first, last |-> n]
<1>1. /\ Vector(v) /\ heap.last < v.top
      /\ heap = [first |-> first, last |-> last] /\ first \in Nat /\ last \in Nat /\ first <= last
      /\ Ordered(v.data, first, last - first)
  BY DEF ConInv, HeapPush, Within
<1>2. v.top \in Nat
  BY <1>1 DEF Vector
<1>3. n \in Nat /\ first < n /\ n <= v.top /\ n - first - 1 = last - first
  BY <1>1, <1>2
<1>4. Reorders(d, range)
  <2>1. Reorders(Heap_Push(v.data, heap.first, heap.last + 1), [heap EXCEPT !.last = @ + 1])
    BY DEF HeapPush
  <2>2. [heap EXCEPT !.last = @ + 1] = range
    BY <1>1
  <2> HIDE DEF range
  <2>3. QED
    BY <2>1, <2>2
<1>5. Ordered(v.data, first, n - first - 1) /\ d = Heap_Push(v.data, first, n)
  BY <1>1, <1>3
<1> HIDE DEF n
<1>6. Reordered(v, first, n, d) /\ Ordered(d, first, n - first)
  BY <1>1, <1>3, <1>5, HeapPushSound
<1>7. d \in [0 .. v.cap - 1 -> Elem]
  BY <1>6 DEF Reordered, Kept
<1>8. range.first = first /\ range.last = n /\ Within(range, v.top)
  BY <1>1, <1>3 DEF Within
<1>9. Ordered(d, range.first, range.last - range.first)
  BY <1>6, <1>8
<1>10. v'.data = d /\ v'.cap = v.cap /\ heap' = range
  BY <1>1, <1>4, <1>7, RefilledSound DEF Reorders
<1> HIDE DEF range
<1>11. ConInv'
  BY <1>4, <1>7, <1>8, <1>9, ReordersKeeps
<1>12. QED
  BY <1>1, <1>3, <1>6, <1>10, <1>11 DEF range, n

(* Heap_Pop makes it one shorter and leaves the greatest behind. *)
LEMMA HeapPopStep ==
  ASSUME ConInv, HeapPop, NEW first, first = heap.first, NEW last, last = heap.last,
         NEW d, d = Heap_Pop(v.data, first, last)
  PROVE  /\ first \in Nat /\ last \in Nat /\ first < last /\ last <= v.top
         /\ Reordered(v, first, last, d) /\ ConInv'
         /\ LeftBehind(v.data, first, last, d)
         /\ NoneExceeds(v.data, first .. last - 1, v.data[first])
         /\ v'.data = d /\ v'.cap = v.cap /\ heap' = [first |-> first, last |-> last - 1]
<1> DEFINE n == last - 1
           range == [first |-> first, last |-> n]
<1>1. /\ Vector(v) /\ last > first /\ last <= v.top
      /\ heap = [first |-> first, last |-> last] /\ first \in Nat /\ last \in Nat
      /\ Ordered(v.data, first, last - first)
  BY DEF ConInv, HeapPop, Within
<1>2. v.top \in Nat
  BY <1>1 DEF Vector
<1>3. n \in Nat /\ first <= n /\ n <= v.top /\ last - first - 1 = n - first
  BY <1>1, <1>2
<1>4. Reorders(d, range)
  <2>1. Reorders(Heap_Pop(v.data, heap.first, heap.last), [heap EXCEPT !.last = @ - 1])
    BY DEF HeapPop
  <2>2. [heap EXCEPT !.last = @ - 1] = range
    BY <1>1
  <2> HIDE DEF range
  <2>3. QED
    BY <2>1, <2>2
<1>5. first < last
  BY <1>1
<1> HIDE DEF n
<1>6. /\ Reordered(v, first, last, d) /\ Ordered(d, first, last - first - 1)
      /\ LeftBehind(v.data, first, last, d)
      /\ NoneExceeds(v.data, first .. last - 1, v.data[first])
  BY <1>1, <1>5, HeapPopSound
<1>7. d \in [0 .. v.cap - 1 -> Elem]
  BY <1>6 DEF Reordered, Kept
<1>8. range.first = first /\ range.last = n /\ Within(range, v.top)
  BY <1>1, <1>3 DEF Within
<1>9. Ordered(d, range.first, range.last - range.first)
  BY <1>3, <1>6, <1>8
<1>10. v'.data = d /\ v'.cap = v.cap /\ heap' = range
  BY <1>1, <1>4, <1>7, RefilledSound DEF Reorders
<1> HIDE DEF range
<1>11. ConInv'
  BY <1>4, <1>7, <1>8, <1>9, ReordersKeeps
<1>12. QED
  BY <1>1, <1>5, <1>6, <1>10, <1>11 DEF range, n

(* The order is that of the elements in the range. *)
LEMMA OrderedAlike ==
  ASSUME NEW x, NEW y, NEW n \in Nat, Ordered(x, 0, n), \A k \in 0 .. n - 1 : y[k] = x[k]
  PROVE  Ordered(y, 0, n)
<1>1. ASSUME NEW k \in 1 .. n - 1
      PROVE  ~Less(y[0 + Parent(k)], y[0 + k])
  <2>1. k \in 0 .. n - 1 /\ Parent(k) \in 0 .. n - 1
    BY ParentIsBefore
  <2>2. 0 + Parent(k) = Parent(k) /\ 0 + k = k
    BY <2>1
  <2>3. ~Less(x[Parent(k)], x[k])
    BY <2>2 DEF Ordered
  <2>4. QED
    BY <2>1, <2>2, <2>3
<1>2. QED
  BY <1>1 DEF Ordered

(* Priority_Queue_Push: the element pushed behind the others rises. *)
LEMMA QueuePushStep ==
  ASSUME ConInv, NEW e \in Elem, Priority_Queue_Push(e),
         NEW p, p = vector_PushPtr(v, e), NEW n, n = v.top,
         NEW x, x = Heap_Push(p.data, 0, n + 1)
  PROVE  /\ queue /\ n \in Nat /\ ConInv'
         /\ Vector(p) /\ p.top = n + 1 /\ p.data[n] = e
         /\ \A i \in 0 .. n - 1 : p.data[i] = v.data[i]
         /\ Reordered(p, 0, n + 1, x) /\ v'.data = x /\ v'.top = n + 1
<1> DEFINE w == [p EXCEPT !.data = x]
           m == n + 1
           z == 0
<1>1. /\ Vector(v) /\ queue /\ heap.first = 0 /\ heap.last = n
      /\ Ordered(v.data, heap.first, heap.last - heap.first)
  BY DEF ConInv, Priority_Queue_Push, Requeued
<1>2. /\ Vector(p) /\ p.top = n + 1 /\ p.data[n] = e
      /\ \A i \in 0 .. n - 1 : p.data[i] = v.data[i]
  BY <1>1, AppendSound
<1>3. n \in Nat /\ n - 0 = n /\ z \in Nat /\ m \in Nat /\ z < m /\ m <= p.top /\ m - z - 1 = n /\ m - z = m
  BY <1>1, <1>2 DEF Vector
<1>4. Ordered(p.data, 0, n)
  <2>1. Ordered(v.data, 0, n)
    BY <1>1, <1>3
  <2>2. QED
    BY <1>2, <1>3, <2>1, OrderedAlike
<1>5. Requeued(w)
  <2>1. Requeued([p EXCEPT !.data = Heap_Push(@, 0, p.top)])
    BY DEF Priority_Queue_Push
  <2>2. [p EXCEPT !.data = Heap_Push(@, 0, p.top)] = [p EXCEPT !.data = Heap_Push(p.data, 0, p.top)]
    OBVIOUS
  <2>3. Heap_Push(p.data, 0, p.top) = x
    BY <1>2
  <2>4. QED
    BY <2>1, <2>2, <2>3, Zenon
<1>6. Ordered(p.data, z, m - z - 1) /\ x = Heap_Push(p.data, z, m)
  BY <1>3, <1>4
<1>7. Reordered(p, z, m, x) /\ Ordered(x, z, m - z)
  <2> HIDE DEF z, m
  <2>1. QED
    BY <1>2, <1>3, <1>6, HeapPushSound
<1>8. x \in [0 .. p.cap - 1 -> Elem]
  BY <1>7 DEF Reordered, Kept
<1>9. Vector(w) /\ w.data = x /\ w.top = p.top
  BY <1>2, <1>8, RefilledSound
<1>10. Ordered(w.data, 0, w.top)
  BY <1>2, <1>3, <1>7, <1>9
<1> HIDE DEF w
<1>11. ConInv'
  BY <1>5, <1>9, <1>10, RequeuedKeeps
<1>12. v' = w
  BY <1>5 DEF Requeued
<1>13. QED
  BY <1>1, <1>2, <1>3, <1>7, <1>9, <1>11, <1>12

(* Priority_Queue_Pop: the greatest element goes behind the others and is dropped. *)
LEMMA QueuePopStep ==
  ASSUME ConInv, Priority_Queue_Pop, NEW n, n = v.top, NEW x, x = Heap_Pop(v.data, 0, n)
  PROVE  /\ queue /\ n \in Nat /\ n > 0 /\ Vector(v) /\ ConInv'
         /\ Reordered(v, 0, n, x) /\ LeftBehind(v.data, 0, n, x)
         /\ NoneExceeds(v.data, 0 .. n - 1, v.data[0])
         /\ v'.data = x /\ v'.top = n - 1
<1> DEFINE t == n - 1
           w == [data |-> x, cap |-> v.cap, top |-> t]
           z == 0
<1>1. /\ Vector(v) /\ queue /\ heap.first = 0 /\ heap.last = n /\ n > 0
      /\ Ordered(v.data, heap.first, heap.last - heap.first)
  BY DEF ConInv, Priority_Queue_Pop, Requeued
<1>2. n \in Nat /\ t \in 0 .. v.cap /\ z \in Nat /\ n - z = n /\ z < n /\ n - z - 1 = t /\ v.cap \in Nat
  BY <1>1 DEF Vector
<1>3. Requeued(w)
  <2>1. Requeued([v EXCEPT !.data = Heap_Pop(@, 0, v.top), !.top = @ - 1])
    BY DEF Priority_Queue_Pop
  <2>2. [v EXCEPT !.data = Heap_Pop(@, 0, v.top), !.top = @ - 1]
          = [v EXCEPT !.data = Heap_Pop(v.data, 0, v.top), !.top = v.top - 1]
    OBVIOUS
  <2>3. [v EXCEPT !.data = x, !.top = t] = w
    <3> DEFINE y == v.data
               c == v.cap
               m == v.top
    <3>1. v = [data |-> y, cap |-> c, top |-> m]
      BY <1>1 DEF Vector
    <3>2. w = [data |-> x, cap |-> c, top |-> t]
      OBVIOUS
    <3> DEFINE a == v
               r == [a EXCEPT !.data = x, !.top = t]
    <3>3. a = [data |-> y, cap |-> c, top |-> m] /\ r = [a EXCEPT !.data = x, !.top = t]
      BY <3>1
    <3> HIDE DEF y, c, m, t, w, a, r
    <3>4. r = [data |-> x, cap |-> c, top |-> t]
      BY ONLY <3>3
    <3>5. r = w
      BY ONLY <3>2, <3>4
    <3>6. QED
      BY ONLY <3>5 DEF r, a
  <2>4. Heap_Pop(v.data, 0, v.top) = x /\ v.top - 1 = t
    OBVIOUS
  <2> HIDE DEF w, t
  <2>5. QED
    BY <2>1, <2>2, <2>3, <2>4, Zenon
<1>4. Ordered(v.data, z, n - z) /\ x = Heap_Pop(v.data, z, n) /\ n <= v.top
  BY <1>1, <1>2
<1>5. /\ Reordered(v, z, n, x) /\ Ordered(x, z, n - z - 1)
      /\ LeftBehind(v.data, z, n, x)
      /\ NoneExceeds(v.data, z .. n - 1, v.data[z])
  <2> HIDE DEF z
  <2>1. QED
    BY <1>1, <1>2, <1>4, HeapPopSound
<1>6. x \in [0 .. v.cap - 1 -> Elem]
  BY <1>5 DEF Reordered, Kept
<1>7. w.data = x /\ w.cap = v.cap /\ w.top = t
  OBVIOUS
<1>8. Vector(w)
  BY <1>2, <1>6, <1>7 DEF Vector
<1>9. Ordered(w.data, 0, w.top)
  BY <1>2, <1>5, <1>7
<1> HIDE DEF w
<1>10. ConInv'
  BY <1>3, <1>8, <1>9, RequeuedKeeps
<1>11. v' = w
  BY <1>3 DEF Requeued
<1>12. QED
  BY <1>1, <1>2, <1>5, <1>7, <1>10, <1>11

(* Every call keeps the invariant. *)
LEMMA ConStepInv == ConInv /\ [ConNext]_con => ConInv'
<1> SUFFICES ASSUME ConInv, [ConNext]_con
             PROVE  ConInv'
  OBVIOUS
<1>1. MaxCap \in Nat
  BY ElemAssumption
<1>2. CASE UNCHANGED con
  BY <1>2 DEF ConInv, con
<1>3. CASE ConNext
  <2>1. CASE \E e \in Elem : Vector_Push(e) \/ Priority_Queue_Push(e) \/ \E pos \in 0 .. MaxCap - 1 : Put(pos, e)
    <3>1. PICK e \in Elem : Vector_Push(e) \/ Priority_Queue_Push(e) \/ \E pos \in 0 .. MaxCap - 1 : Put(pos, e)
      BY <2>1
    <3>2. CASE Vector_Push(e)
      BY <3>2, PushKeeps
    <3>3. CASE Priority_Queue_Push(e)
      BY <3>3, QueuePushStep
    <3>4. CASE \E pos \in 0 .. MaxCap - 1 : Put(pos, e)
      <4>1. PICK pos \in 0 .. MaxCap - 1 : Put(pos, e)
        BY <3>4
      <4>2. pos \in Nat
        BY <1>1
      <4>3. QED
        BY <4>1, <4>2, PutKeeps
    <3>5. QED
      BY <3>1, <3>2, <3>3, <3>4
  <2>2. CASE \E cap \in 0 .. MaxCap : Resize(cap)
    <3>1. PICK cap \in 0 .. MaxCap : Resize(cap)
      BY <2>2
    <3>2. cap \in Nat
      BY <1>1
    <3>3. QED
      BY <3>1, <3>2, ResizeKeeps
  <2>3. CASE \E first \in 0 .. MaxCap - 1, last \in 1 .. MaxCap : first < last /\ MakeHeap(first, last)
    <3>1. PICK first \in 0 .. MaxCap - 1, last \in 1 .. MaxCap : first < last /\ MakeHeap(first, last)
      BY <2>3
    <3>2. first \in Nat /\ last \in Nat
      BY <1>1
    <3>3. QED
      BY <3>1, <3>2, MakeHeapStep
  <2>4. CASE Pop
    BY <2>4, PopKeeps
  <2>5. CASE HeapPush
    BY <2>5, HeapPushStep
  <2>6. CASE HeapPop
    BY <2>6, HeapPopStep
  <2>7. CASE Priority_Queue_Pop
    BY <2>7, QueuePopStep
  <2>8. QED
    BY <1>3, <2>1, <2>2, <2>3, <2>4, <2>5, <2>6, <2>7 DEF ConNext
<1>4. QED
  BY <1>2, <1>3

(* The invariant is stronger than the two the run checks. *)
LEMMA ConInvHolds == ConInv => HoldsList /\ HeapInOrder
<1> SUFFICES ASSUME ConInv
             PROVE  HoldsList /\ HeapInOrder
  OBVIOUS
<1>1. HoldsList
  <2>1. /\ v.top <= v.cap /\ v.cap \in Nat /\ DOMAIN v.data = 0 .. v.cap - 1
        /\ list \in Seq(Shown) /\ Len(list) = v.top
        /\ \A i \in 1 .. Len(list) : list[i] \in {Stale, v.data[i - 1]}
    BY DEF ConInv, Vector, Stands
  <2>2. DOMAIN list = 1 .. Len(list)
    BY <2>1
  <2>3. QED
    BY <2>1, <2>2 DEF HoldsList
<1>2. HeapInOrder
  <2> DEFINE f == heap.first
             l == heap.last
             d == v.data
  <2>1. f \in Nat /\ l \in Nat /\ f <= l /\ Ordered(d, f, l - f)
    BY DEF ConInv, Within
  <2>2. ASSUME NEW i \in f .. l - 1, i > f
        PROVE  ~Less(d[f + ((i - f + 1) \div 2) - 1], d[i])
    <3> HIDE DEF f, l, d
    <3> DEFINE k == i - f
    <3>1. k \in 1 .. (l - f) - 1 /\ f + k = i
      BY <2>1, <2>2
    <3>2. ~Less(d[f + Parent(k)], d[f + k])
      <4> HIDE DEF k
      <4>1. QED
        BY <2>1, <3>1 DEF Ordered
    <3>3. Parent(k) = ((k + 1) \div 2) - 1
      <4>1. k \in Nat
        BY <3>1
      <4> HIDE DEF k
      <4>2. (k - 1) \div 2 = ((k + 1) \div 2) - 1
        BY <4>1
      <4>3. QED
        BY <4>2 DEF Parent
    <3>4. f + Parent(k) = f + ((i - f + 1) \div 2) - 1
      BY <2>1, <3>3
    <3>5. QED
      BY <3>1, <3>2, <3>4
  <2>3. QED
    BY <2>2 DEF HeapInOrder
<1>3. QED
  BY <1>1, <1>2

(* Through growth, shrinking and gaps a vector holds the elements it       *)
(* stands for, in order and within its capacity (vector.c:35-66).          *)
THEOREM VectorHoldsItsList == ConSpec => []HoldsList
<1>1. ConInv => HoldsList
  BY ConInvHolds
<1>2. QED
  BY <1>1, ConInitInv, ConStepInv, PTL DEF ConSpec

(* A range made a heap stays one through every Heap_Push and Heap_Pop,     *)
(* wherever it begins, and so does the vector inside a priority queue      *)
(* (heap.c, priority_queue.c).                                             *)
THEOREM HeapStaysInOrder == ConSpec => []HeapInOrder
<1>1. ConInv => HeapInOrder
  BY ConInvHolds
<1>2. QED
  BY <1>1, ConInitInv, ConStepInv, PTL DEF ConSpec

----------------------------------------------------------------------------
(* The heap operations keep the elements. *)

(* The cells of a heap operation, for HeapKeepsElements. *)
Touched == heap'.first .. (IF heap.last > heap'.last THEN heap.last ELSE heap'.last) - 1

KeepsElements ==
  /\ \A e \in Elem : Count(v'.data, Touched, e) = Count(v.data, Touched, e)
  /\ \A i \in DOMAIN v.data \ Touched : v'.data[i] = v.data[i]
  /\ heap'.last < heap.last => \A i \in Touched : ~Less(v'.data[heap'.last], v.data[i])

(* Make_Heap moves the elements of its range about. *)
LEMMA MakeHeapKeepsElements ==
  ASSUME ConInv, NEW first \in Nat, NEW last \in Nat, first < last, MakeHeap(first, last)
  PROVE  KeepsElements
<1> DEFINE d == Make_Heap(v.data, first, last)
<1>1. Reordered(v, first, last, d) /\ v'.data = d /\ heap' = [first |-> first, last |-> last]
  BY MakeHeapStep
<1>2. heap'.first = first /\ heap'.last = last /\ heap.last = 0
  BY <1>1 DEF MakeHeap, NoHeap
<1>3. Touched = first .. last - 1 /\ ~(heap'.last < heap.last)
  BY <1>2 DEF Touched
<1>4. DOMAIN v.data = 0 .. v.cap - 1
  BY DEF ConInv, Vector
<1> HIDE DEF d
<1>5. QED
  BY <1>1, <1>3, <1>4 DEF KeepsElements, Reordered, Kept

(* So does Heap_Push. *)
LEMMA HeapPushKeepsElements ==
  ASSUME ConInv, HeapPush
  PROVE  KeepsElements
<1> DEFINE first == heap.first
           last == heap.last
           d == Heap_Push(v.data, first, last + 1)
<1>1. /\ first \in Nat /\ last \in Nat /\ Reordered(v, first, last + 1, d)
      /\ v'.data = d /\ heap' = [first |-> first, last |-> last + 1]
  BY HeapPushStep
<1>2. heap'.first = first /\ heap'.last = last + 1
  BY <1>1
<1>3. Touched = first .. (last + 1) - 1 /\ ~(heap'.last < heap.last)
  BY <1>1, <1>2 DEF Touched
<1>4. DOMAIN v.data = 0 .. v.cap - 1
  BY DEF ConInv, Vector
<1> HIDE DEF d
<1>5. QED
  BY <1>1, <1>3, <1>4 DEF KeepsElements, Reordered, Kept

(* So does Heap_Pop, and the element it leaves behind the heap is the      *)
(* greatest.                                                               *)
LEMMA HeapPopKeepsElements ==
  ASSUME ConInv, HeapPop
  PROVE  KeepsElements
<1> DEFINE first == heap.first
           last == heap.last
           d == Heap_Pop(v.data, first, last)
<1>1. /\ first \in Nat /\ last \in Nat /\ Reordered(v, first, last, d)
      /\ LeftBehind(v.data, first, last, d)
      /\ NoneExceeds(v.data, first .. last - 1, v.data[first])
      /\ v'.data = d /\ heap' = [first |-> first, last |-> last - 1]
  BY HeapPopStep
<1>2. heap'.first = first /\ heap'.last = last - 1
  BY <1>1
<1>3. Touched = first .. last - 1
  BY <1>1, <1>2 DEF Touched
<1>4. v'.data[heap'.last] = v.data[first]
  BY <1>1, <1>2 DEF LeftBehind
<1>5. DOMAIN v.data = 0 .. v.cap - 1
  BY DEF ConInv, Vector
<1> HIDE DEF d, first, last
<1>6. QED
  BY <1>1, <1>3, <1>4, <1>5 DEF KeepsElements, Reordered, Kept, NoneExceeds

(* No other call leaves a heap behind. *)
LEMMA StepKeepsElements ==
  ASSUME ConInv, ConNext, ~queue, heap' # NoHeap
  PROVE  KeepsElements
<1>1. MaxCap \in Nat
  BY ElemAssumption
<1>2. \A w, l : ~Revised(w, l)
  BY DEF Revised
<1>3. \A w : ~Requeued(w)
  BY DEF Requeued
<1>4. /\ \A e : ~Vector_Push(e) /\ ~Priority_Queue_Push(e)
      /\ \A e, pos : ~Put(pos, e)
      /\ \A cap : ~Resize(cap)
      /\ ~Pop /\ ~Priority_Queue_Pop
  BY <1>2, <1>3 DEF Vector_Push, Priority_Queue_Push, Put, Resize, Pop, Priority_Queue_Pop
<1>5. CASE \E first \in 0 .. MaxCap - 1, last \in 1 .. MaxCap : first < last /\ MakeHeap(first, last)
  <2>1. PICK first \in 0 .. MaxCap - 1, last \in 1 .. MaxCap : first < last /\ MakeHeap(first, last)
    BY <1>5
  <2>2. first \in Nat /\ last \in Nat
    BY <1>1
  <2>3. QED
    BY <2>1, <2>2, MakeHeapKeepsElements
<1>6. CASE HeapPush
  BY <1>6, HeapPushKeepsElements
<1>7. CASE HeapPop
  BY <1>7, HeapPopKeepsElements
<1>8. QED
  BY <1>4, <1>5, <1>6, <1>7 DEF ConNext

(* The heap operations lose no element, double none and touch none outside *)
(* their range, and Heap_Pop leaves the greatest behind it (heap.c).       *)
THEOREM HeapsKeepTheirElements == ConSpec => HeapKeepsElements
<1>1. ConInv /\ [ConNext]_con =>
        [ ~queue /\ heap' # NoHeap =>
            LET range == heap'.first .. (IF heap.last > heap'.last THEN heap.last ELSE heap'.last) - 1
                Many(d, e) == Cardinality({ i \in range : d[i] = e })
            IN  /\ \A e \in Elem : Many(v'.data, e) = Many(v.data, e)
                /\ \A i \in DOMAIN v.data \ range : v'.data[i] = v.data[i]
                /\ heap'.last < heap.last =>
                     \A i \in range : ~Less(v'.data[heap'.last], v.data[i]) ]_con
  <2> SUFFICES ASSUME ConInv, ConNext, ~queue, heap' # NoHeap
               PROVE  LET range == heap'.first .. (IF heap.last > heap'.last THEN heap.last ELSE heap'.last) - 1
                          Many(d, e) == Cardinality({ i \in range : d[i] = e })
                      IN  /\ \A e \in Elem : Many(v'.data, e) = Many(v.data, e)
                          /\ \A i \in DOMAIN v.data \ range : v'.data[i] = v.data[i]
                          /\ heap'.last < heap.last =>
                               \A i \in range : ~Less(v'.data[heap'.last], v.data[i])
    OBVIOUS
  <2>1. KeepsElements
    BY StepKeepsElements
  <2>2. QED
    BY <2>1, Zenon DEF KeepsElements, Touched, Count
<1>2. QED
  BY <1>1, ConInitInv, ConStepInv, PTL DEF ConSpec, HeapKeepsElements

----------------------------------------------------------------------------
(* The priority queue is a bag. *)

(* How often each element is in the queue. *)
Bagged == [e \in Elem |-> IF queue THEN Cardinality({ i \in 0 .. v.top - 1 : v.data[i] = e }) ELSE 0]

(* What a queue holds, counted. *)
LEMMA BagCounts ==
  ASSUME queue, NEW n, n = v.top
  PROVE  Bagged = [e \in Elem |-> Count(v.data, 0 .. n - 1, e)]
BY DEF Bagged, Count

(* Cells that are alike have the same counts. *)
LEMMA CountAlike ==
  ASSUME NEW x, NEW y, NEW R, \A i \in R : y[i] = x[i], NEW e
  PROVE  Count(y, R, e) = Count(x, R, e)
<1>1. {i \in R : y[i] = e} = {i \in R : x[i] = e}
  OBVIOUS
<1>2. QED
  BY <1>1, Zenon DEF Count

(* One more cell is one more of what it holds. *)
LEMMA CountGrows ==
  ASSUME NEW n \in Nat, NEW x, NEW e
  PROVE  /\ Count(x, 0 .. n - 1, e) \in Nat /\ Count(x, 0 .. (n + 1) - 1, e) \in Nat
         /\ Count(x, 0 .. (n + 1) - 1, e) = Count(x, 0 .. n - 1, e) + One(x[n] = e)
<1> DEFINE T == {i \in 0 .. n - 1 : x[i] = e}
           S == {i \in 0 .. (n + 1) - 1 : x[i] = e}
<1>1. IsFiniteSet(T)
  <2>1. IsFiniteSet(0 .. n - 1)
    <3>1. 0 \in Int /\ n - 1 \in Int
      OBVIOUS
    <3>2. QED
      BY <3>1, FS_Interval
  <2>2. T \subseteq 0 .. n - 1
    OBVIOUS
  <2>3. QED
    BY <2>1, <2>2, FS_Subset
<1>2. n \notin T
  OBVIOUS
<1>3. S = IF x[n] = e THEN T \cup {n} ELSE T
  <2>1. \A i : i \in 0 .. (n + 1) - 1 <=> i \in 0 .. n - 1 \/ i = n
    OBVIOUS
  <2>2. QED
    BY <2>1
<1> HIDE DEF S, T
<1>4. Cardinality(T) \in Nat /\ Cardinality(T \cup {n}) = Cardinality(T) + 1
  BY <1>1, <1>2, FS_CardinalityType, FS_AddElement
<1>5. Cardinality(S) = Cardinality(T) + One(x[n] = e) /\ Cardinality(S) \in Nat
  BY <1>3, <1>4 DEF One
<1>6. Count(x, 0 .. n - 1, e) = Cardinality(T) /\ Count(x, 0 .. (n + 1) - 1, e) = Cardinality(S)
  BY DEF Count, S, T
<1>7. QED
  BY <1>4, <1>5, <1>6

(* What is counted is there. *)
LEMMA CountedIsThere ==
  ASSUME NEW x, NEW n \in Nat, NEW e, Count(x, 0 .. n - 1, e) > 0
  PROVE  \E c \in 0 .. n - 1 : x[c] = e
<1>1. {i \in 0 .. n - 1 : x[i] = e} # {}
  <2>1. Cardinality({}) = 0
    BY FS_EmptySet
  <2>2. QED
    BY <2>1 DEF Count
<1>2. QED
  BY <1>1

(* A new queue is an empty bag. *)
LEMMA BagStartsEmpty == ConInit => Bag!Init
<1> SUFFICES ASSUME ConInit
             PROVE  Bagged = [e \in Elem |-> 0]
  BY DEF Bag!Init, Bagged
<1>1. PICK cap \in 0 .. 2 : v = newVectorSize(cap)
  BY DEF ConInit
<1>2. v.top = 0
  <2>1. cap \in Nat
    OBVIOUS
  <2>2. QED
    BY <1>1, <2>1, NewVectorSound
<1>3. \A e : { i \in 0 .. v.top - 1 : v.data[i] = e } = {}
  BY <1>2
<1>4. Cardinality({}) = 0
  BY FS_EmptySet
<1>5. \A e : (IF queue THEN Cardinality({ i \in 0 .. v.top - 1 : v.data[i] = e }) ELSE 0) = 0
  BY <1>3, <1>4
<1>6. QED
  BY <1>5 DEF Bagged

(* A push inserts the element. *)
LEMMA QueuePushInserts ==
  ASSUME ConInv, NEW e \in Elem, Priority_Queue_Push(e)
  PROVE  Bagged' = [Bagged EXCEPT ![e] = @ + 1]
<1> DEFINE p == vector_PushPtr(v, e)
           n == v.top
           m == n + 1
           x == Heap_Push(p.data, 0, m)
           F(k) == Count(v.data, 0 .. n - 1, k)
           G(k) == Count(v'.data, 0 .. m - 1, k)
<1>1. /\ queue /\ n \in Nat /\ Vector(p) /\ p.data[n] = e
      /\ \A i \in 0 .. n - 1 : p.data[i] = v.data[i]
      /\ Reordered(p, 0, n + 1, x) /\ v'.data = x /\ v'.top = n + 1
  BY QueuePushStep
<1>2. queue'
  BY <1>1 DEF Priority_Queue_Push, Requeued
<1>3. Bagged = [k \in Elem |-> F(k)]
  BY <1>1, BagCounts
<1>4. Bagged' = [k \in Elem |-> G(k)]
  <2>1. v'.top - 1 = m - 1
    BY <1>1
  <2>2. \A k : (IF queue' THEN Cardinality({ i \in 0 .. v'.top - 1 : v'.data[i] = k }) ELSE 0) = G(k)
    BY <1>2, <2>1 DEF Count
  <2> HIDE DEF G
  <2>3. QED
    BY <2>2 DEF Bagged
<1> HIDE DEF p, x
<1>5. ASSUME NEW k
      PROVE  F(k) \in Nat /\ G(k) = F(k) + One(e = k)
  <2>1. Count(x, 0 .. m - 1, k) = Count(p.data, 0 .. m - 1, k)
    BY <1>1 DEF Reordered, Kept
  <2>2. /\ Count(p.data, 0 .. n - 1, k) \in Nat
        /\ Count(p.data, 0 .. (n + 1) - 1, k) = Count(p.data, 0 .. n - 1, k) + One(p.data[n] = k)
    BY <1>1, CountGrows
  <2>3. Count(p.data, 0 .. n - 1, k) = F(k)
    <3> DEFINE y == p.data
               z == v.data
               R == 0 .. n - 1
    <3>1. \A i \in R : y[i] = z[i]
      BY <1>1
    <3> HIDE DEF y, z, R
    <3>2. Count(y, R, k) = Count(z, R, k)
      BY <3>1, CountAlike
    <3>3. QED
      BY <3>2 DEF y, z, R
  <2>4. QED
    BY <1>1, <2>1, <2>2, <2>3
<1> HIDE DEF F, G
<1>6. One(e = e) = 1 /\ \A k : k # e => One(e = k) = 0
  BY DEF One
<1>7. \A k \in Elem : G(k) = IF k = e THEN F(k) + 1 ELSE F(k)
  BY <1>5, <1>6
<1> DEFINE old == Bagged
<1>8. [k \in Elem |-> G(k)] = [old EXCEPT ![e] = @ + 1]
  <2>1. old = [k \in Elem |-> F(k)]
    BY <1>3
  <2> HIDE DEF old
  <2>2. QED
    BY <1>7, <2>1
<1>9. QED
  BY <1>4, <1>8

(* A pop removes one that no other exceeds. *)
LEMMA QueuePopRemoves ==
  ASSUME ConInv, Priority_Queue_Pop
  PROVE  \E e \in Elem : /\ Bagged[e] > 0 /\ \A f \in Elem : Bagged[f] > 0 => Rank(f) <= Rank(e)
                         /\ Bagged' = [Bagged EXCEPT ![e] = @ - 1]
<1> DEFINE n == v.top
           m == n - 1
           x == Heap_Pop(v.data, 0, n)
           e == v.data[0]
           F(k) == Count(v.data, 0 .. n - 1, k)
           G(k) == Count(v'.data, 0 .. m - 1, k)
<1>1. /\ queue /\ n \in Nat /\ n > 0 /\ Vector(v)
      /\ Reordered(v, 0, n, x) /\ LeftBehind(v.data, 0, n, x)
      /\ NoneExceeds(v.data, 0 .. n - 1, v.data[0])
      /\ v'.data = x /\ v'.top = n - 1
  BY QueuePopStep
<1>2. m \in Nat /\ n = m + 1 /\ queue'
  BY <1>1 DEF Priority_Queue_Pop, Requeued
<1>3. e \in Elem /\ \A c \in 0 .. n - 1 : v.data[c] \in Elem
  <2>1. n <= v.cap /\ v.cap \in Nat /\ v.data \in [0 .. v.cap - 1 -> Elem]
    BY <1>1 DEF Vector
  <2>2. 0 \in 0 .. n - 1 /\ \A c \in 0 .. n - 1 : c \in 0 .. v.cap - 1
    BY <1>1, <2>1
  <2>3. QED
    BY <2>1, <2>2
<1>4. Bagged = [k \in Elem |-> F(k)]
  BY <1>1, BagCounts
<1>5. Bagged' = [k \in Elem |-> G(k)]
  <2>1. v'.top - 1 = m - 1
    BY <1>1
  <2>2. \A k : (IF queue' THEN Cardinality({ i \in 0 .. v'.top - 1 : v'.data[i] = k }) ELSE 0) = G(k)
    BY <1>2, <2>1 DEF Count
  <2> HIDE DEF G
  <2>3. QED
    BY <2>2 DEF Bagged
<1> HIDE DEF x
<1>6. ASSUME NEW k
      PROVE  G(k) \in Nat /\ F(k) \in Nat /\ F(k) = G(k) + One(e = k)
  <2>1. Count(x, 0 .. n - 1, k) = Count(v.data, 0 .. n - 1, k)
    BY <1>1 DEF Reordered, Kept
  <2>2. x[m] = e
    BY <1>1 DEF LeftBehind
  <2>3. /\ Count(x, 0 .. m - 1, k) \in Nat /\ Count(x, 0 .. (m + 1) - 1, k) \in Nat
        /\ Count(x, 0 .. (m + 1) - 1, k) = Count(x, 0 .. m - 1, k) + One(x[m] = k)
    <3> HIDE DEF m
    <3>1. QED
      BY <1>2, CountGrows
  <2>4. 0 .. (m + 1) - 1 = 0 .. n - 1
    BY <1>1
  <2>5. G(k) = Count(x, 0 .. m - 1, k)
    BY <1>1
  <2>6. QED
    BY <2>1, <2>2, <2>3, <2>4, <2>5
<1>7. ASSUME NEW f \in Elem, F(f) > 0
      PROVE  Rank(f) <= Rank(e)
  <2>1. \E c \in 0 .. n - 1 : v.data[c] = f
    <3> DEFINE y == v.data
    <3>1. Count(y, 0 .. n - 1, f) > 0
      BY <1>7
    <3> HIDE DEF y, n
    <3>2. \E c \in 0 .. n - 1 : y[c] = f
      BY <1>1, <3>1, CountedIsThere
    <3>3. QED
      BY <3>2 DEF y
  <2>2. ~Less(e, f)
    BY <1>1, <2>1 DEF NoneExceeds
  <2>3. Rank(e) \in Int /\ Rank(f) \in Int
    BY <1>3, ElemAssumption
  <2>4. QED
    BY <2>2, <2>3 DEF Less
<1> HIDE DEF F, G, e
<1>8. One(e = e) = 1 /\ \A k : k # e => One(e = k) = 0
  BY DEF One
<1>9. F(e) > 0 /\ \A k \in Elem : G(k) = IF k = e THEN F(k) - 1 ELSE F(k)
  BY <1>6, <1>8
<1> DEFINE old == Bagged
<1>10. old = [k \in Elem |-> F(k)]
  BY <1>4
<1>11. [k \in Elem |-> G(k)] = [old EXCEPT ![e] = @ - 1]
  <2> HIDE DEF old
  <2>1. QED
    BY <1>3, <1>9, <1>10
<1>12. old[e] > 0 /\ \A f \in Elem : old[f] > 0 => Rank(f) <= Rank(e)
  <2> HIDE DEF old
  <2>1. QED
    BY <1>3, <1>7, <1>9, <1>10
<1>13. QED
  BY <1>3, <1>5, <1>11, <1>12

(* Nothing else touches a queue, and a vector that is none has no bag. *)
LEMMA ConStepBag == ConInv /\ [ConNext]_con => [Bag!Next]_Bagged
<1> SUFFICES ASSUME ConInv, [ConNext]_con
             PROVE  Bag!Next \/ Bagged' = Bagged
  OBVIOUS
<1>1. CASE UNCHANGED con
  BY <1>1 DEF con, Bagged
<1>2. CASE ConNext /\ ~queue
  <2>1. ~queue'
    BY <1>2 DEF ConNext, Vector_Push, Pop, Put, Resize, MakeHeap, HeapPush, HeapPop, Revised, Reorders,
                Priority_Queue_Push, Priority_Queue_Pop, Requeued
  <2>2. QED
    BY <1>2, <2>1 DEF Bagged
<1>3. CASE ConNext /\ queue
  <2>1. \A w, l : ~Revised(w, l) /\ ~Reorders(w, l)
    BY <1>3 DEF Revised, Reorders
  <2>2. /\ \A e : ~Vector_Push(e)
        /\ \A e, pos : ~Put(pos, e)
        /\ \A cap : ~Resize(cap)
        /\ \A first, last : ~MakeHeap(first, last)
        /\ ~Pop /\ ~HeapPush /\ ~HeapPop
    BY <2>1 DEF Vector_Push, Put, Resize, Pop, MakeHeap, HeapPush, HeapPop
  <2>3. CASE \E e \in Elem : Priority_Queue_Push(e)
    <3>1. PICK e \in Elem : Priority_Queue_Push(e)
      BY <2>3
    <3>2. Bagged' = [Bagged EXCEPT ![e] = @ + 1]
      BY <3>1, QueuePushInserts
    <3>3. QED
      BY <3>2 DEF Bag!Next, Bag!Insert, Bagged
  <2>4. CASE Priority_Queue_Pop
    <3>1. PICK e \in Elem : /\ Bagged[e] > 0 /\ \A f \in Elem : Bagged[f] > 0 => Rank(f) <= Rank(e)
                            /\ Bagged' = [Bagged EXCEPT ![e] = @ - 1]
      BY <2>4, QueuePopRemoves
    <3>2. QED
      BY <3>1 DEF Bag!Next, Bag!RemoveGreatest, Bag!Greatest, Bagged
  <2>5. QED
    BY <1>3, <2>2, <2>3, <2>4 DEF ConNext
<1>4. QED
  BY <1>1, <1>2, <1>3

(* The priority queue implements PriorityBag: a push inserts the element,  *)
(* a pop takes one out that no other exceeds (priority_queue.c).           *)
THEOREM QueueIsABag == ConSpec => QueueIsBag
<1>1. ConInv /\ [ConNext]_con => [Bag!Next]_Bagged
  BY ConStepBag
<1>2. QED
  BY <1>1, BagStartsEmpty, ConInitInv, ConStepInv, PTL DEF ConSpec, QueueIsBag, Bag!Spec, Bagged

----------------------------------------------------------------------------
(* Paths into a reply. *)

(* The element after one more step of a path. *)
Stepped(e, x) == IF ~e.array \/ x = Junk THEN Nil ELSE ArrayElement(e, x - 1)

(* The elements f along the first m steps of the path p. *)
Along(r, p, m, f) ==
  f = [n \in 0 .. m |-> IF n = 0 THEN r ELSE Stepped(f[n - 1], p[n])]

(* The elements along a path, step by step. *)
LEMMA AlongExists ==
  ASSUME NEW r, NEW p, NEW m \in Nat
  PROVE  \E f : Along(r, p, m, f)
<1> DEFINE S == {n \in Nat : \E f : Along(r, p, n, f)}
<1>1. 0 \in S
  <2> DEFINE f == [n \in 0 .. 0 |-> r]
  <2>1. f = [n \in 0 .. 0 |-> IF n = 0 THEN r ELSE Stepped(f[n - 1], p[n])]
    OBVIOUS
  <2> HIDE DEF f
  <2>2. Along(r, p, 0, f)
    BY <2>1 DEF Along
  <2>3. QED
    BY <2>2
<1>2. ASSUME NEW n \in Nat, n \in S
      PROVE  n + 1 \in S
  <2>1. PICK f : Along(r, p, n, f)
    BY <1>2
  <2> DEFINE last == Stepped(f[n], p[n + 1])
             g == [k \in 0 .. n + 1 |-> IF k = n + 1 THEN last ELSE f[k]]
             h == [k \in 0 .. n + 1 |-> IF k = 0 THEN r ELSE Stepped(g[k - 1], p[k])]
  <2>2. \A k \in 0 .. n : f[k] = IF k = 0 THEN r ELSE Stepped(f[k - 1], p[k])
    BY <2>1 DEF Along
  <2>3. ASSUME NEW k \in 0 .. n + 1
        PROVE  g[k] = h[k]
    <3>1. CASE k = n + 1
      <4>1. k # 0 /\ g[k] = last /\ g[k - 1] = f[n]
        BY <3>1
      <4>2. h[k] = Stepped(g[k - 1], p[k])
        BY <4>1
      <4>3. QED
        BY <3>1, <4>1, <4>2, Zenon
    <3>2. CASE k \in 0 .. n
      <4>1. g[k] = f[k] /\ (k # 0 => g[k - 1] = f[k - 1])
        BY <3>2
      <4>2. h[k] = IF k = 0 THEN r ELSE Stepped(g[k - 1], p[k])
        OBVIOUS
      <4>3. QED
        BY <2>2, <3>2, <4>1, <4>2, Zenon
    <3>3. QED
      BY <3>1, <3>2
  <2>4. g = h
    BY <2>3
  <2>5. Along(r, p, n + 1, g)
    BY <2>4 DEF Along
  <2>6. QED
    BY <2>5
<1>3. QED
  <2> HIDE DEF S
  <2>1. m \in S
    BY <1>1, <1>2, SetInduction
  <2>2. QED
    BY <2>1 DEF S

(* f leads from r along p to e. *)
Leads(r, p, f, e) ==
  e = f[Len(p)] /\ f[0] = r /\ \A n \in 1 .. Len(p) : f[n] = Stepped(f[n - 1], p[n])

(* RedisModule_CallReplyArrayElementByPath returns the last of them. *)
LEMMA PathLeads ==
  ASSUME NEW r, NEW p, p \in Seq(Int), p # <<>>
  PROVE  \E f : Leads(r, p, f, CallReplyArrayElementByPath(r, p))
<1> DEFINE f == CHOOSE f : Along(r, p, Len(p), f)
<1>1. Len(p) \in Nat
  OBVIOUS
<1>2. Along(r, p, Len(p), f)
  BY <1>1, AlongExists, Zenon
<1>3. CallReplyArrayElementByPath(r, p) = f[Len(p)]
  BY DEF CallReplyArrayElementByPath, Along, Stepped
<1> HIDE DEF f
<1>4. \A n \in 0 .. Len(p) : f[n] = IF n = 0 THEN r ELSE Stepped(f[n - 1], p[n])
  BY <1>2 DEF Along
<1>5. 0 \in 0 .. Len(p) /\ \A n \in 1 .. Len(p) : n \in 0 .. Len(p) /\ n # 0
  BY <1>1
<1>6. Leads(r, p, f, CallReplyArrayElementByPath(r, p))
  BY <1>3, <1>4, <1>5, Zenon DEF Leads
<1>7. QED
  BY <1>6

(* From the k-th element on, the rest of the path leads to the same end. *)
LEMMA PathsJoin ==
  ASSUME NEW r, NEW p, p \in Seq(Int), NEW k \in 1 .. Len(p),
         NEW b, b = CallReplyArrayElementByPath(r, SubSeq(p, 1, k))
  PROVE  /\ k = 1 => b = Stepped(r, p[1])
         /\ k < Len(p) =>
              CallReplyArrayElementByPath(r, p)
                = CallReplyArrayElementByPath(b, SubSeq(p, k + 1, Len(p)))
<1> DEFINE p1 == SubSeq(p, 1, k)
           p2 == SubSeq(p, k + 1, Len(p))
<1>1. Len(p) \in Nat /\ k \in Nat /\ 1 <= k /\ k <= Len(p)
  OBVIOUS
<1>2. p1 \in Seq(Int) /\ Len(p1) = k /\ p1 # <<>> /\ \A n \in 1 .. k : p1[n] = p[n]
  OBVIOUS
<1> HIDE DEF p1
<1>3. PICK f : /\ b = f[k] /\ f[0] = r
               /\ \A n \in 1 .. k : f[n] = Stepped(f[n - 1], p[n])
  <2>1. PICK f : Leads(r, p1, f, CallReplyArrayElementByPath(r, p1))
    BY <1>2, PathLeads
  <2>2. b = f[k]
    BY <1>2, <2>1 DEF p1, Leads
  <2>3. QED
    BY <1>2, <2>1, <2>2 DEF Leads
<1>4. k = 1 => b = Stepped(r, p[1])
  <2>1. f[1] = Stepped(f[1 - 1], p[1])
    BY <1>1, <1>3
  <2>2. f[1] = Stepped(f[0], p[1])
    BY <2>1
  <2>3. QED
    BY <1>3, <2>2
<1>5. ASSUME k < Len(p)
      PROVE  CallReplyArrayElementByPath(r, p) = CallReplyArrayElementByPath(b, p2)
  <2>1. /\ p2 \in Seq(Int) /\ Len(p2) = Len(p) - k /\ p2 # <<>>
        /\ \A n \in 1 .. Len(p) - k : p2[n] = p[k + n]
    <3>1. p2 \in Seq(Int) /\ Len(p2) = Len(p) - k
      BY <1>1, <1>5
    <3>2. \A n \in 1 .. Len(p) - k : p2[n] = p[k + n]
      BY <1>1, <1>5
    <3>3. p2 # <<>>
      <4> HIDE DEF p2
      <4>1. Len(p2) # 0
        BY <1>1, <1>5, <3>1
      <4>2. QED
        BY <4>1
    <3>4. QED
      BY <3>1, <3>2, <3>3
  <2> HIDE DEF p2
  <2>2. PICK g : Leads(b, p2, g, CallReplyArrayElementByPath(b, p2))
    BY <2>1, PathLeads
  <2>3. p # <<>>
    BY <1>1
  <2>4. PICK h : Leads(r, p, h, CallReplyArrayElementByPath(r, p))
    BY <2>3, PathLeads
  <2> DEFINE S == {n \in Nat : n <= k => h[n] = f[n]}
             T == {n \in Nat : n <= Len(p) - k => h[k + n] = g[n]}
  <2>5. 0 \in S
    BY <1>3, <2>4 DEF Leads
  <2>6. ASSUME NEW n \in Nat, n \in S
        PROVE  n + 1 \in S
    <3>1. SUFFICES ASSUME n + 1 <= k
                   PROVE  h[n + 1] = f[n + 1]
      OBVIOUS
    <3>2. n + 1 \in 1 .. k /\ n + 1 \in 1 .. Len(p) /\ (n + 1) - 1 = n /\ h[n] = f[n]
      BY <1>1, <2>6, <3>1
    <3>3. h[n + 1] = Stepped(h[n], p[n + 1]) /\ f[n + 1] = Stepped(f[n], p[n + 1])
      BY <1>3, <2>4, <3>2 DEF Leads
    <3>4. QED
      BY <3>2, <3>3
  <2>7. h[k] = f[k]
    <3> HIDE DEF S
    <3>1. k \in S
      BY <1>1, <2>5, <2>6, SetInduction
    <3>2. QED
      BY <1>1, <3>1 DEF S
  <2>8. 0 \in T
    <3>1. k + 0 = k
      BY <1>1
    <3>2. QED
      BY <1>3, <2>2, <2>7, <3>1 DEF Leads
  <2>9. ASSUME NEW n \in Nat, n \in T
        PROVE  n + 1 \in T
    <3>1. SUFFICES ASSUME n + 1 <= Len(p) - k
                   PROVE  h[k + (n + 1)] = g[n + 1]
      OBVIOUS
    <3>2. /\ n + 1 \in 1 .. Len(p) - k /\ k + (n + 1) \in 1 .. Len(p)
          /\ (n + 1) - 1 = n /\ (k + (n + 1)) - 1 = k + n /\ h[k + n] = g[n]
      <4>1. k + (n + 1) \in 1 .. Len(p) /\ (k + (n + 1)) - 1 = k + n
        BY <1>1, <3>1
      <4>2. n <= Len(p) - k
        BY <1>1, <3>1
      <4>3. h[k + n] = g[n]
        BY <2>9, <4>2
      <4>4. n + 1 \in 1 .. Len(p) - k /\ (n + 1) - 1 = n
        BY <1>1, <3>1
      <4>5. QED
        BY <4>1, <4>3, <4>4, Zenon
    <3>3. h[k + (n + 1)] = Stepped(h[k + n], p[k + (n + 1)])
      BY <2>4, <3>2 DEF Leads
    <3>4. g[n + 1] = Stepped(g[n], p[k + (n + 1)])
      BY <2>1, <2>2, <3>2 DEF Leads
    <3>5. QED
      BY <3>2, <3>3, <3>4
  <2>10. h[k + (Len(p) - k)] = g[Len(p) - k]
    <3> HIDE DEF T
    <3>1. Len(p) - k \in Nat
      BY <1>1
    <3>2. Len(p) - k \in T
      BY <2>8, <2>9, <3>1, SetInduction
    <3>3. QED
      BY <3>1, <3>2 DEF T
  <2>11. k + (Len(p) - k) = Len(p)
    BY <1>1
  <2>12. QED
    BY <2>1, <2>2, <2>4, <2>10, <2>11 DEF Leads
<1>6. QED
  BY <1>4, <1>5 DEF p2

(* The property, of any tree of arrays. *)
LEMMA PathsOfATree ==
  ASSUME NEW tree, tree.array = TRUE, NEW n \in Nat, DOMAIN tree.items = 1 .. n,
         NEW p \in Seq(Int), NEW k \in 1 .. Len(p)
  PROVE  LET begun == CallReplyArrayElementByPath(tree, SubSeq(p, 1, k))
         IN  /\ k = 1 => begun = IF p[1] \in DOMAIN tree.items THEN tree.items[p[1]] ELSE Nil
             /\ k < Len(p) =>
                  CallReplyArrayElementByPath(tree, p)
                    = CallReplyArrayElementByPath(begun, SubSeq(p, k + 1, Len(p)))
<1> DEFINE begun == CallReplyArrayElementByPath(tree, SubSeq(p, 1, k))
<1>1. /\ k = 1 => begun = Stepped(tree, p[1])
      /\ k < Len(p) =>
           CallReplyArrayElementByPath(tree, p)
             = CallReplyArrayElementByPath(begun, SubSeq(p, k + 1, Len(p)))
  BY PathsJoin
<1>2. Stepped(tree, p[1]) = IF p[1] \in DOMAIN tree.items THEN tree.items[p[1]] ELSE Nil
  <2>1. p[1] \in Int
    OBVIOUS
  <2>2. (p[1] - 1) + 1 = p[1] /\ (p[1] \in DOMAIN tree.items => p[1] # Junk)
    BY <2>1 DEF Junk
  <2>3. QED
    BY <2>2 DEF Stepped, ArrayElement
<1>3. QED
  BY <1>1, <1>2

(* The replies that are walked are arrays. *)
LEMMA TreesAreArrays ==
  ASSUME NEW tree \in Trees
  PROVE  tree.array = TRUE /\ \E n \in Nat : DOMAIN tree.items = 1 .. n
<1>1. PICK items : tree = Array(items) /\ \E n \in Nat : DOMAIN items = 1 .. n
  <2>2. \A x, y : DOMAIN <<x, y>> = 1 .. 2
    OBVIOUS
  <2>3. QED
    BY <2>2, Zenon DEF Trees
<1>2. QED
  BY <1>1 DEF Array

(* RedisModule_CallReplyArrayElementByPath (util.c:198): a step and the    *)
(* rest of the path are the whole path.                                    *)
LEMMA PathsSound == path \in Seq(Int) => PathsCompose
<1>1. SUFFICES ASSUME path \in Seq(Int), NEW tree \in Trees, NEW k \in 1 .. Len(path)
               PROVE  LET begun == CallReplyArrayElementByPath(tree, SubSeq(path, 1, k))
                      IN  /\ k = 1 => begun = IF path[1] \in DOMAIN tree.items
                                              THEN tree.items[path[1]] ELSE Nil
                          /\ k < Len(path) =>
                               CallReplyArrayElementByPath(tree, path)
                                 = CallReplyArrayElementByPath(begun, SubSeq(path, k + 1, Len(path)))
  BY DEF PathsCompose
<1>2. PICK n \in Nat : DOMAIN tree.items = 1 .. n
  BY TreesAreArrays
<1>3. tree.array = TRUE
  BY TreesAreArrays
<1>4. QED
  BY <1>1, <1>2, <1>3, PathsOfATree

----------------------------------------------------------------------------
(* Parsing arguments. *)

(* The n-th letter of the format has an argument that converts. *)
Fitting(offset, fmt, n) == offset + n <= Len(argv) /\ Converts(argv[offset + n], fmt[n])

(* A turn of the loop. *)
Taken(offset, fmt, x, n) ==
  IF x.ok /\ offset + n <= Len(argv) /\ Converts(argv[offset + n], fmt[n])
  THEN [ok |-> TRUE,
        vars |-> IF fmt[n] = "*" THEN x.vars ELSE Append(x.vars, <<fmt[n], argv[offset + n]>>)]
  ELSE [ok |-> FALSE, vars |-> x.vars]

NoVars == [ok |-> TRUE, vars |-> <<>>]

(* The first m turns. *)
Turns(offset, fmt, m, f) ==
  f = [n \in 0 .. m |-> IF n = 0 THEN NoVars ELSE Taken(offset, fmt, f[n - 1], n)]

(* The loop of rmutil_vparseArgs has a result after every turn. *)
LEMMA TurnsExist ==
  ASSUME NEW offset, NEW fmt, NEW m \in Nat
  PROVE  \E f : Turns(offset, fmt, m, f)
<1> DEFINE S == {n \in Nat : \E f : Turns(offset, fmt, n, f)}
<1>1. 0 \in S
  <2> DEFINE f == [n \in 0 .. 0 |-> NoVars]
  <2>1. f = [n \in 0 .. 0 |-> IF n = 0 THEN NoVars ELSE Taken(offset, fmt, f[n - 1], n)]
    OBVIOUS
  <2> HIDE DEF f
  <2>2. Turns(offset, fmt, 0, f)
    BY <2>1 DEF Turns
  <2>3. QED
    BY <2>2
<1>2. ASSUME NEW n \in Nat, n \in S
      PROVE  n + 1 \in S
  <2>1. PICK f : Turns(offset, fmt, n, f)
    BY <1>2
  <2> DEFINE last == Taken(offset, fmt, f[n], n + 1)
             g == [k \in 0 .. n + 1 |-> IF k = n + 1 THEN last ELSE f[k]]
             h == [k \in 0 .. n + 1 |-> IF k = 0 THEN NoVars ELSE Taken(offset, fmt, g[k - 1], k)]
  <2>2. \A k \in 0 .. n : f[k] = IF k = 0 THEN NoVars ELSE Taken(offset, fmt, f[k - 1], k)
    BY <2>1 DEF Turns
  <2>3. ASSUME NEW k \in 0 .. n + 1
        PROVE  g[k] = h[k]
    <3>1. CASE k = n + 1
      <4>1. k # 0 /\ g[k] = last /\ g[k - 1] = f[n]
        BY <3>1
      <4>2. h[k] = Taken(offset, fmt, g[k - 1], k)
        BY <4>1
      <4>3. QED
        BY <3>1, <4>1, <4>2, Zenon
    <3>2. CASE k \in 0 .. n
      <4>1. g[k] = f[k] /\ (k # 0 => g[k - 1] = f[k - 1])
        BY <3>2
      <4>2. h[k] = IF k = 0 THEN NoVars ELSE Taken(offset, fmt, g[k - 1], k)
        OBVIOUS
      <4>3. QED
        BY <2>2, <3>2, <4>1, <4>2, Zenon
    <3>3. QED
      BY <3>1, <3>2
  <2>4. g = h
    BY <2>3
  <2>5. Turns(offset, fmt, n + 1, g)
    BY <2>4 DEF Turns
  <2>6. QED
    BY <2>5
<1>3. QED
  <2> HIDE DEF S
  <2>1. m \in S
    BY <1>1, <1>2, SetInduction
  <2>2. QED
    BY <2>1 DEF S

(* How many variables the first n letters have. *)
Place(fmt, n) == Cardinality({m \in 1 .. n : fmt[m] # "*"})

(* The places count up. *)
LEMMA PlacesCount ==
  ASSUME NEW fmt
  PROVE  /\ Place(fmt, 0) = 0
         /\ \A n \in Nat : /\ Place(fmt, n) \in Nat
                           /\ Place(fmt, n + 1) = IF fmt[n + 1] = "*" THEN Place(fmt, n)
                                                  ELSE Place(fmt, n) + 1
<1> DEFINE R(n) == {m \in 1 .. n : fmt[m] # "*"}
<1>1. \A n \in Nat : IsFiniteSet(R(n)) /\ Cardinality(R(n)) \in Nat
  <2>1. ASSUME NEW n \in Nat
        PROVE  IsFiniteSet(R(n)) /\ Cardinality(R(n)) \in Nat
    <3>1. IsFiniteSet(1 .. n)
      <4>1. 1 \in Int /\ n \in Int
        OBVIOUS
      <4>2. QED
        BY <4>1, FS_Interval
    <3>2. IsFiniteSet(R(n))
      BY <3>1, FS_Subset
    <3>3. QED
      BY <3>2, FS_CardinalityType
  <2>2. QED
    BY <2>1
<1>2. R(0) = {}
  OBVIOUS
<1>3. ASSUME NEW n \in Nat
      PROVE  R(n + 1) = IF fmt[n + 1] = "*" THEN R(n) ELSE R(n) \cup {n + 1}
  OBVIOUS
<1>4. \A n \in Nat : n + 1 \notin R(n)
  OBVIOUS
<1>5. Place(fmt, 0) = 0
  BY <1>2, FS_EmptySet DEF Place
<1>6. ASSUME NEW n \in Nat
      PROVE  /\ Place(fmt, n) \in Nat
             /\ Place(fmt, n + 1) = IF fmt[n + 1] = "*" THEN Place(fmt, n) ELSE Place(fmt, n) + 1
  <2>1. Place(fmt, n) = Cardinality(R(n)) /\ Place(fmt, n + 1) = Cardinality(R(n + 1))
    BY DEF Place
  <2>2. Cardinality(R(n) \cup {n + 1}) = Cardinality(R(n)) + 1
    <3>1. IsFiniteSet(R(n)) /\ n + 1 \notin R(n)
      BY <1>1, <1>4
    <3> HIDE DEF R
    <3>2. QED
      BY <3>1, FS_AddElement
  <2> HIDE DEF R
  <2>3. QED
    BY <1>1, <1>3, <2>1, <2>2
<1>7. QED
  BY <1>5, <1>6

(* What the first n turns have done. *)
Parsing(offset, fmt, n, x) ==
  /\ x.ok \in BOOLEAN /\ x.vars \in Seq(Letter \X Word) /\ Len(x.vars) <= n
  /\ x.ok <=> \A m \in 1 .. n : Fitting(offset, fmt, m)
  /\ x.ok => /\ Len(x.vars) = Place(fmt, n)
             /\ \A m \in 1 .. n :
                  fmt[m] # "*" => /\ Place(fmt, m) \in 1 .. Len(x.vars)
                                  /\ x.vars[Place(fmt, m)] = <<fmt[m], argv[offset + m]>>

(* A turn of the loop: a letter that fits, that is skipped, or that ends   *)
(* it.                                                                     *)
LEMMA TakenParses ==
  ASSUME argv \in Seq(Word), NEW offset \in Nat, NEW fmt, fmt \in Seq(Letter),
         NEW n \in Nat, n + 1 <= Len(fmt), NEW x, Parsing(offset, fmt, n, x),
         NEW y, y = Taken(offset, fmt, x, n + 1)
  PROVE  Parsing(offset, fmt, n + 1, y)
<1> DEFINE w == argv[offset + (n + 1)]
           l == fmt[n + 1]
           new == <<l, w>>
<1>1. x.ok \in BOOLEAN /\ x.vars \in Seq(Letter \X Word) /\ Len(x.vars) \in Nat /\ Len(x.vars) <= n
  BY DEF Parsing
<1>2. l \in Letter
  OBVIOUS
<1>3. \A m \in 1 .. n + 1 : m \in 1 .. n \/ m = n + 1
  OBVIOUS
<1>4. /\ Place(fmt, n) \in Nat
      /\ Place(fmt, n + 1) = IF l = "*" THEN Place(fmt, n) ELSE Place(fmt, n) + 1
  BY PlacesCount
<1>5. CASE ~(x.ok /\ Fitting(offset, fmt, n + 1))
  <2>1. y = [ok |-> FALSE, vars |-> x.vars]
    BY <1>5 DEF Taken, Fitting
  <2>2. y.ok = FALSE /\ y.vars = x.vars
    BY <2>1
  <2>3. ~(\A m \in 1 .. n + 1 : Fitting(offset, fmt, m))
    <3>1. n + 1 \in 1 .. n + 1 /\ \A m \in 1 .. n : m \in 1 .. n + 1
      OBVIOUS
    <3>2. QED
      BY <1>5, <3>1 DEF Parsing
  <2>4. y.ok \in BOOLEAN /\ ~y.ok
    BY <2>2
  <2>5. y.vars \in Seq(Letter \X Word) /\ Len(y.vars) <= n + 1
    BY <1>1, <2>2
  <2>6. QED
    BY <2>3, <2>4, <2>5, Zenon DEF Parsing
<1>6. CASE x.ok /\ Fitting(offset, fmt, n + 1)
  <2> DEFINE vars == IF l = "*" THEN x.vars ELSE Append(x.vars, new)
  <2>1. y = [ok |-> TRUE, vars |-> vars]
    BY <1>6 DEF Taken, Fitting
  <2>2. w \in Word
    BY <1>6 DEF Fitting
  <2>3. /\ vars \in Seq(Letter \X Word) /\ Len(vars) <= n + 1 /\ Len(vars) \in Nat
        /\ Len(vars) = IF l = "*" THEN Len(x.vars) ELSE Len(x.vars) + 1
        /\ \A k \in 1 .. Len(x.vars) : k \in 1 .. Len(vars) /\ vars[k] = x.vars[k]
        /\ l # "*" => vars[Len(x.vars) + 1] = new /\ Len(x.vars) + 1 \in 1 .. Len(vars)
    <3>1. new \in Letter \X Word
      BY <1>2, <2>2
    <3> HIDE DEF new, l
    <3>2. CASE l = "*"
      BY <1>1, <3>2
    <3>3. CASE l # "*"
      <4>1. vars = Append(x.vars, new)
        BY <3>3
      <4> HIDE DEF vars
      <4>2. QED
        BY <1>1, <3>1, <3>3, <4>1
    <3>4. QED
      BY <3>2, <3>3
  <2> HIDE DEF vars
  <2>4. y.ok = TRUE /\ y.vars = vars
    BY <2>1
  <2>5. /\ Len(x.vars) = Place(fmt, n)
        /\ \A m \in 1 .. n : Fitting(offset, fmt, m)
        /\ \A m \in 1 .. n :
             fmt[m] # "*" => /\ Place(fmt, m) \in 1 .. Len(x.vars)
                             /\ x.vars[Place(fmt, m)] = <<fmt[m], argv[offset + m]>>
    BY <1>6 DEF Parsing
  <2>6. Len(vars) = Place(fmt, n + 1)
    BY <1>4, <2>3, <2>5
  <2>7. \A m \in 1 .. n + 1 : Fitting(offset, fmt, m)
    BY <1>3, <1>6, <2>5
  <2>8. ASSUME NEW m \in 1 .. n + 1, fmt[m] # "*"
        PROVE  /\ Place(fmt, m) \in 1 .. Len(vars)
               /\ vars[Place(fmt, m)] = <<fmt[m], argv[offset + m]>>
    <3>1. CASE m = n + 1
      <4>1. Place(fmt, m) = Len(x.vars) + 1
        BY <1>4, <2>5, <2>8, <3>1
      <4>2. QED
        BY <2>3, <2>8, <3>1, <4>1
    <3>2. CASE m \in 1 .. n
      BY <2>3, <2>5, <2>8, <3>2
    <3>3. QED
      BY <1>3, <3>1, <3>2
  <2>9. QED
    BY <2>3, <2>4, <2>6, <2>7, <2>8 DEF Parsing
<1>7. QED
  BY <1>5, <1>6

(* rmutil_vparseArgs parses as it should. *)
LEMMA ParsedFits ==
  ASSUME argv \in Seq(Word), NEW offset \in Nat, NEW fmt, fmt \in Seq(Letter)
  PROVE  Parsing(offset, fmt, Len(fmt), Parsed(offset, fmt))
<1> DEFINE f == CHOOSE f : Turns(offset, fmt, Len(fmt), f)
           L == Len(fmt)
<1>1. L \in Nat
  OBVIOUS
<1>2. Turns(offset, fmt, Len(fmt), f)
  BY <1>1, TurnsExist, Zenon
<1>3. Parsed(offset, fmt) = f[L]
  BY DEF Parsed, Turns, Taken, NoVars
<1> HIDE DEF f
<1>4. \A n \in 0 .. L : f[n] = IF n = 0 THEN NoVars ELSE Taken(offset, fmt, f[n - 1], n)
  BY <1>2 DEF Turns
<1> DEFINE S == {n \in Nat : n <= L => Parsing(offset, fmt, n, f[n])}
<1>5. 0 \in S
  <2>1. f[0] = NoVars
    BY <1>1, <1>4
  <2>2. Parsing(offset, fmt, 0, NoVars)
    BY PlacesCount DEF Parsing, NoVars
  <2>3. QED
    BY <2>1, <2>2
<1>6. ASSUME NEW n \in Nat, n \in S
      PROVE  n + 1 \in S
  <2>1. SUFFICES ASSUME n + 1 <= L
                 PROVE  Parsing(offset, fmt, n + 1, f[n + 1])
    OBVIOUS
  <2>2. n + 1 \in 0 .. L /\ n + 1 # 0 /\ (n + 1) - 1 = n /\ n <= L
    BY <1>1, <2>1
  <2>3. f[n + 1] = Taken(offset, fmt, f[n], n + 1)
    BY <1>4, <2>2
  <2>4. Parsing(offset, fmt, n, f[n])
    BY <1>6, <2>2
  <2>5. QED
    BY <2>1, <2>3, <2>4, TakenParses
<1>7. L \in S
  <2> HIDE DEF S
  <2>1. QED
    BY <1>1, <1>5, <1>6, SetInduction
<1>8. QED
  BY <1>1, <1>3, <1>7

----------------------------------------------------------------------------
(* The table of INFO. *)

(* x is the first of the n entries of seq with this key. *)
First(seq, n, key, x) ==
  \E i \in 1 .. n : seq[i] = x /\ x.key = key /\ \A j \in 1 .. i - 1 : seq[j].key # key

(* The lines read one after another. *)
Entries(lines, m, f) ==
  f = [n \in 0 .. m |-> IF n = 0 THEN NoInfo ELSE Entered(f[n - 1], lines[n])]

(* The loop of RMUtil_GetRedisInfo has a result after every line. *)
LEMMA EntriesExist ==
  ASSUME NEW lines, NEW m \in Nat
  PROVE  \E f : Entries(lines, m, f)
<1> DEFINE S == {n \in Nat : \E f : Entries(lines, n, f)}
<1>1. 0 \in S
  <2> DEFINE f == [n \in 0 .. 0 |-> NoInfo]
  <2>1. f = [n \in 0 .. 0 |-> IF n = 0 THEN NoInfo ELSE Entered(f[n - 1], lines[n])]
    OBVIOUS
  <2> HIDE DEF f
  <2>2. Entries(lines, 0, f)
    BY <2>1 DEF Entries
  <2>3. QED
    BY <2>2
<1>2. ASSUME NEW n \in Nat, n \in S
      PROVE  n + 1 \in S
  <2>1. PICK f : Entries(lines, n, f)
    BY <1>2
  <2> DEFINE last == Entered(f[n], lines[n + 1])
             g == [k \in 0 .. n + 1 |-> IF k = n + 1 THEN last ELSE f[k]]
             h == [k \in 0 .. n + 1 |-> IF k = 0 THEN NoInfo ELSE Entered(g[k - 1], lines[k])]
  <2>2. \A k \in 0 .. n : f[k] = IF k = 0 THEN NoInfo ELSE Entered(f[k - 1], lines[k])
    BY <2>1 DEF Entries
  <2>3. ASSUME NEW k \in 0 .. n + 1
        PROVE  g[k] = h[k]
    <3>1. CASE k = n + 1
      <4>1. k # 0 /\ g[k] = last /\ g[k - 1] = f[n]
        BY <3>1
      <4>2. h[k] = Entered(g[k - 1], lines[k])
        BY <4>1
      <4>3. QED
        BY <3>1, <4>1, <4>2, Zenon
    <3>2. CASE k \in 0 .. n
      <4>1. g[k] = f[k] /\ (k # 0 => g[k - 1] = f[k - 1])
        BY <3>2
      <4>2. h[k] = IF k = 0 THEN NoInfo ELSE Entered(g[k - 1], lines[k])
        OBVIOUS
      <4>3. QED
        BY <2>2, <3>2, <4>1, <4>2, Zenon
    <3>3. QED
      BY <3>1, <3>2
  <2>4. g = h
    BY <2>3
  <2>5. Entries(lines, n + 1, g)
    BY <2>4 DEF Entries
  <2>6. QED
    BY <2>5
<1>3. QED
  <2> HIDE DEF S
  <2>1. m \in S
    BY <1>1, <1>2, SetInduction
  <2>2. QED
    BY <2>1 DEF S

(* The table t after n lines: room for one more entry, and the first entry *)
(* with a key is that of the lines.                                        *)
Tabled(lines, n, t) ==
  /\ DOMAIN t = {"lines", "entries", "cap", "overrun"}
  /\ t.entries \in Seq(Lines) /\ t.cap \in Nat /\ Len(t.entries) < t.cap /\ t.overrun = FALSE
  /\ \A key, x : key # "blank" =>
       (First(t.entries, Len(t.entries), key, x) <=> First(lines, n, key, x))

(* One more entry, when there was none with its key. *)
LEMMA FirstGrows ==
  ASSUME NEW seq, NEW n \in Nat, NEW key, NEW x
  PROVE  First(seq, n + 1, key, x) <=>
           \/ First(seq, n, key, x)
           \/ seq[n + 1] = x /\ x.key = key /\ \A j \in 1 .. n : seq[j].key # key
<1>1. \A i \in 1 .. n + 1 : i \in 1 .. n \/ i = n + 1
  OBVIOUS
<1>2. n + 1 \in 1 .. n + 1 /\ (n + 1) - 1 = n /\ \A i \in 1 .. n : i \in 1 .. n + 1
  OBVIOUS
<1>3. QED
  BY <1>1, <1>2 DEF First

(* Whether there is one. *)
LEMMA FirstIsThere ==
  ASSUME NEW seq, NEW n \in Nat, NEW key
  PROVE  (\A j \in 1 .. n : seq[j].key # key) <=> ~(\E x : First(seq, n, key, x))
<1>1. ASSUME NEW j \in 1 .. n, seq[j].key = key
      PROVE  \E x : First(seq, n, key, x)
  <2> DEFINE T == {i \in Nat : i \in 1 .. n /\ seq[i].key = key}
  <2>1. T \in SUBSET Nat /\ T # {}
    BY <1>1
  <2>2. PICK i \in T : \A k \in T : i <= k
    BY <2>1, LeastNatural
  <2>3. i \in 1 .. n /\ seq[i].key = key
    BY <2>2
  <2>4. \A k \in 1 .. i - 1 : seq[k].key # key
    <3>1. ASSUME NEW k \in 1 .. i - 1, seq[k].key = key
          PROVE  FALSE
      <4>1. k \in T /\ ~(i <= k)
        BY <2>3, <3>1
      <4>2. QED
        BY <2>2, <4>1
    <3>2. QED
      BY <3>1
  <2>5. First(seq, n, key, seq[i])
    BY <2>3, <2>4 DEF First
  <2>6. QED
    BY <2>5
<1>2. ASSUME NEW x, First(seq, n, key, x)
      PROVE  \E j \in 1 .. n : seq[j].key = key
  BY <1>2 DEF First
<1>3. QED
  BY <1>1, <1>2

(* Only the first n members matter. *)
LEMMA FirstOfAlike ==
  ASSUME NEW a, NEW b, NEW n \in Nat, \A i \in 1 .. n : a[i] = b[i], NEW key, NEW x
  PROVE  First(a, n, key, x) <=> First(b, n, key, x)
<1>1. \A i \in 1 .. n : \A j \in 1 .. i - 1 : j \in 1 .. n
  OBVIOUS
<1>2. QED
  BY <1>1 DEF First

(* A table with another entry, capacity and mark. *)
LEMMA TableUpdated ==
  ASSUME NEW t, DOMAIN t = {"lines", "entries", "cap", "overrun"}, NEW x, NEW y, NEW z,
         NEW u, u = [t EXCEPT !.entries = x, !.overrun = z, !.cap = y]
  PROVE  /\ DOMAIN u = {"lines", "entries", "cap", "overrun"}
         /\ u.entries = x /\ u.cap = y /\ u.overrun = z
  OBVIOUS

(* One line more: the table grows while there is still room. *)
LEMMA LineEntered ==
  ASSUME NEW lines, lines \in Seq(Lines), NEW n \in Nat, n + 1 <= Len(lines),
         NEW t, Tabled(lines, n, t), NEW u, u = Entered(t, lines[n + 1])
  PROVE  Tabled(lines, n + 1, u)
<1> DEFINE line == lines[n + 1]
           E == t.entries
           F == Append(E, line)
<1>1. /\ DOMAIN t = {"lines", "entries", "cap", "overrun"}
      /\ E \in Seq(Lines) /\ t.cap \in Nat /\ Len(E) < t.cap /\ t.overrun = FALSE /\ Len(E) \in Nat
  <2>1. /\ DOMAIN t = {"lines", "entries", "cap", "overrun"}
        /\ E \in Seq(Lines) /\ t.cap \in Nat /\ Len(E) < t.cap /\ t.overrun = FALSE
    BY Zenon DEF Tabled
  <2>2. Len(E) \in Nat
    BY ONLY <2>1
  <2>3. QED
    BY <2>1, <2>2
<1>2. \A key, x : key # "blank" => (First(E, Len(E), key, x) <=> First(lines, n, key, x))
  BY DEF Tabled
<1>3. \A key, x : First(lines, n + 1, key, x) <=>
           \/ First(lines, n, key, x)
           \/ line = x /\ x.key = key /\ \A j \in 1 .. n : lines[j].key # key
  BY FirstGrows
<1>4. line \in Lines
  OBVIOUS
<1> HIDE DEF line
<1>5. CASE line = Blank
  <2>1. u = t
    BY <1>5 DEF Entered, line
  <2>2. line.key = "blank"
    BY <1>5 DEF Blank
  <2>3. \A key, x : key # "blank" => (First(lines, n + 1, key, x) <=> First(lines, n, key, x))
    BY <1>3, <2>2
  <2>4. QED
    BY <1>1, <1>2, <2>1, <2>3 DEF Tabled
<1>6. CASE line # Blank
  <2> DEFINE m == Len(E) + 1
  <2>1. u = [t EXCEPT !.entries = F, !.overrun = t.overrun \/ m > t.cap,
                      !.cap = IF m >= t.cap THEN 2 * t.cap ELSE t.cap]
    BY <1>6 DEF Entered, line
  <2>2. ~(m > t.cap) /\ m \in Nat
    BY <1>1
  <2> DEFINE over == t.overrun \/ m > t.cap
             cap == IF m >= t.cap THEN 2 * t.cap ELSE t.cap
  <2>3. over = FALSE
    BY <1>1, <2>2
  <2>4. cap \in Nat /\ m < cap
    BY <1>1, <2>2
  <2>5. F \in Seq(Lines) /\ Len(F) = m /\ F[m] = line /\ \A i \in 1 .. Len(E) : F[i] = E[i]
    BY <1>1, <1>4
  <2>6. u = [t EXCEPT !.entries = F, !.overrun = over, !.cap = cap]
    BY <2>1
  <2> HIDE DEF F, over, cap
  <2>7. /\ DOMAIN u = {"lines", "entries", "cap", "overrun"}
        /\ u.entries = F /\ u.cap = cap /\ u.overrun = over
    BY <1>1, <2>6, TableUpdated
  <2>8. \A key, x : key # "blank" => (First(F, Len(F), key, x) <=> First(lines, n + 1, key, x))
    <3>1. SUFFICES ASSUME NEW key, NEW x, key # "blank"
                   PROVE  First(F, Len(E) + 1, key, x) <=> First(lines, n + 1, key, x)
      BY <2>5
    <3>2. First(F, Len(E) + 1, key, x) <=>
            \/ First(F, Len(E), key, x)
            \/ F[Len(E) + 1] = x /\ x.key = key /\ \A j \in 1 .. Len(E) : F[j].key # key
      <4>1. Len(E) \in Nat
        BY <1>1
      <4>2. QED
        BY <4>1, FirstGrows, Zenon
    <3>3. First(F, Len(E), key, x) <=> First(E, Len(E), key, x)
      BY <1>1, <2>5, FirstOfAlike
    <3>4. (\A j \in 1 .. Len(E) : F[j].key # key) <=> (\A j \in 1 .. Len(E) : E[j].key # key)
      BY <2>5
    <3>5. (\A j \in 1 .. Len(E) : E[j].key # key) <=> ~(\E y : First(E, Len(E), key, y))
      BY <1>1, FirstIsThere
    <3>6. (\A j \in 1 .. n : lines[j].key # key) <=> ~(\E y : First(lines, n, key, y))
      BY FirstIsThere
    <3>7. \A y : First(E, Len(E), key, y) <=> First(lines, n, key, y)
      BY <1>2, <3>1
    <3>8. F[Len(E) + 1] = line
      BY <2>5
    <3> HIDE DEF E
    <3>9. QED
      BY <1>3, <3>2, <3>3, <3>4, <3>5, <3>6, <3>7, <3>8
  <2>9. QED
    <3>2. u.overrun = FALSE
      BY <2>3, <2>7 DEF over
    <3>3. u.entries \in Seq(Lines) /\ u.cap \in Nat /\ Len(u.entries) < u.cap
      BY <2>4, <2>5, <2>7
    <3>4. QED
      BY <2>7, <2>8, <3>2, <3>3 DEF Tabled
<1>7. QED
  BY <1>5, <1>6

(* RMUtil_GetRedisInfo makes such a table of all lines. *)
LEMMA AllTabled ==
  ASSUME NEW lines, lines \in Seq(Lines)
  PROVE  Tabled(lines, Len(lines), Table(lines))
<1> DEFINE f == CHOOSE f : Entries(lines, Len(lines), f)
           L == Len(lines)
<1>1. L \in Nat
  OBVIOUS
<1>2. Entries(lines, Len(lines), f)
  BY <1>1, EntriesExist, Zenon
<1>3. Table(lines) = f[L]
  BY DEF Table, Entries
<1> HIDE DEF f
<1>4. \A n \in 0 .. L : f[n] = IF n = 0 THEN NoInfo ELSE Entered(f[n - 1], lines[n])
  BY <1>2 DEF Entries
<1> DEFINE S == {n \in Nat : n <= L => Tabled(lines, n, f[n])}
<1>5. 0 \in S
  <2>1. f[0] = NoInfo
    BY <1>1, <1>4
  <2>2. Tabled(lines, 0, NoInfo)
    <3>1. \A seq, key, x : ~First(seq, 0, key, x)
      BY DEF First
    <3>2. Len(NoInfo.entries) = 0
      BY DEF NoInfo
    <3>3. /\ NoInfo.lines = <<>> /\ NoInfo.entries = <<>> /\ NoInfo.cap = FirstCap
          /\ NoInfo.overrun = FALSE
      BY DEF NoInfo
    <3>4. NoInfo.entries \in Seq(Lines) /\ NoInfo.cap \in Nat /\ Len(NoInfo.entries) < NoInfo.cap
      BY <3>2, <3>3, ArgsAssumption
    <3>5. \A key, x : First(NoInfo.entries, Len(NoInfo.entries), key, x) <=> First(lines, 0, key, x)
      BY <3>1, <3>2
    <3>6. DOMAIN NoInfo = {"lines", "entries", "cap", "overrun"}
      BY DEF NoInfo
    <3> HIDE DEF NoInfo
    <3>7. QED
      BY <3>3, <3>4, <3>5, <3>6 DEF Tabled
  <2>3. QED
    BY <2>1, <2>2
<1>6. ASSUME NEW n \in Nat, n \in S
      PROVE  n + 1 \in S
  <2>1. SUFFICES ASSUME n + 1 <= L
                 PROVE  Tabled(lines, n + 1, f[n + 1])
    OBVIOUS
  <2>2. n + 1 \in 0 .. L /\ n + 1 # 0 /\ (n + 1) - 1 = n /\ n <= L
    BY <1>1, <2>1
  <2>3. f[n + 1] = Entered(f[n], lines[n + 1])
    BY <1>4, <2>2
  <2>4. Tabled(lines, n, f[n])
    BY <1>6, <2>2
  <2>5. QED
    BY <2>1, <2>3, <2>4, LineEntered
<1>7. L \in S
  <2> HIDE DEF S
  <2>1. QED
    BY <1>1, <1>5, <1>6, SetInduction
<1>8. QED
  BY <1>1, <1>3, <1>7

----------------------------------------------------------------------------
(* Finding a number. *)

(* RMUtilInfo_GetString finds the first entry with the key. *)
LEMMA StringFound ==
  ASSUME NEW key, Len(info.entries) \in Nat, NEW i, i = RMUtilInfo_GetString(key)
  PROVE  IF i = 0 THEN ~(\E x : First(info.entries, Len(info.entries), key, x))
         ELSE First(info.entries, Len(info.entries), key, info.entries[i])
<1> DEFINE E == info.entries
           T == {j \in 1 .. Len(E) : E[j].key = key}
<1>1. i = IF T # {} THEN Min(T) ELSE 0
  BY DEF RMUtilInfo_GetString, SelectInSeq
<1>2. CASE T = {}
  <2>1. i = 0
    BY <1>1, <1>2
  <2>2. \A j \in 1 .. Len(E) : E[j].key # key
    BY <1>2
  <2>3. QED
    BY <2>1, <2>2, FirstIsThere
<1>3. CASE T # {}
  <2>1. T \in SUBSET Nat
    OBVIOUS
  <2>2. \E j \in T : \A k \in T : j <= k
    BY <1>3, <2>1, LeastNatural
  <2>3. i \in T /\ \A k \in T : i <= k
    <3>1. i = CHOOSE j \in T : \A k \in T : j <= k
      BY <1>1, <1>3 DEF Min
    <3> HIDE DEF T
    <3>2. QED
      BY <2>2, <3>1, Zenon
  <2>4. i \in 1 .. Len(E) /\ E[i].key = key /\ i # 0
    BY <2>3
  <2>5. ASSUME NEW k \in 1 .. i - 1
        PROVE  E[k].key # key
    <3>1. k \in 1 .. Len(E) /\ ~(i <= k)
      BY <2>4
    <3>2. k \notin T
      BY <2>3, <3>1
    <3>3. QED
      BY <3>1, <3>2
  <2>6. First(E, Len(E), key, E[i])
    BY <2>4, <2>5 DEF First
  <2>7. QED
    BY <2>4, <2>6
<1>4. QED
  BY <1>2, <1>3

(* There is one first entry only. *)
LEMMA FirstIsOne ==
  ASSUME NEW seq, NEW n \in Nat, NEW key, NEW x, NEW y,
         First(seq, n, key, x), First(seq, n, key, y)
  PROVE  x = y
<1>1. PICK i \in 1 .. n : seq[i] = x /\ x.key = key /\ \A j \in 1 .. i - 1 : seq[j].key # key
  BY DEF First
<1>2. PICK k \in 1 .. n : seq[k] = y /\ y.key = key /\ \A j \in 1 .. k - 1 : seq[j].key # key
  BY DEF First
<1>3. ~(i < k) /\ ~(k < i)
  <2>1. ASSUME i < k
        PROVE  FALSE
    <3>1. i \in 1 .. k - 1
      BY <2>1
    <3>2. QED
      BY <1>1, <1>2, <3>1
  <2>2. ASSUME k < i
        PROVE  FALSE
    <3>1. k \in 1 .. i - 1
      BY <2>2
    <3>2. QED
      BY <1>1, <1>2, <3>1
  <2>3. QED
    BY <2>1, <2>2
<1>4. QED
  BY <1>1, <1>2, <1>3

(* What GetInt does not find, given errno before it: a number that does    *)
(* not fit, and one that the errno makes a failure of.                     *)
Refused(says, before) ==
  \/ ~(LongMin <= says.leads /\ says.leads <= LongMax)
  \/ before # "0" /\ says.leads = 0
  \/ before = "ERANGE" /\ says.leads \in {LongMin, LongMax}

(* A number that is read as it is, and one that is not: what is beyond a   *)
(* limit comes back as that limit with ERANGE and fails; what fits comes   *)
(* back as it is, with the errno that was there.                           *)
LEMMA NumberRead ==
  ASSUME NEW says, says.leads \in Int, NEW before, NEW n, n = strtoll(says, before)
  PROVE  /\ Failed(n) <=> Refused(says, before)
         /\ ~Failed(n) => n.val = says.leads
<1> DEFINE m == says.leads
<1>1. m \in Int /\ LongMax \in Int /\ LongMin \in Int /\ LongMin < 0 /\ 0 < LongMax
  BY ArgsAssumption DEF LongMin
<1>2. CASE m > LongMax
  <2>1. n = [val |-> LongMax, errno |-> "ERANGE"]
    BY <1>1, <1>2 DEF strtoll
  <2>2. Failed(n)
    BY <2>1 DEF Failed
  <2>3. Refused(says, before)
    BY <1>1, <1>2 DEF Refused
  <2>4. QED
    BY <2>2, <2>3
<1>3. CASE m < LongMin
  <2>1. n = [val |-> LongMin, errno |-> "ERANGE"]
    BY <1>1, <1>3 DEF strtoll
  <2>2. Failed(n)
    BY <2>1 DEF Failed
  <2>3. Refused(says, before)
    BY <1>1, <1>3 DEF Refused
  <2>4. QED
    BY <2>2, <2>3
<1>4. CASE LongMin <= m /\ m <= LongMax
  <2>1. ~(m > LongMax) /\ ~(m < LongMin)
    BY <1>1, <1>4
  <2>2. n = [val |-> m, errno |-> before]
    BY <2>1 DEF strtoll
  <2>3. n.val = m /\ n.errno = before
    BY <2>2
  <2>4. Failed(n) <=> (before = "ERANGE" /\ m \in {LongMin, LongMax}) \/ (before # "0" /\ m = 0)
    BY <2>3 DEF Failed
  <2>5. Refused(says, before)
          <=> (before = "ERANGE" /\ m \in {LongMin, LongMax}) \/ (before # "0" /\ m = 0)
    BY <1>4 DEF Refused
  <2>6. QED
    BY <2>3, <2>4, <2>5
<1>5. QED
  BY <1>1, <1>2, <1>3, <1>4

(* What a line of INFO says leads with a number. *)
LEMMA LineSays ==
  ASSUME NEW line, line \in Lines
  PROVE  line.says.leads \in Int /\ line.key # "none"
<1>1. CASE line = Blank
  <2>1. Blank.says.leads = 0 /\ Blank.key = "blank"
    BY DEF Blank
  <2>2. QED
    BY <1>1, <2>1
<1>2. CASE line \in [key : {"k1", "k2"}, says : InfoValue]
  <2>1. line.key \in {"k1", "k2"} /\ line.says \in InfoValue
    BY <1>2
  <2>2. line.says \in [leads : Int, whole : BOOLEAN]
    BY <2>1, InfoValueAssumption
  <2>3. QED
    BY <2>1, <2>2
<1>3. QED
  BY <1>1, <1>2 DEF Lines

----------------------------------------------------------------------------
(* The helpers' invariant. *)

(* What the last GetInt got is right. *)
GotRight(lines, g) ==
  /\ g.ok => \E x : First(lines, Len(lines), g.key, x)
  /\ \A x : First(lines, Len(lines), g.key, x) =>
       /\ g.ok <=> ~Refused(x.says, g.before)
       /\ g.ok => g.val = x.says.leads
       /\ ~g.ok => g.val = -1

(* Before INFO is asked for, and after. *)
Unread == info = NoInfo /\ got.key = "none" /\ got.ok = FALSE
Read == /\ info.lines \in Seq(Lines) /\ info.lines # <<>>
        /\ Tabled(info.lines, Len(info.lines), info)
        /\ GotRight(info.lines, got)

ArgInv ==
  /\ argv \in Seq(Word) /\ path \in Seq(Int)
  /\ DOMAIN out = 1 .. MaxFormat /\ ParsesFormat
  /\ Unread \/ Read

(* The table and the last lookup are as the run checks them. *)
LEMMA ReadIsRead == Unread \/ Read => InfoIsRead
<1>1. CASE Unread
  <2>1. info.lines = <<>> /\ info.overrun = FALSE /\ got.ok = FALSE
    BY <1>1 DEF Unread, NoInfo
  <2>2. DOMAIN info.lines = {}
    BY <2>1
  <2>3. QED
    BY <2>1, <2>2 DEF InfoIsRead
<1>2. CASE Read
  <2>1. info.lines \in Seq(Lines) /\ info.overrun = FALSE /\ GotRight(info.lines, got)
    BY <1>2 DEF Read, Tabled
  <2>2. DOMAIN info.lines = 1 .. Len(info.lines)
    BY <2>1
  <2>3. got.ok => \E i \in DOMAIN info.lines : FirstLine(i)
    <3>1. SUFFICES ASSUME got.ok
                   PROVE  \E i \in DOMAIN info.lines : FirstLine(i)
      OBVIOUS
    <3>2. PICK x : First(info.lines, Len(info.lines), got.key, x)
      BY <2>1, <3>1 DEF GotRight
    <3>3. QED
      BY <2>2, <3>2 DEF First, FirstLine
  <2>4. ASSUME NEW i \in DOMAIN info.lines, FirstLine(i), NEW says, says = info.lines[i].says
        PROVE  /\ got.ok <=> (AnInteger(says) \/ PassedOff(says)) /\ ~Mistrusted(says)
               /\ got.val = IF got.ok THEN says.leads ELSE -1
    <3>1. First(info.lines, Len(info.lines), got.key, info.lines[i])
      BY <2>2, <2>4 DEF First, FirstLine
    <3>2. /\ got.ok <=> ~Refused(says, got.before)
          /\ got.ok => got.val = says.leads
          /\ ~got.ok => got.val = -1
      BY <2>1, <2>4, <3>1 DEF GotRight
    <3>3. says.leads \in Int
      <4>1. info.lines[i] \in Lines
        BY <2>1, <2>2
      <4>2. QED
        BY <2>4, <4>1, LineSays
    <3>4. LongMin \in Int /\ LongMax \in Int
      BY ArgsAssumption DEF LongMin
    <3>5. LongMin <= says.leads /\ says.leads <= LongMax <=> says.leads \in LongMin .. LongMax
      BY <3>3, <3>4
    <3>6. Refused(says, got.before)
            <=> ~(LongMin <= says.leads /\ says.leads <= LongMax) \/ Mistrusted(says)
      BY DEF Refused, Mistrusted
    <3>7. AnInteger(says) \/ PassedOff(says) <=> says.leads \in LongMin .. LongMax
      BY Zenon DEF AnInteger, PassedOff
    <3>8. QED
      BY <3>2, <3>5, <3>6, <3>7, Zenon
  <2>5. QED
    BY <2>1, <2>3, <2>4, Zenon DEF InfoIsRead
<1>3. QED
  BY <1>1, <1>2

(* RMUtil_GetRedisInfo fills the table; nothing has been looked up in it. *)
LEMMA InfoStep ==
  ASSUME Unread \/ Read, info = NoInfo, NEW lines \in Texts, RMUtil_GetRedisInfo(lines)
  PROVE  Read'
<1>1. Unread
  BY DEF Read, NoInfo
<1>2. lines \in Seq(Lines) /\ lines # <<>>
  <2>1. PICK n \in 1 .. MaxLines : lines \in [1 .. n -> Lines]
    BY DEF Texts
  <2>2. n \in Nat /\ n # 0
    BY <2>1
  <2>3. lines \in Seq(Lines) /\ Len(lines) = n
    BY <2>1, <2>2
  <2>4. QED
    BY <2>2, <2>3
<1> DEFINE t == Table(lines)
<1>3. Tabled(lines, Len(lines), t)
  BY <1>2, AllTabled
<1>4. info' = [t EXCEPT !.lines = lines] /\ got' = got
  BY DEF RMUtil_GetRedisInfo
<1> HIDE DEF t
<1>5. /\ DOMAIN info' = {"lines", "entries", "cap", "overrun"} /\ info'.lines = lines
      /\ info'.entries = t.entries /\ info'.cap = t.cap /\ info'.overrun = t.overrun
  <2>1. DOMAIN t = {"lines", "entries", "cap", "overrun"}
    BY <1>3 DEF Tabled
  <2>2. QED
    BY <1>4, <2>1
<1>6. Tabled(lines, Len(lines), info')
  BY <1>3, <1>5 DEF Tabled
<1>7. GotRight(lines, got)
  <2>1. \A x : ~First(lines, Len(lines), "none", x)
    <3>1. SUFFICES ASSUME NEW x, First(lines, Len(lines), "none", x)
                   PROVE  FALSE
      OBVIOUS
    <3>2. x \in Lines /\ x.key = "none"
      BY <1>2, <3>1 DEF First
    <3>3. QED
      BY <3>2, LineSays
  <2>2. got.key = "none" /\ ~got.ok
    BY <1>1 DEF Unread
  <2>3. QED
    BY <2>1, <2>2 DEF GotRight
<1>8. QED
  BY <1>2, <1>4, <1>5, <1>6, <1>7 DEF Read

(* RMUtilInfo_GetInt is right about what it finds, and does not find. *)
LEMMA GetIntStep ==
  ASSUME Unread \/ Read, NEW key \in {"k1", "k2"}, RMUtilInfo_GetInt(key)
  PROVE  Read'
<1> DEFINE i == RMUtilInfo_GetString(key)
           n == strtoll(info.entries[i].says, errno)
           L == info.lines
           E == info.entries
<1>1. info.lines # <<>> /\ info' = info
  BY DEF RMUtilInfo_GetInt
<1>2. Read
  BY <1>1 DEF Unread, NoInfo
<1>3. /\ L \in Seq(Lines) /\ E \in Seq(Lines) /\ Len(E) \in Nat
      /\ \A x : First(E, Len(E), key, x) <=> First(L, Len(L), key, x)
  <2>1. L \in Seq(Lines) /\ Tabled(L, Len(L), info) /\ key # "blank"
    BY <1>2 DEF Read
  <2>2. E \in Seq(Lines) /\ \A x : First(E, Len(E), key, x) <=> First(L, Len(L), key, x)
    BY <2>1 DEF Tabled
  <2>3. Len(E) \in Nat
    BY <2>2
  <2>4. QED
    BY <2>1, <2>2, <2>3
<1>4. IF i = 0 THEN ~(\E x : First(E, Len(E), key, x)) ELSE First(E, Len(E), key, E[i])
  BY <1>3, StringFound
<1>5. GotRight(L, got')
  <2>1. CASE i = 0
    <3>1. got' = [key |-> key, before |-> errno, ok |-> FALSE, val |-> got.val]
      BY <2>1 DEF RMUtilInfo_GetInt
    <3>2. got'.key = key /\ ~got'.ok
      BY <3>1
    <3>3. \A x : ~First(L, Len(L), key, x)
      BY <1>3, <1>4, <2>1
    <3> HIDE DEF L
    <3>4. QED
      BY <3>2, <3>3 DEF GotRight
  <2>2. CASE i # 0
    <3> DEFINE failed == Failed(n)
               x == E[i]
    <3>1. got' = [key |-> key, before |-> errno, ok |-> ~failed, val |-> IF failed THEN -1 ELSE n.val]
      BY <2>2 DEF RMUtilInfo_GetInt
    <3>2. First(L, Len(L), key, x)
      BY <1>3, <1>4, <2>2
    <3>3. x.says.leads \in Int
      <4>1. x \in Lines
        BY <1>3, <3>2 DEF First
      <4>2. QED
        BY <4>1, LineSays
    <3>4. /\ failed <=> Refused(x.says, errno)
          /\ ~failed => n.val = x.says.leads
      BY <3>3, NumberRead
    <3>5. \A y : First(L, Len(L), key, y) => y = x
      <4>1. Len(L) \in Nat
        BY <1>3
      <4>2. QED
        BY <3>2, <4>1, FirstIsOne
    <3> HIDE DEF failed, x, L, n
    <3>6. got'.key = key /\ got'.before = errno /\ got'.ok = ~failed
      BY <3>1
    <3>7. /\ ~failed => got'.val = n.val
          /\ failed => got'.val = -1
      BY <3>1
    <3>8. QED
      <4>1. got'.ok <=> ~failed
        BY <3>6, Zenon
      <4>2. \E y : First(L, Len(L), key, y)
        BY <3>2, Zenon
      <4>3. ASSUME NEW y, First(L, Len(L), key, y)
            PROVE  /\ got'.ok <=> ~Refused(y.says, errno)
                   /\ got'.ok => got'.val = y.says.leads
                   /\ ~got'.ok => got'.val = -1
        <5>1. y = x
          BY <3>5, <4>3, Zenon
        <5>2. QED
          BY <3>4, <3>7, <4>1, <5>1, Zenon
      <4>4. QED
        BY <3>6, <4>2, <4>3, Zenon DEF GotRight
  <2>3. QED
    BY <2>1, <2>2
<1>6. Tabled(L, Len(L), info) /\ L \in Seq(Lines) /\ L # <<>>
  BY <1>2 DEF Read
<1>7. QED
  BY <1>1, <1>5, <1>6 DEF Read

(* A parse leaves the variables as they should be. *)
LEMMA ParseStep ==
  ASSUME argv \in Seq(Word), DOMAIN out = 1 .. MaxFormat, NEW offset \in Nat, NEW fmt \in Formats,
         vparseArgs(offset, fmt), argv' = argv
  PROVE  DOMAIN out' = 1 .. MaxFormat /\ ParsesFormat'
<1> DEFINE x == Parsed(offset, fmt)
           L == Len(fmt)
<1>1. fmt \in Seq(Letter) /\ L \in Nat /\ L <= MaxFormat /\ DOMAIN fmt = 1 .. L
  <2>1. PICK n \in 1 .. MaxFormat : fmt \in [1 .. n -> Letter]
    BY DEF Formats
  <2>2. n \in Nat /\ n <= MaxFormat
    BY <2>1, ArgsAssumption
  <2>3. fmt \in Seq(Letter) /\ Len(fmt) = n
    BY <2>1, <2>2
  <2>4. QED
    BY <2>2, <2>3
<1>2. Parsing(offset, fmt, L, x)
  BY <1>1, ParsedFits
<1>3. /\ parse' = [found |-> TRUE, offset |-> offset, fmt |-> fmt]
      /\ rc' = IF x.ok THEN "OK" ELSE "ERR"
      /\ out' = [k \in DOMAIN out |-> IF k \in DOMAIN x.vars THEN x.vars[k] ELSE out[k]]
  BY DEF vparseArgs
<1> HIDE DEF x
<1>4. DOMAIN out' = 1 .. MaxFormat
  BY <1>3
<1>5. parse'.found = TRUE /\ parse'.offset = offset /\ parse'.fmt = fmt
  BY <1>3
<1> DEFINE fits == \A n \in DOMAIN fmt : offset + n <= Len(argv) /\ Converts(argv[offset + n], fmt[n])
<1>6. x.ok <=> fits
  BY <1>1, <1>2 DEF Parsing, Fitting
<1>7. rc' = "OK" <=> fits
  BY <1>3, <1>6
<1>8. ASSUME fits, NEW n \in DOMAIN fmt, fmt[n] # "*"
      PROVE  out'[Place(fmt, n)] = <<fmt[n], argv[offset + n]>>
  <2>1. x.ok
    BY <1>6, <1>8
  <2>2. Place(fmt, n) \in 1 .. Len(x.vars) /\ x.vars[Place(fmt, n)] = <<fmt[n], argv[offset + n]>>
    BY <1>1, <1>2, <1>8, <2>1 DEF Parsing
  <2>3. x.vars \in Seq(Letter \X Word) /\ Len(x.vars) <= L
    BY <1>2 DEF Parsing
  <2>4. Place(fmt, n) \in DOMAIN x.vars /\ Place(fmt, n) \in DOMAIN out
    BY <1>1, <2>2, <2>3, ArgsAssumption
  <2>5. QED
    BY <1>3, <2>2, <2>4
<1> HIDE DEF fits
<1>9. QED
  BY <1>4, <1>5, <1>7, <1>8, Zenon DEF ParsesFormat, Place, fits

----------------------------------------------------------------------------
(* Every call. *)

(* RMUtil_ArgExists finds a token, unless it is the command's name. *)
LEMMA TokenFound ==
  ASSUME argv \in Seq(Word), NEW pos, pos = RMUtil_ArgExists("token", 0)
  PROVE  /\ pos \in Nat
         /\ pos = 0 => argv[1] = "token" \/ \A i \in 2 .. Len(argv) : argv[i] # "token"
<1> DEFINE At(i) == argv[i + 1] = "token"
           T == {i \in Nat : i \in 0 .. Len(argv) - 1 /\ At(i)}
<1>1. Len(argv) \in Nat
  OBVIOUS
<1>2. CASE \E i \in 0 .. Len(argv) - 1 : At(i)
  <2>1. pos = CHOOSE i \in 0 .. Len(argv) - 1 : At(i) /\ \A j \in 0 .. i - 1 : ~At(j)
    BY <1>2, Zenon DEF RMUtil_ArgExists
  <2>2. T \in SUBSET Nat /\ T # {}
    <3>1. PICK i \in 0 .. Len(argv) - 1 : At(i)
      BY <1>2
    <3>2. i \in Nat
      BY <1>1
    <3> HIDE DEF At
    <3>3. QED
      BY <3>1, <3>2
  <2>3. PICK i \in T : \A j \in T : i <= j
    BY <2>2, LeastNatural
  <2>4. i \in 0 .. Len(argv) - 1 /\ At(i) /\ \A j \in 0 .. i - 1 : ~At(j)
    <3>1. i \in 0 .. Len(argv) - 1 /\ At(i)
      BY <2>3
    <3>2. ASSUME NEW j \in 0 .. i - 1, At(j)
          PROVE  FALSE
      <4>1. j \in T /\ ~(i <= j)
        BY <1>1, <3>1, <3>2
      <4>2. QED
        BY <2>3, <4>1
    <3>3. QED
      BY <3>1, <3>2
  <2> HIDE DEF At
  <2>5. pos \in 0 .. Len(argv) - 1 /\ At(pos)
    BY <2>1, <2>4, Zenon
  <2>6. pos = 0 => argv[0 + 1] = "token"
    BY <2>5 DEF At
  <2>7. QED
    BY <1>1, <2>5, <2>6
<1>3. CASE ~(\E i \in 0 .. Len(argv) - 1 : At(i))
  <2>1. pos = 0
    BY <1>3 DEF RMUtil_ArgExists
  <2>2. ASSUME NEW i \in 2 .. Len(argv)
        PROVE  argv[i] # "token"
    <3>1. i - 1 \in 0 .. Len(argv) - 1 /\ (i - 1) + 1 = i
      BY <1>1
    <3>2. ~At(i - 1)
      BY <1>3, <3>1
    <3>3. QED
      BY <3>1, <3>2
  <2>3. QED
    BY <2>1, <2>2
<1>4. QED
  BY <1>2, <1>3

(* RMUtil_ParseArgsAfter parses behind the token, or finds none and leaves *)
(* the variables.                                                          *)
LEMMA AfterStep ==
  ASSUME argv \in Seq(Word), DOMAIN out = 1 .. MaxFormat, NEW fmt \in Formats,
         RMUtil_ParseArgsAfter("token", fmt)
  PROVE  DOMAIN out' = 1 .. MaxFormat /\ ParsesFormat'
<1> DEFINE pos == RMUtil_ArgExists("token", 0)
<1>1. argv' = argv
  BY DEF RMUtil_ParseArgsAfter
<1>2. /\ pos \in Nat
      /\ pos = 0 => argv[1] = "token" \/ \A i \in 2 .. Len(argv) : argv[i] # "token"
  BY TokenFound
<1>3. CASE pos = 0
  <2>1. rc' = "ERR" /\ parse' = [found |-> FALSE, offset |-> 0, fmt |-> fmt] /\ out' = out
    BY <1>3 DEF RMUtil_ParseArgsAfter
  <2>2. parse'.found = FALSE
    BY <2>1
  <2>3. argv'[1] = "token" \/ \A i \in 2 .. Len(argv') : argv'[i] # "token"
    BY <1>1, <1>2, <1>3
  <2>4. ParsesFormat'
    BY <2>1, <2>2, <2>3, Zenon DEF ParsesFormat
  <2>5. QED
    BY <2>1, <2>4
<1>4. CASE pos # 0
  <2>1. vparseArgs(pos + 1, fmt) /\ pos + 1 \in Nat
    BY <1>2, <1>4 DEF RMUtil_ParseArgsAfter
  <2> HIDE DEF pos
  <2>2. QED
    BY <1>1, <2>1, ParseStep
<1>5. QED
  BY <1>3, <1>4

(* Nothing has been parsed, asked for or walked. *)
LEMMA ArgInitInv == ArgInit => ArgInv
<1>1. SUFFICES ASSUME ArgInit
               PROVE  ArgInv
  OBVIOUS
<1>2. argv = <<>> /\ path = <<>> /\ rc = "none" /\ info = NoInfo
  BY <1>1 DEF ArgInit
<1>3. DOMAIN out = 1 .. MaxFormat
  BY <1>1 DEF ArgInit
<1>4. got.key = "none" /\ got.ok = FALSE
  BY <1>1 DEF ArgInit
<1>5. argv \in Seq(Word) /\ path \in Seq(Int)
  BY <1>2
<1>6. ParsesFormat
  BY <1>2, Zenon DEF ParsesFormat
<1>7. QED
  BY <1>2, <1>3, <1>4, <1>5, <1>6 DEF ArgInv, Unread

(* Every call keeps the invariant. *)
LEMMA ArgStepInv == ArgInv /\ [ArgNext]_arg => ArgInv'
<1>1. SUFFICES ASSUME ArgInv, [ArgNext]_arg
               PROVE  ArgInv'
  OBVIOUS
<1> DEFINE Inform == Unread \/ Read
           Parses == DOMAIN out = 1 .. MaxFormat /\ ParsesFormat
<1>2. argv \in Seq(Word) /\ path \in Seq(Int) /\ Parses /\ Inform
  BY <1>1 DEF ArgInv
<1>3. UNCHANGED <<argv, parse, out, rc>> => Parses'
  BY <1>2, Zenon DEF ParsesFormat
<1>4. UNCHANGED <<info, got>> => Inform'
  <2>1. SUFFICES ASSUME info' = info, got' = got
                 PROVE  Inform'
    OBVIOUS
  <2>2. Unread => Unread'
    BY <2>1 DEF Unread
  <2>3. Tabled(info.lines, Len(info.lines), info)
          => Tabled(info'.lines, Len(info'.lines), info')
    BY <2>1
  <2>4. GotRight(info.lines, got) => GotRight(info'.lines, got')
    BY <2>1
  <2>5. Read => Read'
    BY <2>1, <2>3, <2>4 DEF Read
  <2>6. QED
    BY <1>2, <2>2, <2>5
<1>5. argv' = argv => argv' \in Seq(Word)
  BY <1>2
<1>6. path' = path => path' \in Seq(Int)
  BY <1>2
<1> HIDE DEF Parses, Inform
<1>7. CASE NextArgument
  <2>1. rc' = "none" /\ out' = out
    BY <1>7 DEF NextArgument
  <2>2. Parses'
    BY <1>2, <2>1, Zenon DEF Parses, ParsesFormat
  <2>3. argv' \in Seq(Word) /\ path' = path /\ UNCHANGED <<info, got>>
    BY <1>2, <1>7 DEF NextArgument
  <2>4. QED
    BY <1>4, <1>6, <2>2, <2>3 DEF ArgInv, Parses, Inform
<1>8. ASSUME NEW fmt \in Formats, NEW offset \in 0 .. Len(argv) - 1, RMUtil_ParseArgs(offset, fmt)
      PROVE  ArgInv'
  <2>1. vparseArgs(offset, fmt) /\ UNCHANGED <<argv, info, errno, got, path>>
    BY <1>8 DEF RMUtil_ParseArgs
  <2>2. offset \in Nat
    BY <1>8
  <2>3. Parses'
    BY <1>2, <2>1, <2>2, ParseStep DEF Parses
  <2>4. QED
    BY <1>4, <1>5, <1>6, <2>1, <2>3 DEF ArgInv, Parses, Inform
<1>9. ASSUME NEW fmt \in Formats, RMUtil_ParseArgsAfter("token", fmt)
      PROVE  ArgInv'
  <2>1. UNCHANGED <<argv, info, errno, got, path>>
    BY <1>9 DEF RMUtil_ParseArgsAfter
  <2>2. Parses'
    BY <1>2, <1>9, AfterStep DEF Parses
  <2>3. QED
    BY <1>4, <1>5, <1>6, <2>1, <2>2 DEF ArgInv, Parses, Inform
<1>10. ASSUME info = NoInfo, NEW lines \in Texts, RMUtil_GetRedisInfo(lines)
       PROVE  ArgInv'
  <2>1. UNCHANGED <<argv, parse, out, rc, errno, got, path>>
    BY <1>10 DEF RMUtil_GetRedisInfo
  <2>2. Inform'
    BY <1>2, <1>10, InfoStep DEF Inform
  <2>3. QED
    BY <1>3, <1>5, <1>6, <2>1, <2>2 DEF ArgInv, Parses, Inform
<1>11. ASSUME NEW key \in {"k1", "k2"}, RMUtilInfo_GetInt(key)
       PROVE  ArgInv'
  <2>1. UNCHANGED <<argv, parse, out, rc, info, path>>
    BY <1>11 DEF RMUtilInfo_GetInt
  <2>2. Inform'
    BY <1>2, <1>11, GetIntStep DEF Inform
  <2>3. QED
    BY <1>3, <1>5, <1>6, <2>1, <2>2 DEF ArgInv, Parses, Inform
<1>12. CASE Elsewhere
  <2>1. UNCHANGED <<argv, parse, out, rc, info, got, path>>
    BY <1>12 DEF Elsewhere
  <2>2. QED
    BY <1>3, <1>4, <1>5, <1>6, <2>1 DEF ArgInv, Parses, Inform
<1>13. CASE NextStep
  <2>1. UNCHANGED <<argv, parse, out, rc, info, errno, got>>
    BY <1>13 DEF NextStep
  <2>2. path' \in Seq(Int)
    <3>1. PICK idx \in {Junk, 0, 1, 2} : path' = Append(path, idx)
      BY <1>13 DEF NextStep
    <3>2. idx \in Int
      BY <3>1 DEF Junk
    <3>3. QED
      BY <1>2, <3>1, <3>2
  <2>3. QED
    BY <1>3, <1>4, <1>5, <2>1, <2>2 DEF ArgInv, Parses, Inform
<1>14. CASE UNCHANGED arg
  BY <1>3, <1>4, <1>5, <1>6, <1>14 DEF ArgInv, Parses, Inform, arg
<1>15. QED
  BY <1>1, <1>7, <1>8, <1>9, <1>10, <1>11, <1>12, <1>13, <1>14 DEF ArgNext

(* A parse succeeds exactly when every letter of the format has an         *)
(* argument that converts to it, and leaves each argument in the variable  *)
(* of its letter, skipped ones taking none (util.c:130-196).               *)
THEOREM ParsesFollowTheFormat == ArgSpec => []ParsesFormat
<1>1. ArgInv => ParsesFormat
  BY DEF ArgInv
<1>2. QED
  BY <1>1, ArgInitInv, ArgStepInv, PTL DEF ArgSpec

(* However long INFO is and whatever its values are, no entry is written   *)
(* behind the table, and RMUtilInfo_GetInt gives the number that the first *)
(* value with the key begins with, 0 for a text that begins with none; it  *)
(* fails on a number that fits exactly when errno was left set before and  *)
(* makes a failure of that number (util.c:28-102).                         *)
THEOREM InfoIsReadRight == ArgSpec => []InfoIsRead
<1>1. ArgInv => InfoIsRead
  BY ReadIsRead DEF ArgInv
<1>2. QED
  BY <1>1, ArgInitInv, ArgStepInv, PTL DEF ArgSpec

(* Walking a path into a reply and then another is walking both at once,   *)
(* and one step is the element of that number (util.c:198-223).            *)
THEOREM PathsLeadOn == ArgSpec => []PathsCompose
<1>1. ArgInv => PathsCompose
  BY PathsSound DEF ArgInv
<1>2. QED
  BY <1>1, ArgInitInv, ArgStepInv, PTL DEF ArgSpec

=============================================================================
