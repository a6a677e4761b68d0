-------------------------- MODULE FoundationsProofs -------------------------
(***************************************************************************)
(* What Dehydrator takes for granted of the code below the commands,       *)
(* proved for all values of the constants.                                 *)
(*                                                                         *)
(* First the linked lists of ElementList: what the pointers lead through   *)
(* is the queue TimeoutQueues writes as a sequence, and every list         *)
(* function does to the pointers what the abstract operation does to the   *)
(* sequence.  Then the hash maps of KHash: every search ends, a lookup     *)
(* finds exactly what was put, and a rehashing in place moves every entry  *)
(* once.  Last the ids of GidPush: random_at_most stays in its interval    *)
(* and favours no number of it, and an id has ID_LENGTH characters of the  *)
(* alphabet.                                                               *)
(***************************************************************************)
EXTENDS ElementList, KHash, GidPush, BasicLemmas

----------------------------------------------------------------------------
(* The lists. *)

(* The node at position i of a list that holds the sequence c. *)
NodeOf(t, c, i) ==
  [ttl  |-> t,
   next |-> IF i = Len(c) THEN NULL ELSE c[i + 1],
   prev |-> IF i = 1 THEN NULL ELSE c[i - 1]]

ListOf(c) ==
  [head |-> IF c = <<>> THEN NULL ELSE c[1],
   tail |-> IF c = <<>> THEN NULL ELSE c[Len(c)],
   len  |-> Len(c)]

(* A list and a memory that hold the sequence c. *)
ListHolds(list, mem, t, c) ==
  /\ DOMAIN mem \subseteq Addr
  /\ c \in Seq(DOMAIN mem) /\ IsInjective(c)
  /\ list = ListOf(c)
  /\ \A i \in 1 .. Len(c) : mem[c[i]] = NodeOf(t, c, i)

----------------------------------------------------------------------------
(* Walk reads the sequence from the pointers. *)

WalkStep(list, mem, f) ==
  [k \in 1 .. Cardinality(Addr) + 1 |->
     IF k = 1 THEN list.head
     ELSE IF f[k - 1] = NULL THEN NULL
     ELSE mem[f[k - 1]].next]

Walked(list, mem) == CHOOSE f : f = WalkStep(list, mem, f)

(* Walk, with its recursive function named.                                *)
LEMMA WalkIsWalked ==
  ASSUME NEW list, NEW mem
  PROVE  Walk(list, mem) =
           [k \in {k \in DOMAIN Walked(list, mem) : Walked(list, mem)[k] # NULL} |->
              Walked(list, mem)[k]]
  BY Zenon DEF Walk, Walked, WalkStep

(* A list is never longer than the memory.                                 *)
LEMMA HeldFits ==
  ASSUME IsFiniteSet(Addr), NEW list, NEW mem, NEW t, NEW c, ListHolds(list, mem, t, c)
  PROVE  /\ Cardinality(Addr) \in Nat
         /\ Len(c) \in Nat /\ Len(c) <= Cardinality(Addr)
         /\ DOMAIN c = 1 .. Len(c)
         /\ \A i \in 1 .. Len(c) : c[i] \in DOMAIN mem /\ c[i] \in Addr /\ c[i] # NULL
<1>1. c \in Seq(Addr) /\ IsInjective(c)
  BY DEF ListHolds
<1>2. Cardinality(Range(c)) = Len(c)
  BY <1>1, InjectiveSeqCounts
<1>3. Range(c) \subseteq Addr
  BY <1>1 DEF Range
<1>4. Cardinality(Range(c)) <= Cardinality(Addr) /\ Cardinality(Addr) \in Nat
  BY <1>3, FS_Subset, FS_CardinalityType
<1>5. QED
  BY <1>1, <1>2, <1>4, NullAssumption DEF ListHolds

(* Following next from the head meets the chain and ends.                  *)
LEMMA WalkReads ==
  ASSUME IsFiniteSet(Addr), NEW list, NEW mem, NEW t, NEW c, ListHolds(list, mem, t, c)
  PROVE  Walk(list, mem) = c
<1> DEFINE N == Cardinality(Addr) + 1
           n == Len(c)
           at(k) == IF k <= n THEN c[k] ELSE NULL
           f == Walked(list, mem)
           g == [k \in 1 .. N |-> at(k)]
<1>1. /\ N \in Nat /\ n \in Nat /\ n < N
      /\ DOMAIN c = 1 .. n
      /\ \A i \in 1 .. n : c[i] # NULL
  BY HeldFits
<1>2. list.head = at(1)
  BY <1>1 DEF ListHolds, ListOf
<1>3. ASSUME NEW k \in 2 .. N
      PROVE  at(k) = IF at(k - 1) = NULL THEN NULL ELSE mem[at(k - 1)].next
  <2>1. CASE k - 1 <= n
    <3>1. k - 1 \in 1 .. n /\ (k - 1) + 1 = k
      BY <1>1, <2>1
    <3>2. mem[c[k - 1]] = NodeOf(t, c, k - 1)
      BY <3>1 DEF ListHolds
    <3>3. mem[c[k - 1]].next = IF k - 1 = n THEN NULL ELSE c[k]
      BY <3>1, <3>2 DEF NodeOf
    <3>4. QED
      BY <1>1, <3>1, <3>3
  <2>2. CASE ~ (k - 1 <= n)
    BY <1>1, <2>2
  <2>3. QED
    BY <2>1, <2>2
<1> HIDE DEF at, f, n, N
<1>4. g = WalkStep(list, mem, g)
  <2>1. \A k \in 1 .. N : g[k] = IF k = 1 THEN list.head
                                 ELSE IF g[k - 1] = NULL THEN NULL ELSE mem[g[k - 1]].next
    <3>1. ASSUME NEW k \in 1 .. N
          PROVE  g[k] = IF k = 1 THEN list.head
                        ELSE IF g[k - 1] = NULL THEN NULL ELSE mem[g[k - 1]].next
      <4>1. k = 1 \/ (k \in 2 .. N /\ k - 1 \in 1 .. N)
        BY <1>1
      <4>2. QED
        BY <1>2, <1>3, <4>1
    <3>2. QED
      BY <3>1
  <2>2. g = [k \in 1 .. N |-> g[k]]
    OBVIOUS
  <2> HIDE DEF g
  <2>3. QED
    BY <2>1, <2>2 DEF WalkStep, N
<1> HIDE DEF g
<1>5. f = WalkStep(list, mem, f)
  BY <1>4, Zenon DEF Walked, f
<1>6. /\ DOMAIN f = 1 .. N
      /\ \A k \in 1 .. N : f[k] = IF k = 1 THEN list.head
                                  ELSE IF f[k - 1] = NULL THEN NULL ELSE mem[f[k - 1]].next
  <2> DEFINE w == WalkStep(list, mem, f)
  <2>1. /\ DOMAIN w = 1 .. N
        /\ \A k \in 1 .. N : w[k] = IF k = 1 THEN list.head
                                    ELSE IF f[k - 1] = NULL THEN NULL ELSE mem[f[k - 1]].next
    BY DEF WalkStep, N
  <2> HIDE DEF w
  <2>2. f = w
    BY <1>5 DEF w
  <2>3. QED
    BY <2>1, <2>2
<1>7. \A k \in 1 .. N : f[k] = at(k)
  <2> DEFINE S == {m \in Nat : m + 1 <= N => f[m + 1] = at(m + 1)}
  <2>1. 0 \in S
    <3>1. 1 \in 1 .. N
      BY <1>1
    <3>2. f[1] = at(1)
      BY <1>2, <1>6, <3>1
    <3>3. QED
      BY <3>2
  <2>2. ASSUME NEW m \in Nat, m \in S
        PROVE  m + 1 \in S
    <3>1. SUFFICES ASSUME (m + 1) + 1 <= N
                   PROVE  f[(m + 1) + 1] = at((m + 1) + 1)
      OBVIOUS
    <3>2. f[m + 1] = at(m + 1)
      BY <1>1, <2>2, <3>1
    <3>3. /\ (m + 1) + 1 \in 2 .. N /\ (m + 1) + 1 \in 1 .. N
          /\ (m + 1) + 1 # 1 /\ ((m + 1) + 1) - 1 = m + 1
      BY <1>1, <3>1
    <3>4. QED
      BY <1>3, <1>6, <3>2, <3>3
  <2>3. Nat \subseteq S
    <3> HIDE DEF S
    <3> QED
      BY <2>1, <2>2, SetInduction
  <2>4. ASSUME NEW k \in 1 .. N
        PROVE  f[k] = at(k)
    <3>1. k - 1 \in Nat /\ (k - 1) + 1 = k /\ k <= N
      BY <1>1
    <3>2. k - 1 \in S
      BY <2>3, <3>1
    <3>3. QED
      BY <3>1, <3>2
  <2>5. QED
    BY <2>4
<1>8. {k \in DOMAIN f : f[k] # NULL} = 1 .. n
  <2>1. ASSUME NEW k \in 1 .. N
        PROVE  f[k] # NULL <=> k <= n
    BY <1>1, <1>7 DEF at
  <2>2. QED
    BY <1>1, <1>6, <2>1
<1>9. \A k \in 1 .. n : f[k] = c[k]
  <2>1. ASSUME NEW k \in 1 .. n
        PROVE  f[k] = c[k]
    <3>1. k \in 1 .. N /\ k <= n
      BY <1>1
    <3>2. QED
      BY <1>7, <3>1 DEF at
  <2>2. QED
    BY <2>1
<1>10. Walk(list, mem) = [k \in 1 .. n |-> f[k]]
  BY <1>8, WalkIsWalked DEF f
<1>11. c = [k \in 1 .. n |-> c[k]]
  BY <1>1 DEF ListHolds
<1>12. QED
  BY <1>9, <1>10, <1>11

----------------------------------------------------------------------------
(* What the list functions do to the sequence, and what they leave alone.  *)

(* The chain of a list has allocated nodes, each once.                     *)
LEMMA HeldNodes ==
  ASSUME NEW list, NEW mem, NEW t, NEW c, ListHolds(list, mem, t, c)
  PROVE  /\ Len(c) \in Nat /\ DOMAIN c = 1 .. Len(c)
         /\ \A i \in 1 .. Len(c) : c[i] \in DOMAIN mem /\ c[i] \in Addr /\ c[i] # NULL
         /\ \A i, j \in 1 .. Len(c) : c[i] = c[j] => i = j
         /\ c = <<>> <=> Len(c) = 0
         /\ \A a : a \in Range(c) <=> \E i \in 1 .. Len(c) : a = c[i]
<1>1. c \in Seq(DOMAIN mem) /\ DOMAIN mem \subseteq Addr
  BY DEF ListHolds
<1>2. Len(c) \in Nat /\ DOMAIN c = 1 .. Len(c) /\ (c = <<>> <=> Len(c) = 0)
  BY <1>1
<1>3. \A i \in 1 .. Len(c) : c[i] \in DOMAIN mem
  BY <1>1
<1>4. QED
  BY <1>1, <1>2, <1>3, NullAssumption DEF ListHolds, IsInjective, Range

(* The memory of one list, c, has become that of c2; no other node has     *)
(* changed, appeared or gone.                                              *)
Replaces(c, mem, c2, mem2) ==
  /\ DOMAIN mem2 = (DOMAIN mem \ Range(c)) \cup Range(c2)
  /\ \A b \in DOMAIN mem \ Range(c) : b \notin Range(c2) /\ mem2[b] = mem[b]

(* Two changes to one list are one change.                                 *)
LEMMA ReplacesTwice ==
  ASSUME NEW c, NEW mem, NEW c2, NEW mem2, NEW c3, NEW mem3,
         Replaces(c, mem, c2, mem2), Replaces(c2, mem2, c3, mem3)
  PROVE  Replaces(c, mem, c3, mem3)
<1>1. ASSUME NEW b \in DOMAIN mem \ Range(c)
      PROVE  b \notin Range(c3) /\ mem3[b] = mem[b]
  <2>1. b \in DOMAIN mem2 \ Range(c2) /\ mem2[b] = mem[b]
    BY <1>1 DEF Replaces
  <2>2. QED
    BY <2>1 DEF Replaces
<1>2. DOMAIN mem2 \ Range(c2) = DOMAIN mem \ Range(c)
  BY DEF Replaces
<1>3. DOMAIN mem3 = (DOMAIN mem \ Range(c)) \cup Range(c3)
  BY <1>2 DEF Replaces
<1>4. QED
  BY <1>1, <1>3 DEF Replaces

(* The memory push_impl hands to listPush. *)
WithNode(mem, t, a) ==
  [b \in DOMAIN mem \cup {a} |-> IF b = a THEN createNewNode(t) ELSE mem[b]]

(* listPush appends. *)
LEMMA PushHolds ==
  ASSUME NEW list, NEW mem, NEW t, NEW c, ListHolds(list, mem, t, c),
         NEW a \in Addr \ DOMAIN mem,
         NEW done, done = listPush(list, WithNode(mem, t, a), a)
  PROVE  /\ ListHolds(done.list, done.mem, t, Append(c, a))
         /\ Replaces(c, mem, Append(c, a), done.mem)
<1> DEFINE n == Len(c)
           d == Append(c, a)
           m == WithNode(mem, t, a)
           m2 == done.mem
<1>1. /\ n \in Nat /\ DOMAIN c = 1 .. n
      /\ \A i \in 1 .. n : c[i] \in DOMAIN mem /\ c[i] \in Addr /\ c[i] # NULL
      /\ \A i, j \in 1 .. n : c[i] = c[j] => i = j
      /\ (c = <<>> <=> n = 0)
      /\ \A b : b \in Range(c) <=> \E i \in 1 .. n : b = c[i]
  BY HeldNodes
<1>2. c \in Seq(DOMAIN mem) /\ c \in Seq(Addr) /\ IsInjective(c) /\ DOMAIN mem \subseteq Addr
  <2>1. c \in Seq(DOMAIN mem) /\ IsInjective(c) /\ DOMAIN mem \subseteq Addr
    BY DEF ListHolds
  <2>2. QED
    BY <2>1
<1>3. /\ d \in Seq(DOMAIN mem \cup {a})
      /\ Len(d) = n + 1 /\ DOMAIN d = 1 .. n + 1
      /\ \A i \in 1 .. n : d[i] = c[i]
      /\ d[n + 1] = a
      /\ d # <<>>
  BY <1>1, <1>2
<1>4. IsInjective(d)
  <2>1. \A i, j \in 1 .. n + 1 : d[i] = d[j] => i = j
    <3>1. \A i \in 1 .. n + 1 : i \in 1 .. n \/ i = n + 1
      BY <1>1
    <3>2. \A i \in 1 .. n : d[i] # a
      BY <1>1, <1>3
    <3> HIDE DEF d, n
    <3>3. QED
      BY <1>1, <1>3, <3>1, <3>2
  <2>2. QED
    BY <1>3, <2>1 DEF IsInjective
<1>5. list = [head |-> IF n = 0 THEN NULL ELSE c[1],
              tail |-> IF n = 0 THEN NULL ELSE c[n], len |-> n]
  BY <1>1 DEF ListHolds, ListOf
<1>6. \A i \in 1 .. n : mem[c[i]] = NodeOf(t, c, i)
  BY DEF ListHolds
<1>7. done.list = ListOf(d)
  <2>1. CASE n = 0
    BY <1>1, <1>3, <1>5, <2>1 DEF listPush, ListOf
  <2>2. CASE n # 0
    <3>1. list.tail # NULL /\ 1 \in 1 .. n /\ n \in 1 .. n
      BY <1>1, <1>5, <2>2
    <3>2. done.list = [head |-> c[1], tail |-> a, len |-> n + 1]
      BY <1>5, <2>2, <3>1 DEF listPush
    <3>3. d[1] = c[1]
      BY <1>3, <3>1
    <3> HIDE DEF d, n
    <3>4. QED
      BY <1>1, <1>3, <3>2, <3>3 DEF ListOf
  <2>3. QED
    BY <2>1, <2>2
<1>8. /\ DOMAIN m = DOMAIN mem \cup {a}
      /\ m[a] = [ttl |-> t, next |-> NULL, prev |-> NULL]
      /\ \A b \in DOMAIN mem : b # a /\ m[b] = mem[b]
  BY DEF WithNode, createNewNode
<1> HIDE DEF m
<1>9. m2 = IF n = 0 THEN m ELSE [m EXCEPT ![a].prev = c[n], ![c[n]].next = a]
  <2>1. n = 0 => list.tail = NULL
    BY <1>5
  <2>2. n # 0 => list.tail = c[n] /\ c[n] # NULL
    BY <1>1, <1>5
  <2>3. QED
    BY <2>1, <2>2 DEF listPush, m
<1>10. /\ DOMAIN m2 = DOMAIN mem \cup {a}
       /\ m2[a] = [ttl |-> t, next |-> NULL, prev |-> IF n = 0 THEN NULL ELSE c[n]]
       /\ \A b \in DOMAIN mem : n # 0 /\ b = c[n] => m2[b] = [mem[b] EXCEPT !.next = a]
       /\ \A b \in DOMAIN mem : n = 0 \/ b # c[n] => m2[b] = mem[b]
  <2>1. CASE n = 0
    BY <1>8, <1>9, <2>1
  <2>2. CASE n # 0
    <3>1. c[n] \in DOMAIN mem /\ c[n] # a
      BY <1>1, <2>2
    <3>2. m2 = [m EXCEPT ![a].prev = c[n], ![c[n]].next = a]
      BY <1>9, <2>2
    <3> HIDE DEF m2, n
    <3>3. DOMAIN m2 = DOMAIN mem \cup {a}
      BY <1>8, <3>2
    <3>4. m2[a] = [m[a] EXCEPT !.prev = c[n]]
      BY <1>8, <3>1, <3>2
    <3>5. m2[c[n]] = [mem[c[n]] EXCEPT !.next = a]
      BY <1>8, <3>1, <3>2
    <3>6. \A b \in DOMAIN mem : b # c[n] => m2[b] = mem[b]
      BY <1>8, <3>1, <3>2
    <3>7. QED
      BY <1>8, <2>2, <3>3, <3>4, <3>5, <3>6
  <2>3. QED
    BY <2>1, <2>2
<1> HIDE DEF m2, d, n
<1>11. ASSUME NEW i \in 1 .. n + 1
       PROVE  m2[d[i]] = NodeOf(t, d, i)
  <2>1. CASE i = n + 1
    <3>1. n # 0 => n \in 1 .. n /\ d[n] = c[n] /\ (n + 1) - 1 = n /\ n + 1 # 1
      BY <1>1, <1>3
    <3>2. QED
      BY <1>1, <1>3, <1>10, <2>1, <3>1 DEF NodeOf
  <2>2. CASE i \in 1 .. n /\ i = n
    <3>1. c[i] \in DOMAIN mem /\ n # 0 /\ i # n + 1 /\ d[i] = c[i] /\ d[i + 1] = a
      BY <1>1, <1>3, <2>2
    <3>2. m2[d[i]] = [mem[c[i]] EXCEPT !.next = a]
      BY <1>10, <2>2, <3>1
    <3>3. mem[c[i]] = [ttl |-> t, next |-> NULL, prev |-> IF i = 1 THEN NULL ELSE c[i - 1]]
      BY <1>6, <2>2 DEF NodeOf, n
    <3>4. i # 1 => d[i - 1] = c[i - 1]
      BY <1>1, <1>3, <2>2
    <3>5. QED
      BY <1>3, <3>1, <3>2, <3>3, <3>4 DEF NodeOf
  <2>3. CASE i \in 1 .. n /\ i # n
    <3>1. c[i] \in DOMAIN mem /\ n \in 1 .. n /\ c[i] # c[n] /\ d[i] = c[i]
          /\ i # n + 1 /\ d[i + 1] = c[i + 1]
      BY <1>1, <1>3, <2>3
    <3>2. m2[d[i]] = mem[c[i]]
      BY <1>10, <3>1
    <3>3. mem[c[i]] = [ttl |-> t, next |-> c[i + 1], prev |-> IF i = 1 THEN NULL ELSE c[i - 1]]
      BY <1>6, <2>3 DEF NodeOf, n
    <3>4. i # 1 => d[i - 1] = c[i - 1]
      BY <1>1, <1>3, <2>3
    <3>5. QED
      BY <1>3, <3>1, <3>2, <3>3, <3>4 DEF NodeOf
  <2>4. QED
    BY <1>1, <2>1, <2>2, <2>3
<1>12. ListHolds(done.list, done.mem, t, d)
  <2>1. d \in Seq(DOMAIN m2) /\ DOMAIN m2 \subseteq Addr
    BY <1>2, <1>3, <1>10
  <2>2. QED
    BY <1>3, <1>4, <1>7, <1>11, <2>1 DEF ListHolds, m2
<1>13. Range(d) = Range(c) \cup {a}
  <2>1. ASSUME NEW b
        PROVE  b \in Range(d) <=> b \in Range(c) \cup {a}
    <3>1. b \in Range(d) <=> \E i \in 1 .. n + 1 : b = d[i]
      BY <1>3 DEF Range
    <3>2. \A i : i \in 1 .. n + 1 <=> i \in 1 .. n \/ i = n + 1
      BY <1>1
    <3>3. QED
      BY <1>1, <1>3, <3>1, <3>2
  <2>2. QED
    BY <2>1
<1>14. Replaces(c, mem, d, m2)
  <2>1. Range(c) \subseteq DOMAIN mem
    BY <1>1
  <2>2. n # 0 => c[n] \in Range(c)
    BY <1>1
  <2>3. QED
    BY <1>10, <1>13, <2>1, <2>2 DEF Replaces
<1>15. QED
  BY <1>12, <1>14 DEF d, m2

(* A sequence is empty when its length is 0.                               *)
LEMMA EmptyLength ==
  ASSUME NEW X, NEW s \in Seq(X)
  PROVE  s = <<>> <=> Len(s) = 0
OBVIOUS

(* RemoveAt, position by position.                                         *)
LEMMA RemovedAt ==
  ASSUME NEW X, NEW c \in Seq(X), NEW i \in 1 .. Len(c)
  PROVE  LET r == RemoveAt(c, i)
         IN  /\ r \in Seq(X) /\ Len(r) = Len(c) - 1 /\ DOMAIN r = 1 .. Len(c) - 1
             /\ \A j \in 1 .. Len(c) - 1 : r[j] = IF j < i THEN c[j] ELSE c[j + 1]
<1> DEFINE n == Len(c)
           p == SubSeq(c, 1, i - 1)
           q == SubSeq(c, i + 1, n)
<1>1. n \in Nat /\ i \in 1 .. n
  OBVIOUS
<1>2. p \in Seq(X) /\ Len(p) = i - 1 /\ \A j \in 1 .. i - 1 : p[j] = c[j]
  OBVIOUS
<1>3. q \in Seq(X) /\ Len(q) = n - i /\ \A j \in 1 .. n - i : q[j] = c[j + i]
  OBVIOUS
<1> HIDE DEF p, q, n
<1>4. /\ p \o q \in Seq(X) /\ Len(p \o q) = n - 1 /\ DOMAIN (p \o q) = 1 .. n - 1
      /\ \A j \in 1 .. i - 1 : (p \o q)[j] = p[j]
      /\ \A j \in i .. n - 1 : (p \o q)[j] = q[j - (i - 1)]
  <2>1. p \in Seq(X) /\ q \in Seq(X)
    BY <1>2, <1>3
  <2>2. /\ p \o q \in Seq(X) /\ Len(p \o q) = Len(p) + Len(q)
        /\ DOMAIN (p \o q) = 1 .. Len(p) + Len(q)
        /\ \A j \in 1 .. Len(p) : (p \o q)[j] = p[j]
        /\ \A j \in 1 .. Len(p) + Len(q) : j > Len(p) => (p \o q)[j] = q[j - Len(p)]
    BY <2>1
  <2>3. Len(p) = i - 1 /\ Len(q) = n - i /\ Len(p) + Len(q) = n - 1
    BY <1>1, <1>2, <1>3
  <2>4. \A j \in i .. n - 1 : j \in 1 .. n - 1 /\ j > i - 1
    BY <1>1
  <2>5. QED
    BY <2>2, <2>3, <2>4
<1>5. ASSUME NEW j \in 1 .. n - 1
      PROVE  (p \o q)[j] = IF j < i THEN c[j] ELSE c[j + 1]
  <2>1. CASE j < i
    <3>1. j \in 1 .. i - 1
      BY <1>1, <2>1
    <3>2. QED
      BY <1>2, <1>4, <2>1, <3>1
  <2>2. CASE ~ (j < i)
    <3>1. j \in i .. n - 1 /\ j - (i - 1) \in 1 .. n - i /\ (j - (i - 1)) + i = j + 1
      BY <1>1, <2>2
    <3>2. QED
      BY <1>3, <1>4, <2>2, <3>1
  <2>3. QED
    BY <2>1, <2>2
<1>6. RemoveAt(c, i) = p \o q
  BY DEF RemoveAt, p, q, n
<1>7. QED
  BY <1>4, <1>5, <1>6 DEF n

(* The node at i of list c has been unlinked: the node before it points to *)
(* the one after, and the other way round, and its memory is free.         *)
Unlinked(c, i, mem, mem2) ==
  /\ DOMAIN mem2 = DOMAIN mem \ {c[i]}
  /\ \A b \in DOMAIN mem2 :
       mem2[b] = IF i > 1 /\ b = c[i - 1]
                   THEN [mem[b] EXCEPT !.next = mem[c[i]].next]
                 ELSE IF i < Len(c) /\ b = c[i + 1]
                   THEN [mem[b] EXCEPT !.prev = mem[c[i]].prev]
                 ELSE mem[b]

UnlinkedList(c, i, mem) ==
  [head |-> IF i = 1 THEN mem[c[1]].next ELSE c[1],
   tail |-> IF i = Len(c) THEN mem[c[Len(c)]].prev ELSE c[Len(c)],
   len  |-> Len(c) - 1]

(* A node cut out of a list leaves the rest of it linked.                  *)
LEMMA UnlinkHolds ==
  ASSUME NEW list, NEW mem, NEW t, NEW c, ListHolds(list, mem, t, c),
         NEW i \in 1 .. Len(c),
         NEW mem2, Unlinked(c, i, mem, mem2)
  PROVE  /\ ListHolds(UnlinkedList(c, i, mem), mem2, t, RemoveAt(c, i))
         /\ Replaces(c, mem, RemoveAt(c, i), mem2)
<1> DEFINE n == Len(c)
           r == RemoveAt(c, i)
<1>1. /\ n \in Nat /\ DOMAIN c = 1 .. n
      /\ \A j \in 1 .. n : c[j] \in DOMAIN mem /\ c[j] \in Addr /\ c[j] # NULL
      /\ \A j, k \in 1 .. n : c[j] = c[k] => j = k
      /\ (c = <<>> <=> n = 0)
      /\ \A b : b \in Range(c) <=> \E j \in 1 .. n : b = c[j]
  BY HeldNodes
<1>2. c \in Seq(DOMAIN mem) /\ DOMAIN mem \subseteq Addr
  BY DEF ListHolds
<1>3. /\ r \in Seq(DOMAIN mem) /\ Len(r) = n - 1 /\ DOMAIN r = 1 .. n - 1
      /\ \A j \in 1 .. n - 1 : r[j] = IF j < i THEN c[j] ELSE c[j + 1]
  BY <1>2, RemovedAt
<1>4. \A j \in 1 .. n : mem[c[j]] = NodeOf(t, c, j)
  BY DEF ListHolds
<1>5. i \in 1 .. n
  OBVIOUS
<1>6. Unlinked(c, i, mem, mem2)
  OBVIOUS
<1> HIDE DEF n, r
<1>7. /\ mem[c[i]].next = IF i = n THEN NULL ELSE c[i + 1]
      /\ mem[c[i]].prev = IF i = 1 THEN NULL ELSE c[i - 1]
  <2>1. mem[c[i]] = [ttl |-> t, next |-> IF i = n THEN NULL ELSE c[i + 1],
                     prev |-> IF i = 1 THEN NULL ELSE c[i - 1]]
    BY <1>4, <1>5 DEF NodeOf, n
  <2>2. QED
    BY <2>1
<1>8. \A j, k \in 1 .. n - 1 : r[j] = r[k] => j = k
  <2>1. SUFFICES ASSUME NEW j \in 1 .. n - 1, NEW k \in 1 .. n - 1, r[j] = r[k]
                 PROVE  j = k
    OBVIOUS
  <2>2. (IF j < i THEN j ELSE j + 1) = (IF k < i THEN k ELSE k + 1)
    <3>1. /\ (IF j < i THEN j ELSE j + 1) \in 1 .. n
          /\ (IF k < i THEN k ELSE k + 1) \in 1 .. n
          /\ r[j] = c[IF j < i THEN j ELSE j + 1]
          /\ r[k] = c[IF k < i THEN k ELSE k + 1]
      BY <1>1, <1>3, <1>5
    <3>2. QED
      BY <1>1, <2>1, <3>1
  <2>3. QED
    BY <1>1, <1>5, <2>2
<1>9. Range(r) = Range(c) \ {c[i]}
  <2>1. ASSUME NEW b, b \in Range(r)
        PROVE  b \in Range(c) \ {c[i]}
    <3>1. PICK j \in 1 .. n - 1 : b = r[j]
      BY <1>3, <2>1 DEF Range
    <3>2. /\ (IF j < i THEN j ELSE j + 1) \in 1 .. n
          /\ (IF j < i THEN j ELSE j + 1) # i
          /\ b = c[IF j < i THEN j ELSE j + 1]
      BY <1>1, <1>3, <1>5, <3>1
    <3>3. QED
      BY <1>1, <1>5, <3>2
  <2>2. ASSUME NEW b, b \in Range(c), b # c[i]
        PROVE  b \in Range(r)
    <3>1. PICK j \in 1 .. n : b = c[j]
      BY <1>1, <2>2
    <3>2. j # i
      BY <2>2, <3>1
    <3>3. /\ (IF j < i THEN j ELSE j - 1) \in 1 .. n - 1
          /\ r[IF j < i THEN j ELSE j - 1] = c[j]
      BY <1>1, <1>3, <1>5, <3>1, <3>2
    <3>4. QED
      BY <1>3, <3>1, <3>3 DEF Range
  <2>3. QED
    BY <2>1, <2>2
<1>10. ASSUME NEW j \in 1 .. n - 1
       PROVE  mem2[r[j]] = NodeOf(t, r, j) /\ r[j] \in DOMAIN mem2
  <2>1. r[j] \in DOMAIN mem2
    <3>1. r[j] \in Range(r)
      BY <1>3 DEF Range
    <3>2. QED
      BY <1>1, <1>6, <1>9, <3>1 DEF Unlinked
  <2>2. NodeOf(t, r, j) = [ttl |-> t, next |-> IF j = n - 1 THEN NULL ELSE r[j + 1],
                           prev |-> IF j = 1 THEN NULL ELSE r[j - 1]]
    BY <1>3 DEF NodeOf
  <2>3. CASE j < i /\ j = i - 1
    <3>1. r[j] = c[j] /\ j \in 1 .. n /\ i > 1 /\ j # n
      BY <1>1, <1>3, <1>5, <2>3
    <3>2. mem2[r[j]] = [mem[c[j]] EXCEPT !.next = IF i = n THEN NULL ELSE c[i + 1]]
      BY <1>6, <1>7, <2>1, <2>3, <3>1 DEF Unlinked
    <3>3. mem[c[j]] = [ttl |-> t, next |-> c[j + 1], prev |-> IF j = 1 THEN NULL ELSE c[j - 1]]
      BY <1>4, <3>1 DEF NodeOf, n
    <3>4. /\ i = n <=> j = n - 1
          /\ j # n - 1 => r[j + 1] = c[i + 1]
          /\ j # 1 => r[j - 1] = c[j - 1]
      BY <1>1, <1>3, <1>5, <2>3
    <3>5. mem2[r[j]] = [ttl |-> t, next |-> IF i = n THEN NULL ELSE c[i + 1],
                        prev |-> IF j = 1 THEN NULL ELSE c[j - 1]]
      BY <3>2, <3>3
    <3>6. QED
      BY <2>1, <2>2, <3>4, <3>5
  <2>4. CASE j < i /\ j # i - 1
    <3>1. r[j] = c[j] /\ j \in 1 .. n /\ j # n /\ j # n - 1
      BY <1>1, <1>3, <1>5, <2>4
    <3>2. /\ i > 1 => c[j] # c[i - 1]
          /\ i < n => c[j] # c[i + 1]
      <4>1. i > 1 => i - 1 \in 1 .. n
        BY <1>1, <1>5
      <4>2. i < n => i + 1 \in 1 .. n /\ j # i + 1
        BY <1>1, <1>5, <2>4
      <4>3. QED
        BY <1>1, <2>4, <3>1, <4>1, <4>2
    <3>3. mem2[r[j]] = mem[c[j]]
      BY <1>6, <2>1, <3>1, <3>2 DEF Unlinked, n
    <3>4. mem[c[j]] = [ttl |-> t, next |-> c[j + 1], prev |-> IF j = 1 THEN NULL ELSE c[j - 1]]
      BY <1>4, <3>1 DEF NodeOf, n
    <3>5. r[j + 1] = c[j + 1] /\ (j # 1 => r[j - 1] = c[j - 1])
      BY <1>1, <1>3, <1>5, <2>4
    <3>6. QED
      BY <2>1, <2>2, <3>1, <3>3, <3>4, <3>5
  <2>5. CASE j = i
    <3>1. r[j] = c[j + 1] /\ j + 1 \in 1 .. n /\ i < n /\ j + 1 # 1 /\ (j + 1) - 1 = j
      BY <1>1, <1>3, <1>5, <2>5
    <3>2. i > 1 => c[j + 1] # c[i - 1]
      <4>1. i > 1 => i - 1 \in 1 .. n /\ j + 1 # i - 1
        BY <1>1, <1>5, <2>5
      <4>2. QED
        BY <1>1, <3>1, <4>1
    <3>3. mem2[r[j]] = [mem[c[j + 1]] EXCEPT !.prev = IF i = 1 THEN NULL ELSE c[i - 1]]
      BY <1>6, <1>7, <2>1, <2>5, <3>1, <3>2 DEF Unlinked, n
    <3>4. mem[c[j + 1]] = [ttl |-> t, next |-> IF j + 1 = n THEN NULL ELSE c[(j + 1) + 1], prev |-> c[j]]
      BY <1>4, <3>1 DEF NodeOf, n
    <3>5. /\ j = n - 1 <=> j + 1 = n
          /\ j # n - 1 => r[j + 1] = c[(j + 1) + 1]
          /\ i # 1 => r[j - 1] = c[i - 1]
      BY <1>1, <1>3, <1>5, <2>5
    <3>6. mem2[r[j]] = [ttl |-> t, next |-> IF j + 1 = n THEN NULL ELSE c[(j + 1) + 1],
                        prev |-> IF i = 1 THEN NULL ELSE c[i - 1]]
      BY <3>3, <3>4
    <3>7. QED
      BY <2>1, <2>2, <2>5, <3>5, <3>6
  <2>6. CASE j > i
    <3>1. r[j] = c[j + 1] /\ j + 1 \in 1 .. n /\ j + 1 # 1 /\ (j + 1) - 1 = j /\ j # 1
      BY <1>1, <1>3, <1>5, <2>6
    <3>2. /\ i > 1 => c[j + 1] # c[i - 1]
          /\ i < n => c[j + 1] # c[i + 1]
      <4>1. i > 1 => i - 1 \in 1 .. n /\ j + 1 # i - 1
        BY <1>1, <1>5, <2>6
      <4>2. i < n => i + 1 \in 1 .. n /\ j + 1 # i + 1
        BY <1>1, <1>5, <2>6
      <4>3. QED
        BY <1>1, <3>1, <4>1, <4>2
    <3>3. mem2[r[j]] = mem[c[j + 1]]
      BY <1>6, <2>1, <3>1, <3>2 DEF Unlinked, n
    <3>4. mem[c[j + 1]] = [ttl |-> t, next |-> IF j + 1 = n THEN NULL ELSE c[(j + 1) + 1], prev |-> c[j]]
      BY <1>4, <3>1 DEF NodeOf, n
    <3>5. /\ j = n - 1 <=> j + 1 = n
          /\ j # n - 1 => r[j + 1] = c[(j + 1) + 1]
          /\ r[j - 1] = c[j]
      BY <1>1, <1>3, <1>5, <2>6
    <3>6. QED
      BY <2>1, <2>2, <3>1, <3>3, <3>4, <3>5
  <2>7. QED
    BY <1>1, <1>5, <2>3, <2>4, <2>5, <2>6
<1>11. UnlinkedList(c, i, mem) = ListOf(r)
  <2>1. r = <<>> <=> n - 1 = 0
    <3>1. r \in Seq(DOMAIN mem) /\ Len(r) = n - 1
      BY <1>3
    <3>2. r = <<>> <=> Len(r) = 0
      BY <3>1, EmptyLength
    <3>3. QED
      BY <3>1, <3>2
  <2>2. n = 1 => i = 1 /\ i = n
    BY <1>1, <1>5
  <2>3. n # 1 => /\ i = 1 => r[1] = c[2] /\ i # n
                 /\ i # 1 => r[1] = c[1]
                 /\ i = n => r[n - 1] = c[n - 1] /\ i # 1
                 /\ i # n => r[n - 1] = c[n]
    BY <1>1, <1>3, <1>5
  <2>4. CASE n = 1
    BY <1>3, <1>7, <2>1, <2>2, <2>4 DEF UnlinkedList, ListOf, n
  <2>5. CASE n # 1
    <3>1. (IF i = 1 THEN mem[c[1]].next ELSE c[1]) = r[1]
      BY <1>7, <2>3, <2>5
    <3>2. (IF i = n THEN mem[c[n]].prev ELSE c[n]) = r[n - 1]
      BY <1>7, <2>3, <2>5
    <3>3. n - 1 # 0
      BY <1>1, <2>5
    <3>4. QED
      BY <1>3, <2>1, <3>1, <3>2, <3>3 DEF UnlinkedList, ListOf, n
  <2>6. QED
    BY <2>4, <2>5
<1>12. ListHolds(UnlinkedList(c, i, mem), mem2, t, r)
  <2>1. r \in Seq(DOMAIN mem2)
    BY <1>3, <1>10
  <2>2. DOMAIN mem2 \subseteq Addr
    BY <1>2, <1>6 DEF Unlinked
  <2>3. IsInjective(r)
    BY <1>3, <1>8 DEF IsInjective
  <2>4. QED
    BY <1>3, <1>10, <1>11, <2>1, <2>2, <2>3 DEF ListHolds
<1>13. Replaces(c, mem, r, mem2)
  <2>1. c[i] \in Range(c) /\ Range(c) \subseteq DOMAIN mem
    BY <1>1, <1>5
  <2>2. DOMAIN mem2 = (DOMAIN mem \ Range(c)) \cup Range(r)
    BY <1>6, <1>9, <2>1 DEF Unlinked
  <2>3. ASSUME NEW b \in DOMAIN mem \ Range(c)
        PROVE  b \notin Range(r) /\ mem2[b] = mem[b]
    <3>1. /\ b \in DOMAIN mem2
          /\ i > 1 => b # c[i - 1]
          /\ i < n => b # c[i + 1]
      <4>1. i > 1 => i - 1 \in 1 .. n
        BY <1>1, <1>5
      <4>2. i < n => i + 1 \in 1 .. n
        BY <1>1, <1>5
      <4>3. QED
        BY <1>1, <2>2, <4>1, <4>2
    <3>2. QED
      BY <1>6, <1>9, <3>1 DEF Unlinked, n
  <2>4. QED
    BY <2>2, <2>3 DEF Replaces
<1>14. QED
  BY <1>12, <1>13 DEF r

(* The pointers of a list, node by node.                                   *)
LEMMA HeldPointers ==
  ASSUME NEW list, NEW mem, NEW t, NEW c, ListHolds(list, mem, t, c), c # <<>>
  PROVE  /\ list = [head |-> c[1], tail |-> c[Len(c)], len |-> Len(c)]
         /\ \A i \in 1 .. Len(c) :
              /\ mem[c[i]].ttl = t
              /\ mem[c[i]].next = IF i = Len(c) THEN NULL ELSE c[i + 1]
              /\ mem[c[i]].prev = IF i = 1 THEN NULL ELSE c[i - 1]
<1>1. SUFFICES ASSUME NEW i \in 1 .. Len(c)
               PROVE  /\ mem[c[i]].ttl = t
                      /\ mem[c[i]].next = IF i = Len(c) THEN NULL ELSE c[i + 1]
                      /\ mem[c[i]].prev = IF i = 1 THEN NULL ELSE c[i - 1]
  BY DEF ListHolds, ListOf
<1>2. mem[c[i]] = [ttl |-> t, next |-> IF i = Len(c) THEN NULL ELSE c[i + 1],
                   prev |-> IF i = 1 THEN NULL ELSE c[i - 1]]
  BY DEF ListHolds, NodeOf
<1>3. QED
  BY <1>2

(* listPop unlinks the first node, its caller frees it. *)
LEMMA PopUnlinks ==
  ASSUME NEW list, NEW mem, NEW t, NEW c, ListHolds(list, mem, t, c), c # <<>>,
         NEW popped, popped = listPop(list, mem)
  PROVE  /\ popped.list = UnlinkedList(c, 1, mem)
         /\ Unlinked(c, 1, mem, Free(popped.mem, {list.head}))
<1> DEFINE n == Len(c)
           m2 == Free(popped.mem, {list.head})
<1>1. /\ n \in Nat /\ n # 0 /\ 1 \in 1 .. n /\ n \in 1 .. n
      /\ \A j \in 1 .. n : c[j] \in DOMAIN mem
      /\ \A j, k \in 1 .. n : c[j] = c[k] => j = k
  BY HeldNodes
<1>2. /\ list = [head |-> c[1], tail |-> c[n], len |-> n]
      /\ mem[c[1]].next = IF 1 = n THEN NULL ELSE c[2]
      /\ mem[c[1]].prev = NULL
      /\ mem[c[n]].prev = IF n = 1 THEN NULL ELSE c[n - 1]
  <2>1. /\ list = [head |-> c[1], tail |-> c[n], len |-> n]
        /\ \A i \in 1 .. n : /\ mem[c[i]].next = IF i = n THEN NULL ELSE c[i + 1]
                            /\ mem[c[i]].prev = IF i = 1 THEN NULL ELSE c[i - 1]
    BY HeldPointers
  <2> HIDE DEF n
  <2>2. QED
    BY <1>1, <2>1
<1> HIDE DEF n
<1>3. CASE n = 1
  <2>1. popped.list = [head |-> NULL, tail |-> NULL, len |-> 0] /\ popped.mem = mem
    BY <1>2, <1>3 DEF listPop
  <2>2. popped.list = UnlinkedList(c, 1, mem)
    BY <1>2, <1>3, <2>1 DEF UnlinkedList, n
  <2>3. m2 = [b \in DOMAIN mem \ {c[1]} |-> mem[b]]
    BY <1>2, <2>1 DEF Free, Restrict
  <2> HIDE DEF m2
  <2>4. Unlinked(c, 1, mem, m2)
    BY <1>3, <2>3 DEF Unlinked, n
  <2>5. QED
    BY <2>2, <2>4 DEF m2
<1>4. CASE n # 1
  <2>1. /\ list.head = c[1] /\ list.len = n
        /\ mem[c[1]].next = c[2] /\ 2 \in 1 .. n
    BY <1>1, <1>2, <1>4
  <2>2. /\ popped.list = [list EXCEPT !.head = c[2], !.len = @ - 1]
        /\ popped.mem = [mem EXCEPT ![c[2]].prev = NULL]
    BY <1>4, <2>1 DEF listPop
  <2>3. popped.list = UnlinkedList(c, 1, mem)
    BY <1>1, <1>2, <1>4, <2>1, <2>2 DEF UnlinkedList, n
  <2>4. m2 = [b \in DOMAIN mem \ {c[1]} |->
                IF b = c[2] THEN [mem[b] EXCEPT !.prev = NULL] ELSE mem[b]]
    BY <1>1, <2>1, <2>2 DEF Free, Restrict
  <2>5. 1 < n
    BY <1>1, <1>4
  <2> HIDE DEF m2
  <2>6. Unlinked(c, 1, mem, m2)
    BY <1>2, <2>4, <2>5 DEF Unlinked, n
  <2>7. QED
    BY <2>3, <2>6 DEF m2
<1>5. QED
  BY <1>3, <1>4

Shortened(list) == [list EXCEPT !.len = @ - 1]

(* Both pointers to a, the one from its head's side first. *)
CutOut(list, mem, a, first, done) ==
  first = cutAtHead(list, mem, a) /\ done = cutAtTail(first.list, first.mem, a)

(* _listPull unlinks its node wherever it stands, deleteNode frees it. *)
LEMMA PullUnlinks ==
  ASSUME NEW list, NEW mem, NEW t, NEW c, ListHolds(list, mem, t, c), c # <<>>,
         NEW i \in 1 .. Len(c), Len(c) # 1,
         NEW first, NEW done, CutOut(list, mem, c[i], first, done)
  PROVE  /\ Shortened(done.list) = UnlinkedList(c, i, mem)
         /\ Unlinked(c, i, mem, Free(done.mem, {c[i]}))
<1> DEFINE n == Len(c)
           nx == mem[c[i]].next
           pv == mem[c[i]].prev
           m1 == first.mem
           m2 == done.mem
<1>1. /\ n \in Nat /\ n # 0 /\ 1 \in 1 .. n /\ n \in 1 .. n /\ i \in 1 .. n /\ n # 1
      /\ \A j \in 1 .. n : c[j] \in DOMAIN mem
      /\ \A j, k \in 1 .. n : c[j] = c[k] => j = k
  BY HeldNodes
<1>2. /\ list = [head |-> c[1], tail |-> c[n], len |-> n]
      /\ nx = IF i = n THEN NULL ELSE c[i + 1]
      /\ pv = IF i = 1 THEN NULL ELSE c[i - 1]
  <2>1. /\ list = [head |-> c[1], tail |-> c[n], len |-> n]
        /\ \A j \in 1 .. n : /\ mem[c[j]].next = IF j = n THEN NULL ELSE c[j + 1]
                            /\ mem[c[j]].prev = IF j = 1 THEN NULL ELSE c[j - 1]
    BY HeldPointers
  <2>2. QED
    BY <1>1, <2>1
<1>3. /\ i > 1 => i - 1 \in 1 .. n
      /\ i < n => i + 1 \in 1 .. n
      /\ i = 1 <=> ~ (i > 1)
      /\ i = n <=> ~ (i < n)
  BY <1>1
<1>4. /\ i = 1 <=> c[i] = list.head
      /\ i = n <=> c[i] = list.tail
  BY <1>1, <1>2
<1>5. /\ i = 1 => /\ first.list = [list EXCEPT !.head = nx]
                  /\ m1 = [mem EXCEPT ![c[i + 1]].prev = NULL]
      /\ i # 1 => /\ first.list = list
                  /\ m1 = [mem EXCEPT ![c[i - 1]].next = nx]
  <2>1. i = 1 => nx = c[i + 1]
    BY <1>1, <1>2
  <2>2. i # 1 => pv = c[i - 1]
    BY <1>2
  <2>3. QED
    BY <1>4, <2>1, <2>2 DEF cutAtHead, CutOut
<1> HIDE DEF n, nx, pv, m1
<1>6. /\ DOMAIN m1 = DOMAIN mem
      /\ m1[c[i]] = mem[c[i]]
      /\ first.list.tail = list.tail /\ first.list.len = n
  BY <1>1, <1>2, <1>3, <1>5
<1>7. m1[c[i]].prev = pv /\ m1[c[i]].next = nx
  BY <1>6 DEF nx, pv
<1>8. /\ i = n => /\ done.list = [first.list EXCEPT !.tail = pv]
                  /\ m2 = [m1 EXCEPT ![c[i - 1]].next = NULL]
      /\ i # n => /\ done.list = first.list
                  /\ m2 = [m1 EXCEPT ![c[i + 1]].prev = pv]
  <2>1. i = n => pv = c[i - 1]
    BY <1>1, <1>2
  <2>2. i # n => nx = c[i + 1]
    BY <1>2
  <2>3. c[i] = first.list.tail <=> i = n
    BY <1>4, <1>6
  <2>4. done = IF i = n THEN [list |-> [first.list EXCEPT !.tail = m1[c[i]].prev],
                              mem |-> [m1 EXCEPT ![m1[c[i]].prev].next = NULL]]
               ELSE [list |-> first.list,
                     mem |-> [m1 EXCEPT ![m1[c[i]].next].prev = m1[c[i]].prev]]
    BY <2>3 DEF cutAtTail, m1, CutOut
  <2>5. /\ i = n => /\ done.list = [first.list EXCEPT !.tail = m1[c[i]].prev]
                    /\ done.mem = [m1 EXCEPT ![m1[c[i]].prev].next = NULL]
        /\ i # n => /\ done.list = first.list
                    /\ done.mem = [m1 EXCEPT ![m1[c[i]].next].prev = m1[c[i]].prev]
    <3> DEFINE endList == [first.list EXCEPT !.tail = m1[c[i]].prev]
               endMem == [m1 EXCEPT ![m1[c[i]].prev].next = NULL]
               midMem == [m1 EXCEPT ![m1[c[i]].next].prev = m1[c[i]].prev]
    <3>1. done = IF i = n THEN [list |-> endList, mem |-> endMem]
                 ELSE [list |-> first.list, mem |-> midMem]
      BY <2>4
    <3> HIDE DEF endList, endMem, midMem
    <3>2. /\ i = n => done.list = endList /\ done.mem = endMem
          /\ i # n => done.list = first.list /\ done.mem = midMem
      BY ONLY <3>1
    <3>3. QED
      BY <3>2 DEF endList, endMem, midMem
  <2>6. QED
    BY <1>7, <2>1, <2>2, <2>5
<1>9. Shortened(done.list) = UnlinkedList(c, i, mem)
  <2>1. done.list = [head |-> IF i = 1 THEN nx ELSE c[1],
                     tail |-> IF i = n THEN pv ELSE c[n], len |-> n]
    BY <1>2, <1>5, <1>8
  <2>2. QED
    BY <2>1 DEF UnlinkedList, Shortened, n, nx, pv
<1> HIDE DEF m2
<1>10. /\ DOMAIN m2 = DOMAIN mem
       /\ \A b \in DOMAIN mem :
            m2[b] = IF i > 1 /\ b = c[i - 1] THEN [mem[b] EXCEPT !.next = nx]
                    ELSE IF i < n /\ b = c[i + 1] THEN [mem[b] EXCEPT !.prev = pv]
                    ELSE mem[b]
  <2>1. CASE i = 1
    <3>1. i # n /\ i < n /\ pv = NULL
      BY <1>1, <1>2, <2>1
    <3>2. m2 = [m1 EXCEPT ![c[i + 1]].prev = NULL]
      BY <1>8, <3>1
    <3>3. m1 = [mem EXCEPT ![c[i + 1]].prev = NULL]
      BY <1>5, <2>1
    <3>4. c[i + 1] \in DOMAIN mem
      BY <1>1, <1>3, <3>1
    <3>5. QED
      BY <2>1, <3>1, <3>2, <3>3, <3>4
  <2>2. CASE i # 1 /\ i = n
    <3>1. i > 1 /\ ~ (i < n) /\ nx = NULL
      BY <1>1, <1>2, <2>2
    <3>2. m2 = [m1 EXCEPT ![c[i - 1]].next = NULL]
      BY <1>8, <2>2
    <3>3. m1 = [mem EXCEPT ![c[i - 1]].next = NULL]
      BY <1>5, <2>2, <3>1
    <3>4. c[i - 1] \in DOMAIN mem
      BY <1>1, <1>3, <3>1
    <3>5. QED
      BY <3>1, <3>2, <3>3, <3>4
  <2>3. CASE i # 1 /\ i # n
    <3>1. i > 1 /\ i < n
      BY <1>3, <2>3
    <3>2. m2 = [m1 EXCEPT ![c[i + 1]].prev = pv]
      BY <1>8, <2>3
    <3>3. m1 = [mem EXCEPT ![c[i - 1]].next = nx]
      BY <1>5, <2>3
    <3>4. c[i - 1] \in DOMAIN mem /\ c[i + 1] \in DOMAIN mem /\ c[i - 1] # c[i + 1]
      BY <1>1, <1>3, <3>1
    <3>5. QED
      BY <3>1, <3>2, <3>3, <3>4
  <2>4. QED
    BY <2>1, <2>2, <2>3
<1>11. Free(m2, {c[i]}) = [b \in DOMAIN mem \ {c[i]} |-> m2[b]]
  BY <1>10 DEF Free, Restrict
<1>12. Unlinked(c, i, mem, Free(m2, {c[i]}))
  BY <1>10, <1>11 DEF Unlinked, n, nx, pv
<1>13. QED
  BY <1>9, <1>12 DEF m2

(* Two sequences with the same values are one.                             *)
LEMMA SameSeq ==
  ASSUME NEW X, NEW s \in Seq(X), NEW r \in Seq(X), Len(s) = Len(r),
         \A i \in 1 .. Len(s) : s[i] = r[i]
  PROVE  s = r
OBVIOUS

(* Popping takes the first of what is left.                                *)
LEMMA RestShrinks ==
  ASSUME NEW X, NEW c \in Seq(X), NEW k \in Nat, k < Len(c)
  PROVE  /\ SubSeq(c, k + 1, Len(c)) \in Seq(X)
         /\ Len(SubSeq(c, k + 1, Len(c))) = Len(c) - k
         /\ RemoveAt(SubSeq(c, k + 1, Len(c)), 1) = SubSeq(c, k + 2, Len(c))
<1> DEFINE n == Len(c)
           s == SubSeq(c, k + 1, n)
           u == SubSeq(c, k + 2, n)
           r == RemoveAt(s, 1)
<1>1. n \in Nat /\ k \in Nat /\ k < n
  OBVIOUS
<1>2. s \in Seq(X) /\ Len(s) = n - k /\ \A j \in 1 .. n - k : s[j] = c[j + k]
  OBVIOUS
<1>3. u \in Seq(X) /\ Len(u) = n - (k + 1) /\ \A j \in 1 .. n - (k + 1) : u[j] = c[j + (k + 1)]
  OBVIOUS
<1> HIDE DEF n, s, u
<1>4. 1 \in 1 .. Len(s)
  BY <1>1, <1>2
<1>5. /\ r \in Seq(X) /\ Len(r) = Len(s) - 1
      /\ \A j \in 1 .. Len(s) - 1 : r[j] = IF j < 1 THEN s[j] ELSE s[j + 1]
  BY <1>2, <1>4, RemovedAt
<1> HIDE DEF r
<1>6. ASSUME NEW j \in 1 .. Len(r)
      PROVE  r[j] = u[j]
  <2>1. /\ j \in 1 .. Len(s) - 1 /\ ~ (j < 1) /\ j + 1 \in 1 .. n - k
        /\ j \in 1 .. n - (k + 1) /\ (j + 1) + k = j + (k + 1)
    BY <1>1, <1>2, <1>5
  <2>2. QED
    BY <1>2, <1>3, <1>5, <2>1
<1>7. Len(r) = Len(u)
  BY <1>1, <1>2, <1>3, <1>5
<1>8. r = u
  BY <1>3, <1>5, <1>6, <1>7, SameSeq
<1>9. QED
  BY <1>2, <1>8 DEF n, s, u, r

(* The states of POLL's loop. *)
PopStep(list, mem, n, f) ==
  [k \in 0 .. n |->
     IF k = 0 THEN [list |-> list, mem |-> mem]
     ELSE LET before == f[k - 1]
              popped == listPop(before.list, before.mem)
          IN  [popped EXCEPT !.mem = Free(@, {before.list.head})]]

Popped(list, mem, n) == CHOOSE f : f = PopStep(list, mem, n, f)

(* The recursive function of POLL has its equation.                        *)
LEMMA PoppedExists ==
  ASSUME NEW list, NEW mem, NEW n \in Nat
  PROVE  Popped(list, mem, n) = PopStep(list, mem, n, Popped(list, mem, n))
<1> DEFINE Next1(e) == [listPop(e.list, e.mem) EXCEPT !.mem = Free(@, {e.list.head})]
           Val(f, k) == IF k = 0 THEN [list |-> list, mem |-> mem] ELSE Next1(f[k - 1])
           Sol(m, f) == f = [k \in 0 .. m |-> Val(f, k)]
           S == {m \in Nat : \E f : Sol(m, f)}
<1> HIDE DEF Next1
<1>1. 0 \in S
  <2>1. Sol(0, [k \in 0 .. 0 |-> [list |-> list, mem |-> mem]])
    OBVIOUS
  <2> HIDE DEF Sol
  <2>2. QED
    BY <2>1
<1>2. ASSUME NEW m \in Nat, m \in S
      PROVE  m + 1 \in S
  <2>1. PICK f : Sol(m, f)
    BY <1>2
  <2>2. \A k \in 0 .. m : f[k] = Val(f, k)
    BY <2>1
  <2> DEFINE g == [k \in 0 .. m + 1 |-> IF k <= m THEN f[k] ELSE Val(f, k)]
  <2>3. ASSUME NEW k \in 0 .. m + 1
        PROVE  g[k] = Val(g, k)
    <3>1. CASE k = 0
      BY <2>2, <3>1
    <3>2. CASE k \in 1 .. m + 1
      <4>1. g[k - 1] = f[k - 1]
        BY <3>2
      <4>2. g[k] = Val(f, k)
        BY <2>2, <3>2
      <4>3. QED
        BY <3>2, <4>1, <4>2
    <3>3. QED
      BY <3>1, <3>2
  <2>4. g = [k \in 0 .. m + 1 |-> g[k]]
    OBVIOUS
  <2> HIDE DEF g
  <2>5. Sol(m + 1, g)
    BY <2>3, <2>4
  <2> HIDE DEF Sol
  <2>6. \E hd : Sol(m + 1, hd)
    BY <2>5
  <2>7. QED
    BY <2>6
<1>3. Nat \subseteq S
  <2> HIDE DEF S
  <2> QED
    BY <1>1, <1>2, SetInduction
<1>4. \E f : Sol(n, f)
  <2> HIDE DEF Sol
  <2>1. n \in S
    BY <1>3
  <2>2. QED
    BY <2>1
<1>5. \E f : f = PopStep(list, mem, n, f)
  BY <1>4 DEF PopStep, Next1
<1>6. QED
  BY <1>5, Zenon DEF Popped

(* One round leads from the state before to the state after. *)
AfterPop(before, after) ==
  /\ after.list = listPop(before.list, before.mem).list
  /\ after.mem = Free(listPop(before.list, before.mem).mem, {before.list.head})

(* What POLL has popped after each node.                                   *)
LEMMA PoppedValues ==
  ASSUME NEW list, NEW mem, NEW n \in Nat
  PROVE  /\ Popped(list, mem, n)[0] = [list |-> list, mem |-> mem]
         /\ \A k \in 1 .. n :
              AfterPop(Popped(list, mem, n)[k - 1], Popped(list, mem, n)[k])
<1> DEFINE f == Popped(list, mem, n)
           g == PopStep(list, mem, n, f)
           nxt(e) == [listPop(e.list, e.mem) EXCEPT !.mem = Free(@, {e.list.head})]
<1>1. f = g
  BY PoppedExists
<1> HIDE DEF f
<1>2. \A k \in 0 .. n : g[k] = IF k = 0 THEN [list |-> list, mem |-> mem] ELSE nxt(f[k - 1])
  BY DEF PopStep
<1> HIDE DEF g
<1>3. \A k \in 0 .. n : f[k] = IF k = 0 THEN [list |-> list, mem |-> mem] ELSE nxt(f[k - 1])
  BY <1>1, <1>2
<1>4. f[0] = [list |-> list, mem |-> mem]
  <2>1. 0 \in 0 .. n
    OBVIOUS
  <2>2. QED
    BY <1>3, <2>1
<1>5. ASSUME NEW e
      PROVE  /\ nxt(e).list = listPop(e.list, e.mem).list
             /\ nxt(e).mem = Free(listPop(e.list, e.mem).mem, {e.list.head})
  <2>1. CASE e.list.len = 1
    BY <2>1 DEF listPop
  <2>2. CASE e.list.len # 1
    BY <2>2 DEF listPop
  <2>3. QED
    BY <2>1, <2>2
<1> HIDE DEF nxt
<1>6. ASSUME NEW k \in 1 .. n
      PROVE  f[k] = nxt(f[k - 1])
  <2>1. k \in 0 .. n /\ k # 0
    OBVIOUS
  <2>2. QED
    BY <1>3, <2>1
<1>7. \A k \in 1 .. n : AfterPop(f[k - 1], f[k])
  BY <1>5, <1>6 DEF AfterPop
<1>8. QED
  BY <1>4, <1>7 DEF f

(* After n rounds of POLL's loop the list holds what is left. *)
LEMMA PollHolds ==
  ASSUME NEW list, NEW mem, NEW t, NEW c, ListHolds(list, mem, t, c), NEW n \in 0 .. Len(c)
  PROVE  LET left == Popped(list, mem, n)[n]
         IN  /\ ListHolds(left.list, left.mem, t, SubSeq(c, n + 1, Len(c)))
             /\ Replaces(c, mem, SubSeq(c, n + 1, Len(c)), left.mem)
<1> DEFINE N == Len(c)
           f == Popped(list, mem, n)
           rest(k) == SubSeq(c, k + 1, N)
           P(k) == ListHolds(f[k].list, f[k].mem, t, rest(k)) /\ Replaces(c, mem, rest(k), f[k].mem)
           S == {k \in Nat : k <= n => P(k)}
<1>1. N \in Nat /\ n \in Nat /\ n <= N
  BY HeldNodes
<1>2. c \in Seq(DOMAIN mem)
  BY DEF ListHolds
<1>3. /\ f[0] = [list |-> list, mem |-> mem]
      /\ \A k \in 1 .. n : AfterPop(f[k - 1], f[k])
  BY <1>1, PoppedValues
<1> HIDE DEF f
<1>4. 0 \in S
  <2>1. f[0].list = list /\ f[0].mem = mem
    BY <1>3
  <2>2. rest(0) = c
    BY <1>2
  <2> HIDE DEF rest
  <2>3. Range(c) \subseteq DOMAIN mem
    BY HeldNodes
  <2>4. Replaces(c, mem, c, mem)
    BY <2>3 DEF Replaces
  <2>5. QED
    BY <2>1, <2>2, <2>4
<1>5. ASSUME NEW k \in Nat, k \in S
      PROVE  k + 1 \in S
  <2>1. SUFFICES ASSUME k + 1 <= n
                 PROVE  P(k + 1)
    OBVIOUS
  <2> DEFINE l == f[k].list
             m == f[k].mem
             d == rest(k)
             popped == listPop(l, m)
  <2>2. P(k) /\ k < N /\ k + 1 \in 1 .. n /\ (k + 1) - 1 = k
    BY <1>1, <1>5, <2>1
  <2>3. /\ f[k + 1].list = popped.list
        /\ f[k + 1].mem = Free(popped.mem, {l.head})
    <3>1. AfterPop(f[k], f[k + 1])
      BY <1>3, <2>2
    <3>2. QED
      BY <3>1 DEF AfterPop
  <2>4. d \in Seq(DOMAIN mem) /\ Len(d) = N - k /\ RemoveAt(d, 1) = SubSeq(c, k + 2, N)
    BY <1>2, <2>2, RestShrinks
  <2>5. rest(k + 1) = RemoveAt(d, 1)
    <3>1. (k + 1) + 1 = k + 2
      OBVIOUS
    <3>2. QED
      BY <2>4, <3>1
  <2> HIDE DEF rest
  <2>6. ListHolds(l, m, t, d) /\ Replaces(c, mem, d, m)
    BY <2>2
  <2>7. d # <<>> /\ 1 \in 1 .. Len(d)
    BY <1>1, <2>2, <2>4
  <2> HIDE DEF l, m, d
  <2>8. popped.list = UnlinkedList(d, 1, m) /\ Unlinked(d, 1, m, Free(popped.mem, {l.head}))
    BY <2>6, <2>7, PopUnlinks
  <2> HIDE DEF popped
  <2>9. /\ ListHolds(UnlinkedList(d, 1, m), f[k + 1].mem, t, RemoveAt(d, 1))
        /\ Replaces(d, m, RemoveAt(d, 1), f[k + 1].mem)
    BY <2>3, <2>6, <2>7, <2>8, UnlinkHolds
  <2>10. Replaces(c, mem, RemoveAt(d, 1), f[k + 1].mem)
    BY <2>6, <2>9, ReplacesTwice
  <2>11. QED
    BY <2>3, <2>5, <2>8, <2>9, <2>10
<1>6. Nat \subseteq S
  <2> HIDE DEF S
  <2> QED
    BY <1>4, <1>5, SetInduction
<1>7. P(n)
  <2> HIDE DEF P
  <2>1. n \in S
    BY <1>1, <1>6
  <2>2. QED
    BY <1>1, <2>1
<1>8. QED
  BY <1>7 DEF f

----------------------------------------------------------------------------
(* The invariant: every list holds its chain, no list is empty, and every  *)
(* node is on one of them.                                                 *)

Shape(ns, ls, q) ==
  /\ DOMAIN ns \subseteq Addr
  /\ q = [t \in DOMAIN ls |-> q[t]]
  /\ \A t \in DOMAIN ls : t \in Ttl /\ q[t] # <<>> /\ ListHolds(ls[t], ns, t, q[t])
  /\ \A a \in DOMAIN ns : \E t \in DOMAIN ls : a \in Range(q[t])

Queues == [t \in DOMAIN lists |-> Chain(t)]

Chained == Shape(nodes, lists, Queues)

(* The sequences the lists hold are those Walk reads. *)
LEMMA ShapeIsWalked ==
  ASSUME IsFiniteSet(Addr), NEW ns, NEW ls, NEW q, Shape(ns, ls, q)
  PROVE  q = [t \in DOMAIN ls |-> Walk(ls[t], ns)]
<1>1. ASSUME NEW t \in DOMAIN ls
      PROVE  Walk(ls[t], ns) = q[t]
  <2>1. ListHolds(ls[t], ns, t, q[t])
    BY DEF Shape
  <2>2. QED
    BY <2>1, WalkReads
<1>2. q = [t \in DOMAIN ls |-> q[t]]
  BY DEF Shape
<1>3. QED
  BY <1>1, <1>2

(* A list does not notice what happens to the nodes of others.             *)
LEMMA Frame ==
  ASSUME NEW list, NEW mem, NEW t, NEW c, ListHolds(list, mem, t, c),
         NEW mem2, DOMAIN mem2 \subseteq Addr,
         \A b \in Range(c) : b \in DOMAIN mem2 /\ mem2[b] = mem[b]
  PROVE  ListHolds(list, mem2, t, c)
<1>1. /\ DOMAIN c = 1 .. Len(c)
      /\ \A i \in 1 .. Len(c) : c[i] \in Range(c)
  BY HeldNodes
<1>2. c \in Seq(DOMAIN mem) /\ IsInjective(c) /\ list = ListOf(c)
  BY DEF ListHolds
<1>3. \A i \in 1 .. Len(c) : c[i] \in DOMAIN mem2 /\ mem2[c[i]] = NodeOf(t, c, i)
  BY <1>1 DEF ListHolds
<1>4. c \in Seq(DOMAIN mem2)
  BY <1>1, <1>2, <1>3
<1>5. QED
  BY <1>2, <1>3, <1>4 DEF ListHolds

(* Lists share no node: a node has the ttl of its list. *)
LEMMA ListsApart ==
  ASSUME NEW ns, NEW ls, NEW q, Shape(ns, ls, q),
         NEW t \in DOMAIN ls, NEW u \in DOMAIN ls, t # u
  PROVE  Range(q[t]) \cap Range(q[u]) = {} /\ Range(q[u]) \subseteq DOMAIN ns
<1>1. ListHolds(ls[t], ns, t, q[t]) /\ ListHolds(ls[u], ns, u, q[u])
  BY DEF Shape
<1>2. \A v \in {t, u} : \A a \in Range(q[v]) : a \in DOMAIN ns /\ ns[a].ttl = v
  <2>1. ASSUME NEW v \in {t, u}, NEW a \in Range(q[v])
        PROVE  a \in DOMAIN ns /\ ns[a].ttl = v
    <3>1. ListHolds(ls[v], ns, v, q[v])
      BY <1>1
    <3>2. PICK i \in 1 .. Len(q[v]) : a = q[v][i] /\ a \in DOMAIN ns
      BY <3>1, HeldNodes
    <3>3. ns[a] = NodeOf(v, q[v], i)
      BY <3>1, <3>2 DEF ListHolds
    <3>4. QED
      BY <3>2, <3>3 DEF NodeOf
  <2>2. QED
    BY <2>1
<1>3. QED
  BY <1>2

ChainOf(ls, q, t) == IF t \in DOMAIN ls THEN q[t] ELSE <<>>

(* A change to one list leaves every other linked.                         *)
LEMMA OthersHold ==
  ASSUME NEW ns, NEW ls, NEW q, Shape(ns, ls, q), NEW t,
         NEW d, NEW mem, Replaces(ChainOf(ls, q, t), ns, d, mem), DOMAIN mem \subseteq Addr,
         NEW u \in DOMAIN ls, u # t
  PROVE  u \in Ttl /\ q[u] # <<>> /\ ListHolds(ls[u], mem, u, q[u])
<1> DEFINE c == ChainOf(ls, q, t)
<1>1. Range(c) \cap Range(q[u]) = {}
  <2>1. CASE t \in DOMAIN ls
    BY <2>1, ListsApart DEF ChainOf
  <2>2. CASE t \notin DOMAIN ls
    BY <2>2 DEF ChainOf, Range
  <2>3. QED
    BY <2>1, <2>2
<1>2. u \in Ttl /\ q[u] # <<>> /\ ListHolds(ls[u], ns, u, q[u])
  BY DEF Shape
<1>3. Range(q[u]) \subseteq DOMAIN ns
  BY <1>2, HeldNodes
<1>4. \A b \in Range(q[u]) : b \in DOMAIN mem /\ mem[b] = ns[b]
  BY <1>1, <1>3 DEF Replaces
<1>5. QED
  BY <1>2, <1>4, Frame

(* One list, new or not, is replaced by one that is not empty, *)
LEMMA SetShape ==
  ASSUME NEW ns, NEW ls, NEW q, Shape(ns, ls, q), NEW t \in Ttl,
         NEW d, d # <<>>, NEW list, NEW mem, ListHolds(list, mem, t, d),
         Replaces(ChainOf(ls, q, t), ns, d, mem),
         NEW ls2, ls2 = [u \in DOMAIN ls \cup {t} |-> IF u = t THEN list ELSE ls[u]],
         NEW q2, q2 = [u \in DOMAIN ls \cup {t} |-> IF u = t THEN d ELSE q[u]]
  PROVE  Shape(mem, ls2, q2)
<1>1. DOMAIN mem \subseteq Addr
  BY DEF ListHolds
<1>2. DOMAIN ls2 = DOMAIN ls \cup {t} /\ q2 = [u \in DOMAIN ls2 |-> q2[u]]
  OBVIOUS
<1>3. ASSUME NEW u \in DOMAIN ls2
      PROVE  u \in Ttl /\ q2[u] # <<>> /\ ListHolds(ls2[u], mem, u, q2[u])
  <2>1. CASE u = t
    BY <2>1
  <2>2. CASE u # t
    <3>1. u \in DOMAIN ls /\ ls2[u] = ls[u] /\ q2[u] = q[u]
      BY <1>2, <2>2
    <3>2. u \in Ttl /\ q[u] # <<>> /\ ListHolds(ls[u], mem, u, q[u])
      BY <1>1, <2>2, <3>1, OthersHold
    <3>3. QED
      BY <3>1, <3>2
  <2>3. QED
    BY <2>1, <2>2
<1>4. ASSUME NEW a \in DOMAIN mem
      PROVE  \E u \in DOMAIN ls2 : a \in Range(q2[u])
  <2>1. CASE a \in Range(d)
    <3>1. t \in DOMAIN ls2 /\ q2[t] = d
      BY <1>2
    <3>2. QED
      BY <2>1, <3>1
  <2>2. CASE a \notin Range(d)
    <3>1. a \in DOMAIN ns /\ a \notin Range(ChainOf(ls, q, t))
      BY <2>2 DEF Replaces
    <3>2. PICK u \in DOMAIN ls : a \in Range(q[u])
      BY <3>1 DEF Shape
    <3>3. u # t
      BY <3>1, <3>2 DEF ChainOf
    <3>4. u \in DOMAIN ls2 /\ q2[u] = q[u]
      BY <1>2, <3>3
    <3>5. QED
      BY <3>2, <3>4
  <2>3. QED
    BY <2>1, <2>2
<1>5. QED
  BY <1>1, <1>2, <1>3, <1>4 DEF Shape

(* or it has become empty and is dropped. *)
LEMMA DropShape ==
  ASSUME NEW ns, NEW ls, NEW q, Shape(ns, ls, q), NEW t \in DOMAIN ls,
         NEW mem, DOMAIN mem \subseteq Addr, Replaces(q[t], ns, <<>>, mem),
         NEW ls2, ls2 = Restrict(ls, DOMAIN ls \ {t}),
         NEW q2, q2 = Restrict(q, DOMAIN ls \ {t})
  PROVE  Shape(mem, ls2, q2)
<1>1. /\ DOMAIN ls2 = DOMAIN ls \ {t}
      /\ \A u \in DOMAIN ls \ {t} : ls2[u] = ls[u] /\ q2[u] = q[u]
      /\ q2 = [u \in DOMAIN ls2 |-> q2[u]]
  BY DEF Restrict
<1>2. Replaces(ChainOf(ls, q, t), ns, <<>>, mem)
  BY DEF ChainOf
<1>3. ASSUME NEW u \in DOMAIN ls2
      PROVE  u \in Ttl /\ q2[u] # <<>> /\ ListHolds(ls2[u], mem, u, q2[u])
  <2>1. u \in DOMAIN ls /\ u # t /\ ls2[u] = ls[u] /\ q2[u] = q[u]
    BY <1>1
  <2>2. u \in Ttl /\ q[u] # <<>> /\ ListHolds(ls[u], mem, u, q[u])
    BY <1>2, <2>1, OthersHold
  <2>3. QED
    BY <2>1, <2>2
<1>4. ASSUME NEW a \in DOMAIN mem
      PROVE  \E u \in DOMAIN ls2 : a \in Range(q2[u])
  <2>1. Range(<<>>) = {}
    BY DEF Range
  <2>2. a \in DOMAIN ns /\ a \notin Range(q[t])
    BY <2>1 DEF Replaces
  <2>3. PICK u \in DOMAIN ls : a \in Range(q[u])
    BY <2>2 DEF Shape
  <2>4. u \in DOMAIN ls2 /\ q2[u] = q[u]
    BY <1>1, <2>2, <2>3
  <2>5. QED
    BY <2>3, <2>4
<1>5. QED
  BY <1>1, <1>3, <1>4 DEF Shape

(* What TimeoutQueues makes of a queue, empty or not. *)
Updated(q, t, d) == [u \in DOMAIN q \cup {t} |-> IF u = t THEN d ELSE q[u]]

Kept(all) == Restrict(all, {u \in DOMAIN all : all[u] # <<>>})

(* The abstract queues, without the one that became empty.                 *)
LEMMA KeptQueues ==
  ASSUME NEW q, \A u \in DOMAIN q : q[u] # <<>>, NEW t, NEW d
  PROVE  /\ d = <<>> => Kept(Updated(q, t, d)) = Restrict(q, DOMAIN q \ {t})
         /\ d # <<>> => Kept(Updated(q, t, d)) = Updated(q, t, d)
<1> DEFINE all == Updated(q, t, d)
           S == DOMAIN q
<1>1. /\ DOMAIN q = S /\ DOMAIN all = S \cup {t}
      /\ all = [u \in S \cup {t} |-> IF u = t THEN d ELSE q[u]]
  BY DEF Updated
<1> HIDE DEF all
<1>2. CASE d = <<>>
  <2>1. {u \in DOMAIN all : all[u] # <<>>} = S \ {t}
    BY <1>1, <1>2
  <2>2. QED
    BY <1>1, <1>2, <2>1 DEF Restrict, Kept, all
<1>3. CASE d # <<>>
  <2>1. {u \in DOMAIN all : all[u] # <<>>} = S \cup {t}
    BY <1>1, <1>3
  <2>2. Kept(all) = all
    BY <1>1, <2>1 DEF Restrict, Kept
  <2>3. QED
    BY <1>3, <2>2 DEF all
<1>4. QED
  BY <1>2, <1>3

(* TimeoutQueues puts a queue in, or drops an empty one.                   *)
LEMMA WithIs ==
  ASSUME Chained, NEW t, NEW d
  PROVE  TQ!With(t, d) = IF d = <<>> THEN Restrict(Queues, DOMAIN lists \ {t})
                         ELSE Updated(Queues, t, d)
<1>1. DOMAIN Queues = DOMAIN lists /\ \A u \in DOMAIN Queues : Queues[u] # <<>>
  BY DEF Chained, Shape, Queues
<1>2. TQ!With(t, d) = Kept(Updated(Queues, t, d))
  BY Zenon DEF TQ!With, TQ!Restrict, Restrict, Queues, Updated, Kept
<1>3. /\ d = <<>> => Kept(Updated(Queues, t, d)) = Restrict(Queues, DOMAIN Queues \ {t})
      /\ d # <<>> => Kept(Updated(Queues, t, d)) = Updated(Queues, t, d)
  BY <1>1, KeptQueues, Zenon
<1>4. QED
  BY <1>1, <1>2, <1>3, Zenon

(* The refinement mapping reads the queues back from memory.               *)
LEMMA NewQueues ==
  ASSUME IsFiniteSet(Addr), NEW q, Shape(nodes', lists', q)
  PROVE  Chained' /\ Queues' = q
<1>1. q = [t \in DOMAIN lists' |-> Walk(lists'[t], nodes')]
  BY ShapeIsWalked
<1>2. Queues' = q
  BY <1>1 DEF Queues, Chain
<1>3. QED
  BY <1>2 DEF Chained

----------------------------------------------------------------------------
(* Each action keeps the invariant and is the abstract one. *)

(* listPush is an Enqueue.                                                 *)
LEMMA PushStep ==
  ASSUME IsFiniteSet(Addr), Chained, NEW a \in Addr, NEW t \in Ttl, Push(a, t)
  PROVE  Chained' /\ TQ!Enqueue(a, t)
<1> DEFINE list == IF t \in DOMAIN lists THEN lists[t] ELSE createNewList
           done == listPush(list, WithNode(nodes, t, a), a)
           c == ChainOf(lists, Queues, t)
           d == Append(c, a)
           q == Updated(Queues, t, d)
<1>1. /\ a \in Addr \ DOMAIN nodes
      /\ nodes' = done.mem
      /\ lists' = [u \in DOMAIN lists \cup {t} |-> IF u = t THEN done.list ELSE lists[u]]
  BY DEF Push, SetList, WithNode
<1>2. ListHolds(list, nodes, t, c)
  <2>1. CASE t \in DOMAIN lists
    BY <2>1 DEF Chained, Shape, ChainOf
  <2>2. CASE t \notin DOMAIN lists
    <3>1. c = <<>> /\ list = createNewList
      BY <2>2 DEF ChainOf
    <3>2. <<>> \in Seq(DOMAIN nodes) /\ Len(<<>>) = 0 /\ IsInjective(<<>>)
      BY DEF IsInjective
    <3>3. createNewList = ListOf(<<>>)
      BY <3>2 DEF createNewList, ListOf
    <3>4. DOMAIN nodes \subseteq Addr
      BY DEF Chained, Shape
    <3>5. QED
      BY <3>1, <3>2, <3>3, <3>4 DEF ListHolds
  <2>3. QED
    BY <2>1, <2>2
<1> HIDE DEF list, c
<1>3. ListHolds(done.list, done.mem, t, d) /\ Replaces(c, nodes, d, done.mem)
  BY <1>1, <1>2, PushHolds
<1>4. d # <<>>
  <2>1. c \in Seq(DOMAIN nodes)
    BY <1>2 DEF ListHolds
  <2>2. QED
    BY <2>1
<1>5. Shape(nodes, lists, Queues) /\ DOMAIN Queues = DOMAIN lists
  BY DEF Chained, Queues
<1> HIDE DEF done, d
<1>6. q = [u \in DOMAIN lists \cup {t} |-> IF u = t THEN d ELSE Queues[u]]
  BY <1>5 DEF Updated
<1> HIDE DEF q
<1>7. Shape(nodes', lists', q)
  BY <1>1, <1>3, <1>4, <1>5, <1>6, SetShape DEF c
<1>8. Chained' /\ Queues' = q
  BY <1>7, NewQueues
<1>9. Queues' = TQ!With(t, d)
  BY <1>4, <1>8, WithIs DEF q
<1>10. ~ TQ!Linked(a)
  <2>1. \A u \in DOMAIN lists : Range(Queues[u]) \subseteq DOMAIN nodes
    <3>1. ASSUME NEW u \in DOMAIN lists
          PROVE  Range(Queues[u]) \subseteq DOMAIN nodes
      <4>1. ListHolds(lists[u], nodes, u, Queues[u])
        BY <1>5 DEF Shape
      <4>2. QED
        BY <4>1, HeldNodes
    <3>2. QED
      BY <3>1
  <2>2. ~ \E u \in DOMAIN Queues : a \in Range(Queues[u])
    BY <1>1, <1>5, <2>1
  <2>3. QED
    BY <2>2 DEF TQ!Linked, TQ!Range, Range, Queues
<1>11. c = IF t \in DOMAIN Queues THEN Queues[t] ELSE <<>>
  BY <1>5 DEF c, ChainOf
<1>12. QED
  BY <1>8, <1>9, <1>10, <1>11, Zenon DEF TQ!Enqueue, Queues, d

(* A list is left empty: it is dropped. *)
LEMMA DropStep ==
  ASSUME IsFiniteSet(Addr), Chained, NEW t \in DOMAIN lists,
         DOMAIN nodes' \subseteq Addr, Replaces(Queues[t], nodes, <<>>, nodes'), DropList(t)
  PROVE  Chained' /\ Queues' = TQ!With(t, <<>>)
<1> DEFINE q == Restrict(Queues, DOMAIN lists \ {t})
<1>1. Shape(nodes, lists, Queues)
  BY DEF Chained
<1>2. lists' = Restrict(lists, DOMAIN lists \ {t})
  BY DEF DropList
<1>3. Shape(nodes', lists', q)
  BY <1>1, <1>2, DropShape
<1>4. TQ!With(t, <<>>) = q
  BY WithIs
<1> HIDE DEF q
<1>5. QED
  BY <1>3, <1>4, NewQueues

(* A list is left with something: it stays. *)
LEMMA ShrinkStep ==
  ASSUME IsFiniteSet(Addr), Chained, NEW t \in DOMAIN lists, NEW list, NEW d, d # <<>>,
         ListHolds(list, nodes', t, d), Replaces(Queues[t], nodes, d, nodes'), SetList(t, list)
  PROVE  Chained' /\ Queues' = TQ!With(t, d)
<1> DEFINE q == Updated(Queues, t, d)
<1>1. Shape(nodes, lists, Queues) /\ DOMAIN Queues = DOMAIN lists /\ t \in Ttl
  BY DEF Chained, Queues, Shape
<1>2. lists' = [u \in DOMAIN lists \cup {t} |-> IF u = t THEN list ELSE lists[u]]
  BY DEF SetList
<1>3. q = [u \in DOMAIN lists \cup {t} |-> IF u = t THEN d ELSE Queues[u]]
  BY <1>1 DEF Updated
<1>4. Replaces(ChainOf(lists, Queues, t), nodes, d, nodes')
  BY DEF ChainOf
<1>5. TQ!With(t, d) = q
  BY WithIs
<1> HIDE DEF q
<1>6. Shape(nodes', lists', q)
  BY <1>1, <1>2, <1>3, <1>4, SetShape
<1>7. QED
  BY <1>5, <1>6, NewQueues

(* The nodes POLL pops from a list are a Dequeue.                          *)
LEMMA PollStep ==
  ASSUME IsFiniteSet(Addr), Chained, NEW t \in DOMAIN lists, NEW n, PollList(t, n)
  PROVE  Chained' /\ TQ!Dequeue(t)
<1> DEFINE c == Queues[t]
           d == SubSeq(c, n + 1, Len(c))
           left == Popped(lists[t], nodes, n)[n]
<1>1. ListHolds(lists[t], nodes, t, c) /\ c # <<>>
  BY DEF Chained, Shape
<1>2. lists[t].len = Len(c) /\ Len(c) \in Nat
  BY <1>1, HeldNodes DEF ListHolds, ListOf
<1>3. /\ n \in 0 .. Len(c)
      /\ nodes' = left.mem
      /\ IF left.list.len = 0 THEN DropList(t) ELSE SetList(t, left.list)
  BY <1>2, Zenon DEF PollList, Popped, PopStep
<1>4. ListHolds(left.list, left.mem, t, d) /\ Replaces(c, nodes, d, left.mem)
  BY <1>1, <1>3, PollHolds
<1> HIDE DEF left, d
<1>5. left.list.len = Len(d) /\ (d = <<>> <=> Len(d) = 0) /\ DOMAIN nodes' \subseteq Addr
  BY <1>3, <1>4, HeldNodes DEF ListHolds, ListOf
<1>6. Chained' /\ Queues' = TQ!With(t, d)
  <2>1. CASE d = <<>>
    <3>1. DropList(t) /\ Replaces(c, nodes, <<>>, nodes')
      BY <1>3, <1>4, <1>5, <2>1
    <3>2. QED
      BY <1>5, <2>1, <3>1, DropStep
  <2>2. CASE d # <<>>
    <3>1. SetList(t, left.list) /\ ListHolds(left.list, nodes', t, d) /\ Replaces(c, nodes, d, nodes')
      BY <1>3, <1>4, <1>5, <2>2
    <3>2. QED
      BY <2>2, <3>1, ShrinkStep
  <2>3. QED
    BY <2>1, <2>2
<1>7. \E k \in 0 .. Len(Queues[t]) :
        Queues' = TQ!With(t, SubSeq(Queues[t], k + 1, Len(Queues[t])))
  BY <1>3, <1>6 DEF d
<1>8. QED
  BY <1>6, <1>7, Zenon DEF TQ!Dequeue, Queues

(* listPull is a Withdraw.                                                 *)
LEMMA PullStep ==
  ASSUME IsFiniteSet(Addr), Chained, NEW a \in DOMAIN nodes, Pull(a)
  PROVE  Chained' /\ \E t \in DOMAIN lists : TQ!Withdraw(t)
<1>1. PICK t \in DOMAIN lists : a \in Range(Queues[t])
  BY DEF Chained, Shape
<1> DEFINE c == Queues[t]
<1>2. ListHolds(lists[t], nodes, t, c) /\ c # <<>>
  BY DEF Chained, Shape
<1>3. /\ Len(c) \in Nat /\ DOMAIN c = 1 .. Len(c)
      /\ lists[t].len = Len(c)
  BY <1>2, HeldNodes DEF ListHolds, ListOf
<1>4. PICK i \in 1 .. Len(c) : a = c[i]
  BY <1>1, <1>2, HeldNodes
<1>5. nodes[a].ttl = t
  BY <1>2, <1>4, HeldPointers
<1> DEFINE first == cutAtHead(lists[t], nodes, a)
           done == cutAtTail(first.list, first.mem, a)
           d == RemoveAt(c, i)
<1>6. \/ lists[t].len = 1 /\ DropList(t) /\ nodes' = Free(nodes, {a})
      \/ lists[t].len # 1 /\ SetList(t, Shortened(done.list))
         /\ nodes' = Free(done.mem, {a})
  BY <1>5 DEF Pull, Shortened
<1>7. c \in Seq(DOMAIN nodes) /\ DOMAIN nodes \subseteq Addr
  BY <1>2 DEF ListHolds
<1>8. d \in Seq(DOMAIN nodes) /\ Len(d) = Len(c) - 1
  BY <1>7, RemovedAt
<1>9. d = <<>> <=> Len(c) = 1
  <2>1. d = <<>> <=> Len(d) = 0
    BY <1>8, EmptyLength
  <2>2. QED
    BY <1>3, <1>8, <2>1
<1> HIDE DEF c, d, first, done
<1>10. Chained' /\ Queues' = TQ!With(t, d)
  <2>1. CASE Len(c) = 1
    <3>1. DropList(t) /\ nodes' = Free(nodes, {a})
      BY <1>3, <1>6, <2>1
    <3>2. Range(c) = {a} /\ Range(<<>>) = {}
      BY <1>2, <1>4, <2>1, HeldNodes DEF Range
    <3>3. DOMAIN nodes' = DOMAIN nodes \ {a} /\ \A b \in DOMAIN nodes \ {a} : nodes'[b] = nodes[b]
      BY <3>1 DEF Free, Restrict
    <3>4. Replaces(c, nodes, <<>>, nodes') /\ DOMAIN nodes' \subseteq Addr
      BY <1>7, <3>2, <3>3 DEF Replaces
    <3>5. Chained' /\ Queues' = TQ!With(t, <<>>)
      BY <3>1, <3>4, DropStep DEF c
    <3>6. QED
      BY <1>9, <2>1, <3>5
  <2>2. CASE Len(c) # 1
    <3>1. SetList(t, Shortened(done.list)) /\ nodes' = Free(done.mem, {a})
      BY <1>3, <1>6, <2>2
    <3>2. CutOut(lists[t], nodes, c[i], first, done)
      BY <1>4 DEF first, done, CutOut
    <3>3. /\ Shortened(done.list) = UnlinkedList(c, i, nodes)
          /\ Unlinked(c, i, nodes, nodes')
      <4>1. /\ Shortened(done.list) = UnlinkedList(c, i, nodes)
            /\ Unlinked(c, i, nodes, Free(done.mem, {c[i]}))
        BY <1>2, <2>2, <3>2, PullUnlinks, Zenon
      <4>2. QED
        BY <1>4, <3>1, <4>1
    <3>4. /\ ListHolds(UnlinkedList(c, i, nodes), nodes', t, d)
          /\ Replaces(c, nodes, d, nodes')
      BY <1>2, <3>3, UnlinkHolds DEF d
    <3>5. SetList(t, UnlinkedList(c, i, nodes)) /\ d # <<>>
      BY <1>9, <2>2, <3>1, <3>3
    <3>6. QED
      BY <3>4, <3>5, ShrinkStep DEF c
  <2>3. QED
    BY <2>1, <2>2
<1>11. TQ!Withdraw(t)
  <2>1. \E k \in DOMAIN Queues[t] : Queues' = TQ!With(t, RemoveAt(Queues[t], k))
    BY <1>3, <1>10 DEF c, d
  <2>2. QED
    BY <2>1, Zenon DEF TQ!Withdraw, TQ!RemoveAt, RemoveAt, Queues
<1>12. QED
  BY <1>10, <1>11

(* deleteList frees every node of every list: there is no other. *)
LEMMA DeleteStep ==
  ASSUME IsFiniteSet(Addr), Chained, DeleteAll
  PROVE  Chained' /\ TQ!Clear
<1>1. DOMAIN nodes \subseteq UNION {deleteList(lists[t], nodes) : t \in DOMAIN lists}
  <2>1. ASSUME NEW a \in DOMAIN nodes
        PROVE  \E t \in DOMAIN lists : a \in deleteList(lists[t], nodes)
    BY DEF Chained, Shape, Queues, Chain, deleteList
  <2>2. QED
    BY <2>1
<1>2. lists' = <<>> /\ DOMAIN nodes' = {}
  BY <1>1 DEF DeleteAll, Free, Restrict
<1>3. DOMAIN lists' = {}
  BY <1>2
<1>4. Queues' = <<>>
  <2>1. Queues' = [t \in DOMAIN lists' |-> Chain(t)']
    BY DEF Queues
  <2>2. QED
    BY <1>3, <2>1
<1>5. Chained'
  <2>1. Queues' = [t \in DOMAIN lists' |-> Queues'[t]]
    BY <1>3, <1>4
  <2>2. QED
    BY <1>2, <1>3, <2>1 DEF Chained, Shape
<1>6. TQ!Clear
  BY <1>4, Zenon DEF TQ!Clear, Queues
<1>7. QED
  BY <1>5, <1>6

----------------------------------------------------------------------------
(* Every behaviour keeps the invariant: the addresses a process can use    *)
(* are finitely many.                                                      *)
LEMMA ChainedAtFirst ==
  ASSUME ListInit
  PROVE  Chained
<1>1. nodes = <<>> /\ lists = <<>> /\ DOMAIN nodes = {} /\ DOMAIN lists = {}
  BY DEF ListInit
<1>2. Queues = [t \in DOMAIN lists |-> Queues[t]]
  BY <1>1 DEF Queues
<1>3. QED
  BY <1>1, <1>2 DEF Chained, Shape

(* Every step on the lists is a step on the queues.                        *)
LEMMA StepImplements ==
  ASSUME IsFiniteSet(Addr), Chained, [ListNext]_listvars
  PROVE  Chained' /\ [TQ!Next]_Queues
<1>1. CASE UNCHANGED listvars
  BY <1>1 DEF listvars, Chained, Shape, Queues, Chain
<1>2. CASE ListNext
  <2>1. ASSUME NEW a \in Addr, NEW t \in Ttl, Push(a, t)
        PROVE  Chained' /\ TQ!Next
    <3>1. Chained' /\ TQ!Enqueue(a, t)
      BY <2>1, PushStep
    <3>2. QED
      BY <3>1, Zenon DEF TQ!Next
  <2>2. ASSUME NEW t \in DOMAIN lists, NEW n, PollList(t, n)
        PROVE  Chained' /\ TQ!Next
    <3>1. Chained' /\ TQ!Dequeue(t)
      BY <2>2, PollStep
    <3>2. QED
      BY <3>1 DEF TQ!Next
  <2>3. ASSUME NEW a \in DOMAIN nodes, Pull(a)
        PROVE  Chained' /\ TQ!Next
    <3>1. Chained' /\ \E t \in DOMAIN lists : TQ!Withdraw(t)
      BY <2>3, PullStep
    <3>2. QED
      BY <3>1 DEF TQ!Next
  <2>4. ASSUME DeleteAll
        PROVE  Chained' /\ TQ!Next
    <3>1. Chained' /\ TQ!Clear
      BY <2>4, DeleteStep
    <3>2. QED
      BY <3>1, Zenon DEF TQ!Next
  <2>5. QED
    BY <1>2, <2>1, <2>2, <2>3, <2>4 DEF ListNext
<1>3. QED
  BY <1>1, <1>2

(* Every list in timeout_queues is a chain, linked both ways, in every state.*)
THEOREM ChainedInvariant ==
  ASSUME IsFiniteSet(Addr)
  PROVE  ListSpec => []Chained
<1>1. ListInit => Chained
  BY ChainedAtFirst
<1>2. Chained /\ [ListNext]_listvars => Chained'
  BY StepImplements
<1>3. QED
  BY <1>1, <1>2, PTL DEF ListSpec

(* The lists are the sequences the commands are modelled with: a push      *)
(* appends, POLL takes from the head in order, a removal takes any node    *)
(* and leaves the others in order, an empty list is dropped.               *)
THEOREM ListsAreQueues ==
  ASSUME IsFiniteSet(Addr)
  PROVE  ListSpec => ImplementsQueues
<1>1. ListInit => TQ!Init
  <2>1. ASSUME ListInit
        PROVE  Queues = <<>>
    BY <2>1 DEF ListInit, Queues
  <2>2. QED
    BY <2>1, Zenon DEF TQ!Init, Queues
<1>2. Chained /\ [ListNext]_listvars => [TQ!Next]_Queues
  BY StepImplements
<1>3. [TQ!Next]_Queues => [TQ!Next]_([t \in DOMAIN lists |-> Chain(t)])
  BY Zenon DEF Queues
<1>4. QED
  BY <1>1, <1>2, <1>3, ChainedInvariant, PTL DEF ListSpec, ImplementsQueues, TQ!Spec

(* Nothing leaks: whatever is allocated, a list leads to it. *)
THEOREM NothingLeaks ==
  ASSUME IsFiniteSet(Addr)
  PROVE  ListSpec => []NoLeak
<1>1. Chained => NoLeak
  <2>1. SUFFICES ASSUME Chained
                 PROVE  NoLeak
    OBVIOUS
  <2>2. \A t \in DOMAIN lists : Queues[t] = Chain(t)
    BY DEF Queues
  <2>3. ASSUME NEW a \in DOMAIN nodes
        PROVE  \E t \in DOMAIN lists : a \in Range(Chain(t))
    BY <2>1, <2>2 DEF Chained, Shape
  <2>4. ASSUME NEW t \in DOMAIN lists
        PROVE  Range(Chain(t)) \subseteq DOMAIN nodes
    <3>1. ListHolds(lists[t], nodes, t, Chain(t))
      BY <2>1, <2>2 DEF Chained, Shape
    <3>2. QED
      BY <3>1, HeldNodes
  <2>5. QED
    BY <2>3, <2>4 DEF NoLeak
<1>2. QED
  BY <1>1, ChainedInvariant, PTL

(* A list reads the same forwards and backwards, after any pushes and      *)
(* removals at its head, tail and middle.                                  *)
THEOREM ListsStayLinked ==
  ASSUME IsFiniteSet(Addr)
  PROVE  ListSpec => []WellLinked
<1>1. Chained => WellLinked
  <2>1. SUFFICES ASSUME Chained
                 PROVE  WellLinked
    OBVIOUS
  <2>2. ASSUME NEW t \in DOMAIN lists
        PROVE  /\ t \in Ttl /\ Chain(t) # <<>> /\ ListHolds(lists[t], nodes, t, Chain(t))
               /\ 1 \in 1 .. Len(Chain(t)) /\ Len(Chain(t)) \in 1 .. Len(Chain(t))
    <3>1. t \in Ttl /\ Chain(t) # <<>> /\ ListHolds(lists[t], nodes, t, Chain(t))
      BY <2>1 DEF Chained, Shape, Queues
    <3>2. Len(Chain(t)) \in Nat /\ Len(Chain(t)) # 0
      BY <3>1, HeldNodes
    <3>3. QED
      BY <3>1, <3>2
  <2>3. TypeOK
    <3>1. DOMAIN nodes \subseteq Addr /\ DOMAIN lists \subseteq Ttl
      BY <2>1, <2>2 DEF Chained, Shape
    <3>2. ASSUME NEW a \in DOMAIN nodes
          PROVE  nodes[a] \in [ttl : Ttl, next : Addr \cup {NULL}, prev : Addr \cup {NULL}]
      <4>1. PICK t \in DOMAIN lists : a \in Range(Chain(t))
        BY <2>1 DEF Chained, Shape, Queues
      <4> DEFINE c == Chain(t)
      <4>2. t \in Ttl /\ ListHolds(lists[t], nodes, t, c)
        BY <2>2
      <4> HIDE DEF c
      <4>3. PICK i \in 1 .. Len(c) : a = c[i]
        BY <4>1, <4>2, HeldNodes DEF c
      <4>4. Len(c) \in Nat /\ \A j \in 1 .. Len(c) : c[j] \in Addr
        BY <4>2, HeldNodes
      <4>5. nodes[a] = NodeOf(t, c, i)
        BY <4>2, <4>3 DEF ListHolds
      <4>6. /\ i = Len(c) \/ c[i + 1] \in Addr
            /\ i = 1 \/ c[i - 1] \in Addr
        BY <4>4
      <4>7. QED
        BY <4>2, <4>5, <4>6 DEF NodeOf
    <3>3. ASSUME NEW t \in DOMAIN lists
          PROVE  lists[t] \in [head : Addr, tail : Addr, len : 1 .. Cardinality(Addr)]
      <4> DEFINE c == Chain(t)
      <4>1. /\ c # <<>> /\ ListHolds(lists[t], nodes, t, c)
            /\ 1 \in 1 .. Len(c) /\ Len(c) \in 1 .. Len(c)
        BY <2>2
      <4> HIDE DEF c
      <4>2. lists[t] = [head |-> c[1], tail |-> c[Len(c)], len |-> Len(c)]
        BY <4>1, HeldPointers
      <4>3. c[1] \in Addr /\ c[Len(c)] \in Addr
        BY <4>1, HeldNodes
      <4>4. Len(c) \in 1 .. Cardinality(Addr)
        BY <4>1, HeldFits
      <4>5. QED
        BY <4>2, <4>3, <4>4
    <3>4. QED
      BY <3>1, <3>2, <3>3 DEF TypeOK
  <2>4. ASSUME NEW t \in DOMAIN lists
        PROVE  /\ Len(Chain(t)) = lists[t].len
               /\ IsInjective(Chain(t))
               /\ Last(Chain(t)) = lists[t].tail
               /\ \A i \in DOMAIN Chain(t) :
                    /\ nodes[Chain(t)[i]].ttl = t
                    /\ nodes[Chain(t)[i]].prev = IF i = 1 THEN NULL ELSE Chain(t)[i - 1]
    <3> DEFINE c == Chain(t)
    <3>1. c # <<>> /\ ListHolds(lists[t], nodes, t, c)
      BY <2>2
    <3> HIDE DEF c
    <3>2. /\ lists[t] = [head |-> c[1], tail |-> c[Len(c)], len |-> Len(c)]
          /\ \A i \in 1 .. Len(c) : /\ nodes[c[i]].ttl = t
                                   /\ nodes[c[i]].prev = IF i = 1 THEN NULL ELSE c[i - 1]
      BY <3>1, HeldPointers
    <3>3. DOMAIN c = 1 .. Len(c) /\ IsInjective(c)
      BY <3>1, HeldNodes DEF ListHolds
    <3>4. /\ Len(c) = lists[t].len /\ Last(c) = lists[t].tail
      BY <3>2 DEF Last
    <3>5. QED
      BY <3>2, <3>3, <3>4 DEF c
  <2>5. QED
    BY <2>3, <2>4 DEF WellLinked
<1>2. QED
  BY <1>1, ChainedInvariant, PTL

----------------------------------------------------------------------------
(* The hash maps. *)

----------------------------------------------------------------------------
(* The sizes of tables. *)

SizeStep(f) == [k \in 2 .. 30 |-> IF k = 2 THEN 4 ELSE 2 * f[k - 1]]

(* The definition of Size, as an equation.                                 *)
LEMMA SizeExists == Size = SizeStep(Size)
<1> DEFINE Val(f, k) == IF k = 2 THEN 4 ELSE 2 * f[k - 1]
           Sol(m, f) == f = [k \in 2 .. m |-> Val(f, k)]
           S == {m \in Nat : \E f : Sol(m, f)}
<1>1. 0 \in S
  <2>1. Sol(0, [k \in 2 .. 0 |-> 4])
    OBVIOUS
  <2> HIDE DEF Sol
  <2>2. QED
    BY <2>1
<1>2. ASSUME NEW m \in Nat, m \in S
      PROVE  m + 1 \in S
  <2>1. PICK f : Sol(m, f)
    BY <1>2
  <2>2. \A k \in 2 .. m : f[k] = Val(f, k)
    BY <2>1
  <2> DEFINE g == [k \in 2 .. m + 1 |-> IF k <= m THEN f[k] ELSE Val(f, k)]
  <2>3. ASSUME NEW k \in 2 .. m + 1
        PROVE  g[k] = Val(g, k)
    <3>1. CASE k = 2
      BY <2>2, <3>1
    <3>2. CASE k \in 3 .. m + 1
      <4>1. g[k - 1] = f[k - 1]
        BY <3>2
      <4>2. g[k] = Val(f, k)
        BY <2>2, <3>2
      <4>3. QED
        BY <3>2, <4>1, <4>2
    <3>3. QED
      BY <3>1, <3>2
  <2>4. g = [k \in 2 .. m + 1 |-> g[k]]
    OBVIOUS
  <2> HIDE DEF g
  <2>5. Sol(m + 1, g)
    BY <2>3, <2>4
  <2> HIDE DEF Sol
  <2>6. \E h1 : Sol(m + 1, h1)
    BY <2>5
  <2>7. QED
    BY <2>6
<1>3. Nat \subseteq S
  <2> HIDE DEF S
  <2> QED
    BY <1>1, <1>2, SetInduction
<1>4. \E f : Sol(30, f)
  <2> HIDE DEF Sol
  <2>1. 30 \in S
    BY <1>3
  <2>2. QED
    BY <2>1
<1>5. \E f : f = SizeStep(f)
  BY <1>4 DEF SizeStep
<1>6. QED
  BY <1>5, Zenon DEF Size, SizeStep

(* The sizes are numbers from 4 on, each twice the one before.             *)
LEMMA SizesDouble ==
  /\ Size[2] = 4
  /\ \A k \in 2 .. 30 : Size[k] \in Nat /\ Size[k] >= 4
  /\ \A k \in 2 .. 29 : Size[k + 1] = 2 * Size[k]
  /\ \A k \in 2 .. 30 : \A j \in 2 .. k - 1 : 2 * Size[j] <= Size[k]
<1> DEFINE g == SizeStep(Size)
<1>1. \A k \in 2 .. 30 : g[k] = IF k = 2 THEN 4 ELSE 2 * Size[k - 1]
  BY DEF SizeStep
<1>2. Size = g
  BY SizeExists
<1> HIDE DEF g
<1>3. \A k \in 2 .. 30 : Size[k] = IF k = 2 THEN 4 ELSE 2 * Size[k - 1]
  BY <1>1, <1>2
<1>4. Size[2] = 4
  BY <1>3
<1>5. \A k \in 2 .. 29 : Size[k + 1] = 2 * Size[k]
  <2>1. ASSUME NEW k \in 2 .. 29
        PROVE  Size[k + 1] = 2 * Size[k]
    <3>1. k + 1 \in 2 .. 30 /\ k + 1 # 2 /\ (k + 1) - 1 = k
      OBVIOUS
    <3>2. QED
      BY <1>3, <3>1
  <2>2. QED
    BY <2>1
<1> DEFINE P(k) == /\ Size[k] \in Nat /\ Size[k] >= 4
                   /\ \A j \in 2 .. k - 1 : Size[j] \in Nat /\ 2 * Size[j] <= Size[k]
           S == {m \in Nat : m + 2 <= 30 => P(m + 2)}
<1>6. 0 \in S
  BY <1>4
<1>7. ASSUME NEW m \in Nat, m \in S
      PROVE  m + 1 \in S
  <2>1. SUFFICES ASSUME (m + 1) + 2 <= 30
                 PROVE  P((m + 1) + 2)
    OBVIOUS
  <2>2. P(m + 2) /\ m + 2 \in 2 .. 29 /\ (m + 2) + 1 = (m + 1) + 2
    BY <1>7, <2>1
  <2>3. Size[(m + 1) + 2] = 2 * Size[m + 2]
    BY <1>5, <2>2
  <2>4. ASSUME NEW j \in 2 .. ((m + 1) + 2) - 1
        PROVE  Size[j] \in Nat /\ 2 * Size[j] <= Size[(m + 1) + 2]
    <3>1. j = m + 2 \/ j \in 2 .. (m + 2) - 1
      OBVIOUS
    <3>2. CASE j = m + 2
      BY <2>2, <2>3, <3>2
    <3>3. CASE j \in 2 .. (m + 2) - 1
      <4>1. Size[j] \in Nat /\ 2 * Size[j] <= Size[m + 2] /\ Size[m + 2] \in Nat
        BY <2>2, <3>3
      <4>2. QED
        BY <2>3, <4>1
    <3>4. QED
      BY <3>1, <3>2, <3>3
  <2>5. QED
    BY <2>2, <2>3, <2>4
<1>8. Nat \subseteq S
  <2> HIDE DEF S
  <2> QED
    BY <1>6, <1>7, SetInduction
<1>9. ASSUME NEW k \in 2 .. 30
      PROVE  P(k)
  <2> HIDE DEF P
  <2>1. k - 2 \in Nat /\ (k - 2) + 2 = k
    OBVIOUS
  <2>2. k - 2 \in S
    BY <1>8, <2>1
  <2>3. QED
    BY <2>1, <2>2
<1>10. QED
  BY <1>4, <1>5, <1>9

(* Rounding up a number that is more than half of a size gives that size. *)
LEMMA RoundsUp ==
  ASSUME NEW k \in 2 .. 30, NEW n \in Nat, n <= Size[k], k = 2 \/ 2 * n > Size[k]
  PROVE  RoundUp(n) = Size[k]
<1> DEFINE T == {m \in Sizes : m >= n}
<1>1. /\ \A j \in 2 .. 30 : Size[j] \in Nat /\ Size[j] >= 4
      /\ \A i \in 2 .. 30 : \A j \in 2 .. i - 1 : 2 * Size[j] <= Size[i]
      /\ Size[2] = 4
  BY SizesDouble
<1>2. Size[k] \in T
  BY <1>1 DEF Sizes
<1>3. ASSUME NEW m \in T
      PROVE  Size[k] <= m
  <2>1. PICK j \in 2 .. 30 : m = Size[j] /\ m >= n
    BY DEF Sizes
  <2>2. CASE j < k
    <3>1. j \in 2 .. k - 1 /\ k # 2
      BY <2>2
    <3>2. 2 * Size[j] <= Size[k]
      BY <1>1, <3>1
    <3>3. QED
      BY <1>1, <2>1, <3>1, <3>2
  <2>3. CASE j = k
    BY <1>1, <2>1, <2>3
  <2>4. CASE j > k
    <3>1. k \in 2 .. j - 1
      BY <2>4
    <3>2. QED
      BY <1>1, <2>1, <3>1
  <2>5. QED
    BY <2>2, <2>3, <2>4
<1>4. T \in SUBSET Int
  BY <1>1 DEF Sizes
<1> HIDE DEF T
<1>5. \E m \in T : \A x \in T : m <= x
  BY <1>2, <1>3
<1>6. Min(T) \in T /\ \A x \in T : Min(T) <= x
  BY <1>5, Zenon DEF Min
<1>7. Min(T) = Size[k]
  <2>1. Size[k] <= Min(T) /\ Min(T) <= Size[k]
    BY <1>2, <1>3, <1>6
  <2>2. Size[k] \in Int /\ Min(T) \in Int
    BY <1>2, <1>4, <1>6
  <2>3. QED
    BY <2>1, <2>2
<1>8. QED
  BY <1>7 DEF RoundUp, T

(* Filled up to the bound, a table has an empty bucket; it is at least     *)
(* half full, and the next size has a higher bound.                        *)
LEMMA BoundLeavesRoom ==
  ASSUME NEW n \in Nat, n >= 4
  PROVE  /\ UpperBound(n) \in Nat /\ UpperBound(n) < n /\ n <= 2 * UpperBound(n)
         /\ UpperBound(n) < UpperBound(2 * n)
BY DEF UpperBound

----------------------------------------------------------------------------
(* A search looks at every bucket once before it is back at a bucket it    *)
(* has seen: triangular steps, in a table whose size is a power of two.    *)

(* Division with remainder.                                                *)
LEMMA DivMod ==
  ASSUME NEW a \in Int, NEW n \in Int, n > 0
  PROVE  a = n * (a \div n) + (a % n) /\ a % n \in 0 .. n - 1 /\ a \div n \in Int
OBVIOUS

(* Half of twice a number.                                                 *)
LEMMA Halved ==
  ASSUME NEW x \in Int, NEW y \in Int, x = 2 * y
  PROVE  x \div 2 = y
OBVIOUS

(* A number is even or odd.                                                *)
LEMMA Parity ==
  ASSUME NEW x \in Int
  PROVE  \E y \in Int : x = 2 * y \/ x = 2 * y + 1
<1>1. x = 2 * (x \div 2) + (x % 2) /\ x % 2 \in 0 .. 1 /\ x \div 2 \in Int
  BY DivMod
<1>2. QED
  BY <1>1

Times(a, b) == a * b

(* What an odd number times b has in powers of two, b has. *)
LEMMA HalvesOdd ==
  ASSUME NEW a \in Int, NEW b \in Int, NEW c \in Int, NEW q \in Int,
         a = 2 * c + 1, Times(a, b) = 2 * q
  PROVE  \E d \in Int : b = 2 * d /\ Times(a, d) = q
<1>1. b = 2 * (q - c * b)
  BY DEF Times
<1>2. a * (2 * (q - c * b)) = 2 * q
  BY <1>1 DEF Times
<1>3. Times(a, q - c * b) = q
  BY <1>2 DEF Times
<1>4. q - c * b \in Int
  OBVIOUS
<1>5. QED
  BY <1>1, <1>3, <1>4

Multiple(b, m) == \E r \in Int : b = m * r

(* When a power of two divides a product of which one factor is odd, it    *)
(* divides the other.                                                      *)
LEMMA OddDivides ==
  ASSUME NEW k \in 2 .. 30, NEW a \in Int, NEW c \in Int, a = 2 * c + 1, NEW b \in Int,
         Multiple(Times(a, b), Size[k])
  PROVE  Multiple(b, Size[k])
<1> DEFINE P(m) == \A x \in Int : Multiple(Times(a, x), m) => Multiple(x, m)
           S == {m \in Nat : m + 2 <= 30 => P(Size[m + 2])}
<1>1. /\ Size[2] = 4
      /\ \A i \in 2 .. 30 : Size[i] \in Nat
      /\ \A i \in 2 .. 29 : Size[i + 1] = 2 * Size[i]
  BY SizesDouble
<1>2. ASSUME NEW m \in Nat, P(m)
      PROVE  P(2 * m)
  <2>1. SUFFICES ASSUME NEW x \in Int, NEW r \in Int, Times(a, x) = (2 * m) * r
                 PROVE  Multiple(x, 2 * m)
    BY DEF Multiple
  <2> DEFINE q == m * r
  <2>2. q \in Int /\ Times(a, x) = 2 * q
    BY <2>1
  <2> HIDE DEF q
  <2>3. PICK d \in Int : x = 2 * d /\ Times(a, d) = q
    BY <2>2, HalvesOdd
  <2>4. PICK e \in Int : d = m * e
    BY <1>2, <2>3 DEF Multiple, q
  <2>5. x = (2 * m) * e
    BY <2>3, <2>4
  <2>6. QED
    BY <2>5 DEF Multiple
<1>3. P(1)
  <2>1. \A x \in Int : x = 1 * x
    OBVIOUS
  <2>2. QED
    BY <2>1 DEF Multiple
<1>4. P(4)
  <2>1. P(2 * 1)
    BY <1>2, <1>3
  <2>2. P(2 * (2 * 1))
    BY <1>2, <2>1
  <2>3. 2 * (2 * 1) = 4
    OBVIOUS
  <2> HIDE DEF P
  <2>4. QED
    BY <2>2, <2>3
<1> HIDE DEF P
<1>5. 0 \in S
  BY <1>1, <1>4
<1>6. ASSUME NEW m \in Nat, m \in S
      PROVE  m + 1 \in S
  <2>1. SUFFICES ASSUME (m + 1) + 2 <= 30
                 PROVE  P(Size[(m + 1) + 2])
    OBVIOUS
  <2>2. P(Size[m + 2]) /\ m + 2 \in 2 .. 29 /\ (m + 2) + 1 = (m + 1) + 2
    BY <1>6, <2>1
  <2>3. Size[(m + 1) + 2] = 2 * Size[m + 2] /\ Size[m + 2] \in Nat
    BY <1>1, <2>2
  <2>4. QED
    BY <1>2, <2>2, <2>3
<1>7. Nat \subseteq S
  <2> HIDE DEF S
  <2> QED
    BY <1>5, <1>6, SetInduction
<1>8. P(Size[k])
  <2>1. k - 2 \in Nat /\ (k - 2) + 2 = k
    OBVIOUS
  <2>2. k - 2 \in S
    BY <1>7, <2>1
  <2>3. QED
    BY <2>1, <2>2
<1>9. QED
  BY <1>8 DEF P

(* One of two successive numbers is even.                                  *)
LEMMA Triangular ==
  ASSUME NEW s \in Int
  PROVE  (s * (s + 1)) \div 2 \in Int /\ 2 * ((s * (s + 1)) \div 2) = s * (s + 1)
<1>1. ASSUME NEW y \in Int, s = 2 * y
      PROVE  s * (s + 1) = 2 * (y * (s + 1)) /\ y * (s + 1) \in Int
  BY <1>1
<1>2. ASSUME NEW y \in Int, s = 2 * y + 1
      PROVE  s * (s + 1) = 2 * (s * (y + 1)) /\ s * (y + 1) \in Int
  BY <1>2
<1>3. PICK z \in Int : s * (s + 1) = 2 * z
  BY <1>1, <1>2, Parity
<1>4. s * (s + 1) \in Int
  OBVIOUS
<1>5. QED
  BY <1>3, <1>4, Halved

(* Two different steps of a search come to different buckets.              *)
LEMMA ProbesDiffer ==
  ASSUME NEW k \in 2 .. 30, NEW key \in Key,
         NEW s \in 0 .. Size[k] - 1, NEW r \in 0 .. Size[k] - 1,
         Probe(Size[k], key, s) = Probe(Size[k], key, r), r < s
  PROVE  FALSE
<1> DEFINE n == Size[k]
           ts == (s * (s + 1)) \div 2
           tr == (r * (r + 1)) \div 2
           a == s - r
           b == s + r + 1
<1>1. n \in Nat /\ n >= 4
  BY SizesDouble
<1>2. Hash[key] \in Nat
  BY HashAssumption
<1>3. s \in Int /\ r \in Int /\ 0 <= r /\ r < s /\ s < n
  BY <1>1
<1>4. ts \in Int /\ 2 * ts = s * (s + 1) /\ tr \in Int /\ 2 * tr = r * (r + 1)
  BY <1>3, Triangular
<1>5. (Hash[key] + ts) % n = (Hash[key] + tr) % n
  BY DEF Probe
<1> HIDE DEF n, ts, tr
<1>6. \E q \in Int : ts - tr = n * q
  <2> DEFINE x == Hash[key] + ts
             y == Hash[key] + tr
  <2>1. x \in Int /\ y \in Int /\ x - y = ts - tr
    BY <1>2, <1>4
  <2>2. x % n = y % n
    BY <1>5
  <2> HIDE DEF x, y
  <2>3. /\ x = n * (x \div n) + (x % n) /\ x \div n \in Int
        /\ y = n * (y \div n) + (y % n) /\ y \div n \in Int
        /\ x % n \in Int /\ y % n \in Int
    BY <1>1, <2>1, DivMod
  <2> DEFINE u == x \div n
             v == y \div n
  <2>4. x = n * u + (y % n) /\ y = n * v + (y % n) /\ u \in Int /\ v \in Int /\ y % n \in Int
    BY <2>2, <2>3
  <2> HIDE DEF u, v
  <2>5. x - y = n * (u - v) /\ u - v \in Int
    BY <1>1, <2>4
  <2>6. QED
    BY <2>1, <2>5
<1>7. PICK q \in Int : ts - tr = n * q
  BY <1>6
<1>8. a * b = 2 * (n * q) /\ a \in Int /\ b \in Int /\ n * q \in Int
  <2>1. a * b = s * (s + 1) - r * (r + 1)
    BY <1>3
  <2>2. s * (s + 1) - r * (r + 1) = 2 * (ts - tr)
    BY <1>4
  <2>3. QED
    BY <1>1, <1>3, <1>7, <2>1, <2>2
<1>9. 0 < a /\ a < 2 * n /\ 0 < b /\ b < 2 * n /\ a + b = 2 * s + 1
  BY <1>1, <1>3
<1> HIDE DEF a, b
<1>10. ASSUME NEW x \in Int, NEW y \in Int, NEW c \in Int, x = 2 * c + 1,
              x * y = 2 * (n * q), 0 < y, y < 2 * n
       PROVE  FALSE
  <2> DEFINE w == n * q
  <2>0. w \in Int /\ Times(x, y) = 2 * w
    BY <1>8, <1>10 DEF Times
  <2> HIDE DEF w
  <2>1. PICK d \in Int : y = 2 * d /\ Times(x, d) = w
    BY <1>10, <2>0, HalvesOdd
  <2>2. Multiple(Times(x, d), Size[k])
    BY <2>1 DEF Multiple, n, w
  <2>3. Multiple(d, Size[k])
    BY <1>10, <2>2, OddDivides
  <2>4. PICK e \in Int : d = n * e
    BY <2>3 DEF Multiple, n
  <2>5. 0 < n * e /\ n * e < n
    BY <1>1, <1>10, <2>1, <2>4
  <2>6. e <= 0 \/ e >= 1
    OBVIOUS
  <2>7. e <= 0 => n * e <= 0
    BY <1>1
  <2>8. e >= 1 => n * e >= n
    BY <1>1
  <2>9. QED
    BY <1>1, <2>5, <2>6, <2>7, <2>8
<1>11. PICK y \in Int : a = 2 * y \/ a = 2 * y + 1
  BY <1>8, Parity
<1>12. CASE a = 2 * y + 1
  BY <1>8, <1>9, <1>10, <1>12
<1>13. CASE a = 2 * y
  <2>1. b = 2 * (s - y) + 1 /\ s - y \in Int
    BY <1>3, <1>8, <1>9, <1>13
  <2>2. b * a = 2 * (n * q)
    BY <1>8
  <2>3. QED
    BY <1>8, <1>9, <1>10, <2>1, <2>2
<1>14. QED
  BY <1>11, <1>12, <1>13

(* As many steps as there are buckets come to all of them.                 *)
LEMMA ProbesReachAll ==
  ASSUME NEW k \in 2 .. 30, NEW key \in Key
  PROVE  /\ \A s \in Nat : Probe(Size[k], key, s) \in 0 .. Size[k] - 1
         /\ \A s, r \in 0 .. Size[k] - 1 :
              Probe(Size[k], key, s) = Probe(Size[k], key, r) => s = r
         /\ \A i \in 0 .. Size[k] - 1 :
              \E s \in 0 .. Size[k] - 1 : Probe(Size[k], key, s) = i
<1> DEFINE n == Size[k]
           B == 0 .. n - 1
           f == [s \in B |-> Probe(n, key, s)]
<1>1. n \in Nat /\ n >= 4
  BY SizesDouble
<1>2. ASSUME NEW s \in Nat
      PROVE  Probe(n, key, s) \in B
  <2>1. (s * (s + 1)) \div 2 \in Int /\ Hash[key] \in Nat
    BY Triangular, HashAssumption
  <2> DEFINE x == Hash[key] + (s * (s + 1)) \div 2
  <2>2. x \in Int
    BY <2>1
  <2>3. Probe(n, key, s) = x % n
    BY DEF Probe
  <2> HIDE DEF x, n
  <2>4. x % n \in 0 .. n - 1
    BY <1>1, <2>2, DivMod
  <2>5. QED
    BY <2>3, <2>4
<1>3. \A s, r \in B : f[s] = f[r] => s = r
  <2>1. ASSUME NEW s \in B, NEW r \in B, f[s] = f[r], s # r
        PROVE  FALSE
    <3>1. s < r \/ r < s
      BY <1>1, <2>1
    <3>2. Probe(Size[k], key, s) = Probe(Size[k], key, r)
      BY <2>1
    <3>3. QED
      BY <3>1, <3>2, ProbesDiffer
  <2>2. QED
    BY <2>1
<1>4. f \in [B -> B]
  BY <1>1, <1>2
<1>5. IsFiniteSet(B)
  BY <1>1, FS_Interval
<1> HIDE DEF n, B
<1>6. \A i \in B : \E s \in B : f[s] = i
  <2>1. f \in Injection(B, B)
    BY <1>3, <1>4 DEF Injection, IsInjective
  <2>2. f \in Surjection(B, B)
    BY <1>5, <2>1, FS_Injection
  <2>3. QED
    BY <2>2 DEF Surjection
<1>7. QED
  BY <1>2, <1>3, <1>6 DEF n, B

----------------------------------------------------------------------------
(* What is true of every table. *)

Entry == [key : Key, value : Value]

Flag == {"empty", "deleted", "live"}

Used(t) == {i \in Buckets(t) : t.flags[i] # "empty"}

Typed(t) ==
  /\ t = [n_buckets |-> t.n_buckets, size |-> t.size, n_occupied |-> t.n_occupied,
          upper_bound |-> t.upper_bound, flags |-> t.flags, entry |-> t.entry]
  /\ t.n_buckets \in Sizes \cup {0}
  /\ DOMAIN t.flags = Buckets(t) /\ \A i \in Buckets(t) : t.flags[i] \in Flag
  /\ DOMAIN t.entry = Buckets(t) /\ \A i \in Live(t) : t.entry[i] \in Entry

Counted(t) ==
  /\ t.size = Cardinality(Live(t))
  /\ t.n_occupied = Cardinality(Used(t))
  /\ t.upper_bound = IF t.n_buckets = 0 THEN 0 ELSE UpperBound(t.n_buckets)
  /\ t.n_occupied <= t.upper_bound

Distinct(t) ==
  \A i, j \in Live(t) : t.entry[i].key = t.entry[j].key => i = j

(* A search for the key comes to bucket i before any empty bucket. *)
Reached(n, flags, key, i) ==
  \E s \in 0 .. n - 1 :
    /\ Probe(n, key, s) = i
    /\ \A r \in 0 .. s - 1 : flags[Probe(n, key, r)] # "empty"

Findable(t) ==
  \A i \in Live(t) : Reached(t.n_buckets, t.flags, t.entry[i].key, i)

(* The inductive invariant. *)
Sound(t) == Typed(t) /\ Counted(t) /\ Distinct(t) /\ Findable(t)

Entries(t) == {t.entry[i] : i \in Live(t)}

(* The same, for any size of a table.                                      *)
LEMMA Probing ==
  ASSUME NEW n \in Sizes, NEW key \in Key
  PROVE  /\ n \in Nat /\ n >= 4
         /\ \A s \in Nat : Probe(n, key, s) \in 0 .. n - 1
         /\ \A s, r \in 0 .. n - 1 : Probe(n, key, s) = Probe(n, key, r) => s = r
         /\ \A i \in 0 .. n - 1 : \E s \in 0 .. n - 1 : Probe(n, key, s) = i
<1>1. PICK k \in 2 .. 30 : n = Size[k]
  BY DEF Sizes
<1>2. n \in Nat /\ n >= 4
  BY <1>1, SizesDouble
<1>3. /\ \A s \in Nat : Probe(Size[k], key, s) \in 0 .. Size[k] - 1
      /\ \A s, r \in 0 .. Size[k] - 1 :
           Probe(Size[k], key, s) = Probe(Size[k], key, r) => s = r
      /\ \A i \in 0 .. Size[k] - 1 :
           \E s \in 0 .. Size[k] - 1 : Probe(Size[k], key, s) = i
  BY ProbesReachAll
<1>4. QED
  BY <1>1, <1>2, <1>3, Zenon

(* The smallest of some steps. *)
LEMMA FirstStep ==
  ASSUME NEW T \in SUBSET Nat, T # {}
  PROVE  Min(T) \in T /\ \A s \in T : Min(T) <= s
<1>1. \E n \in T : \A m \in T : n <= m
  BY LeastNatural
<1>2. QED
  BY <1>1, Zenon DEF Min

(* The sets of buckets are finite, and live buckets are used.              *)
LEMMA Finite ==
  ASSUME NEW t, Typed(t)
  PROVE  /\ t.n_buckets \in Nat
         /\ IsFiniteSet(Buckets(t)) /\ Cardinality(Buckets(t)) = t.n_buckets
         /\ IsFiniteSet(Live(t)) /\ IsFiniteSet(Used(t))
         /\ Cardinality(Live(t)) \in Nat /\ Cardinality(Used(t)) \in Nat
         /\ Live(t) \subseteq Used(t) /\ Cardinality(Live(t)) <= Cardinality(Used(t))
<1>1. t.n_buckets \in Nat
  <2>1. t.n_buckets \in Sizes \/ t.n_buckets = 0
    BY DEF Typed
  <2>2. CASE t.n_buckets \in Sizes
    <3>1. PICK k \in 2 .. 30 : t.n_buckets = Size[k]
      BY <2>2 DEF Sizes
    <3>2. QED
      BY <3>1, SizesDouble
  <2>3. QED
    BY <2>1, <2>2
<1>2. IsFiniteSet(Buckets(t)) /\ Cardinality(Buckets(t)) = t.n_buckets
  <2>1. t.n_buckets - 1 \in Int /\ 0 \in Int
    BY <1>1
  <2>2. /\ IsFiniteSet(0 .. t.n_buckets - 1)
        /\ Cardinality(0 .. t.n_buckets - 1)
             = IF 0 > t.n_buckets - 1 THEN 0 ELSE (t.n_buckets - 1) - 0 + 1
    BY <2>1, FS_Interval, Zenon
  <2>3. QED
    BY <1>1, <2>2 DEF Buckets
<1>3. Live(t) \subseteq Used(t) /\ Used(t) \subseteq Buckets(t)
  BY DEF Live, Used
<1>4. IsFiniteSet(Used(t))
  BY <1>2, <1>3, FS_Subset
<1>5. IsFiniteSet(Live(t)) /\ Cardinality(Live(t)) <= Cardinality(Used(t))
  BY <1>3, <1>4, FS_Subset
<1>6. QED
  BY <1>1, <1>2, <1>3, <1>4, <1>5, FS_CardinalityType

(* A table whose counters are right and in bounds has an empty bucket.     *)
LEMMA EmptyBucket ==
  ASSUME NEW t, Typed(t), Counted(t), t.n_buckets # 0
  PROVE  /\ t.n_occupied < t.n_buckets
         /\ \E e \in Buckets(t) : t.flags[e] = "empty"
<1>1. t.n_buckets \in Sizes
  BY DEF Typed
<1>2. t.n_buckets \in Nat /\ t.n_buckets >= 4
  BY <1>1, SizesDouble DEF Sizes
<1>3. UpperBound(t.n_buckets) \in Nat /\ UpperBound(t.n_buckets) < t.n_buckets
  BY <1>2, BoundLeavesRoom
<1>4. t.n_occupied \in Nat /\ t.n_occupied = Cardinality(Used(t))
  BY Finite DEF Counted
<1>5. t.n_occupied < t.n_buckets
  BY <1>2, <1>3, <1>4 DEF Counted
<1>6. Used(t) # Buckets(t)
  BY <1>4, <1>5, Finite
<1>7. QED
  BY <1>5, <1>6 DEF Used

(* The loop of kh_get, khash.h:237-240, ends within n_buckets steps, at an *)
(* empty bucket or at the key, and has met neither before.                 *)
LEMMA SearchEnds ==
  ASSUME NEW t, Typed(t), NEW e \in Buckets(t), t.flags[e] = "empty", NEW key \in Key,
         NEW end, end = SearchEnd(t, key)
  PROVE  /\ t.n_buckets \in Nat /\ end \in 0 .. t.n_buckets - 1
         /\ \/ t.flags[Probe(t.n_buckets, key, end)] = "empty"
            \/ Holds(t, Probe(t.n_buckets, key, end), key)
         /\ \A r \in 0 .. end - 1 :
              /\ t.flags[Probe(t.n_buckets, key, r)] # "empty"
              /\ ~Holds(t, Probe(t.n_buckets, key, r), key)
<1> DEFINE n == t.n_buckets
           P(s) == Probe(n, key, s)
           Stops(s) == \/ t.flags[P(s)] = "empty"
                       \/ Holds(t, P(s), key)
                       \/ s > 0 /\ P(s) = P(0)
           T == {s \in 0 .. 2 * n : Stops(s)}
<1>1. n \in Sizes
  BY DEF Typed, Buckets
<1>2. /\ n \in Nat /\ n >= 4
      /\ \A s, r \in 0 .. n - 1 : P(s) = P(r) => s = r
      /\ \A i \in 0 .. n - 1 : \E s \in 0 .. n - 1 : P(s) = i
  BY <1>1, Probing
<1>3. PICK s \in 0 .. n - 1 : P(s) = e
  BY <1>2 DEF Buckets
<1>4. end = Min(T)
  BY DEF SearchEnd
<1> HIDE DEF P, n
<1>5. s \in T
  BY <1>2, <1>3
<1>6. T \in SUBSET Nat
  BY <1>2
<1> HIDE DEF T
<1>7. end \in T /\ end <= s /\ \A r \in T : end <= r
  BY <1>4, <1>5, <1>6, FirstStep
<1>8. end \in 0 .. n - 1 /\ Stops(end)
  BY <1>2, <1>7 DEF T
<1>9. t.flags[P(end)] = "empty" \/ Holds(t, P(end), key)
  BY <1>2, <1>8
<1>10. ASSUME NEW r \in 0 .. end - 1
       PROVE  t.flags[P(r)] # "empty" /\ ~Holds(t, P(r), key)
  <2>1. r \in 0 .. 2 * n /\ ~(end <= r)
    BY <1>2, <1>8
  <2>2. ~Stops(r)
    BY <1>7, <2>1 DEF T
  <2>3. QED
    BY <2>2
<1>11. QED
  BY <1>2, <1>8, <1>9, <1>10 DEF P, n

(* As long as a bucket is empty, a lookup finds the bucket that holds the  *)
(* key, and n_buckets when there is none.                                  *)
LEMMA LookupFinds ==
  ASSUME NEW t, Sound(t), NEW key \in Key, NEW x, x = kh_get(t, key)
  PROVE  \/ x \in Live(t) /\ t.entry[x].key = key
         \/ x = t.n_buckets /\ \A i \in Live(t) : t.entry[i].key # key
<1> DEFINE n == t.n_buckets
<1>1. Typed(t) /\ Counted(t) /\ Distinct(t) /\ Findable(t)
  BY DEF Sound
<1>2. CASE n = 0
  <2>1. x = 0
    BY <1>2 DEF kh_get
  <2>2. Live(t) = {}
    BY <1>2 DEF Live, Buckets
  <2>3. QED
    BY <1>2, <2>1, <2>2
<1>3. CASE n # 0
  <2>1. n \in Sizes
    BY <1>1, <1>3 DEF Typed
  <2>2. n \in Nat /\ n >= 4 /\ \A s \in Nat : Probe(n, key, s) \in 0 .. n - 1
    BY <2>1, Probing
  <2>3. PICK e \in Buckets(t) : t.flags[e] = "empty"
    BY <1>1, <1>3, <2>2, EmptyBucket
  <2> DEFINE end == SearchEnd(t, key)
             i == Probe(n, key, end)
  <2>4. /\ end \in 0 .. n - 1
        /\ t.flags[i] = "empty" \/ Holds(t, i, key)
        /\ \A r \in 0 .. end - 1 : t.flags[Probe(n, key, r)] # "empty"
                                   /\ ~Holds(t, Probe(n, key, r), key)
    BY <1>1, <2>3, SearchEnds
  <2>5. x = IF Holds(t, i, key) THEN i ELSE n
    BY <1>3 DEF kh_get
  <2>6. i \in Buckets(t)
    BY <2>2, <2>4 DEF Buckets
  <2> HIDE DEF end, i
  <2>7. CASE Holds(t, i, key)
    BY <2>5, <2>6, <2>7 DEF Holds, Live
  <2>8. CASE ~Holds(t, i, key)
    <3>1. ASSUME NEW j \in Live(t), t.entry[j].key = key
          PROVE  FALSE
      <4>1. PICK s \in 0 .. n - 1 :
              /\ Probe(n, key, s) = j
              /\ \A r \in 0 .. s - 1 : t.flags[Probe(n, key, r)] # "empty"
        BY <1>1, <3>1 DEF Findable, Reached
      <4>2. Holds(t, j, key)
        BY <3>1 DEF Holds, Live
      <4>3. s < end \/ s = end \/ end < s
        BY <2>4
      <4>4. CASE s < end
        BY <2>4, <4>1, <4>2, <4>4
      <4>5. CASE s = end
        BY <2>8, <4>1, <4>2, <4>5 DEF i
      <4>6. CASE end < s
        <5>1. end \in 0 .. s - 1
          BY <2>4, <4>6
        <5>2. QED
          BY <2>4, <2>8, <4>1, <5>1 DEF i
      <4>7. QED
        BY <4>3, <4>4, <4>5, <4>6
    <3>2. QED
      BY <2>5, <2>8, <3>1
  <2>9. QED
    BY <2>7, <2>8
<1>4. QED
  BY <1>2, <1>3

----------------------------------------------------------------------------
(* Deleting and putting. *)

Without(t, keys) == {e \in Entries(t) : e.key \notin keys}

(* An entry of a table is that of a live bucket.                           *)
LEMMA EntryOf ==
  ASSUME NEW t, NEW e
  PROVE  e \in Entries(t) <=> \E i \in Live(t) : e = t.entry[i]
BY DEF Entries

Tombstone(t, r, x) ==
  /\ r.n_buckets = t.n_buckets /\ r.n_occupied = t.n_occupied
  /\ r.upper_bound = t.upper_bound /\ r.size = t.size - 1
  /\ r = [n_buckets |-> r.n_buckets, size |-> r.size, n_occupied |-> r.n_occupied,
          upper_bound |-> r.upper_bound, flags |-> r.flags, entry |-> r.entry]
  /\ DOMAIN r.flags = DOMAIN t.flags /\ DOMAIN r.entry = DOMAIN t.entry
  /\ r.flags[x] = "deleted"
  /\ \A i \in Buckets(t) : i # x => r.flags[i] = t.flags[i] /\ r.entry[i] = t.entry[i]

(* kh_del changes one flag and the size.                                   *)
LEMMA DeletedBucket ==
  ASSUME NEW t, Typed(t), NEW x \in Live(t)
  PROVE  Tombstone(t, kh_del(t, x), x)
<1> DEFINE r == [t EXCEPT !.flags[x] = "deleted", !.entry[x] = NoEntry, !.size = @ - 1]
           f == [t.flags EXCEPT ![x] = "deleted"]
           g == [t.entry EXCEPT ![x] = NoEntry]
           m == t.size - 1
           rec == [n_buckets |-> t.n_buckets, size |-> m, n_occupied |-> t.n_occupied,
                   upper_bound |-> t.upper_bound, flags |-> f, entry |-> g]
<1>1. kh_del(t, x) = r
  BY DEF kh_del
<1>2. t = [n_buckets |-> t.n_buckets, size |-> t.size, n_occupied |-> t.n_occupied,
           upper_bound |-> t.upper_bound, flags |-> t.flags, entry |-> t.entry]
  BY DEF Typed
<1>3. r = rec
  <2>1. PICK a, b, c, d, e, z :
          t = [n_buckets |-> a, size |-> b, n_occupied |-> c, upper_bound |-> d,
               flags |-> e, entry |-> z]
    BY <1>2, Zenon
  <2>2. /\ t.n_buckets = a /\ t.size = b /\ t.n_occupied = c /\ t.upper_bound = d
        /\ t.flags = e /\ t.entry = z
    BY <2>1
  <2> DEFINE t1 == [n_buckets |-> a, size |-> b, n_occupied |-> c, upper_bound |-> d,
                    flags |-> [e EXCEPT ![x] = "deleted"], entry |-> z]
             t2 == [n_buckets |-> a, size |-> b, n_occupied |-> c, upper_bound |-> d,
                    flags |-> [e EXCEPT ![x] = "deleted"],
                    entry |-> [z EXCEPT ![x] = NoEntry]]
  <2>3. [t EXCEPT !.flags[x] = "deleted"] = t1
    BY <2>1
  <2>4. [t1 EXCEPT !.entry[x] = NoEntry] = t2
    OBVIOUS
  <2>5. [t2 EXCEPT !.size = @ - 1] = rec
    BY <2>2
  <2>6. r = [[[t EXCEPT !.flags[x] = "deleted"] EXCEPT !.entry[x] = NoEntry]
              EXCEPT !.size = @ - 1]
    OBVIOUS
  <2>7. QED
    BY <2>3, <2>4, <2>5, <2>6
<1>4. x \in Buckets(t) /\ DOMAIN t.flags = Buckets(t) /\ DOMAIN t.entry = Buckets(t)
  BY DEF Typed, Live
<1>5. /\ DOMAIN f = DOMAIN t.flags /\ DOMAIN g = DOMAIN t.entry /\ f[x] = "deleted"
      /\ \A i \in Buckets(t) : i # x => f[i] = t.flags[i] /\ g[i] = t.entry[i]
  BY <1>4
<1> HIDE DEF r, f, g, m
<1>6. /\ rec.n_buckets = t.n_buckets /\ rec.size = m /\ rec.n_occupied = t.n_occupied
      /\ rec.upper_bound = t.upper_bound /\ rec.flags = f /\ rec.entry = g
  OBVIOUS
<1>7. rec = [n_buckets |-> rec.n_buckets, size |-> rec.size, n_occupied |-> rec.n_occupied,
             upper_bound |-> rec.upper_bound, flags |-> rec.flags, entry |-> rec.entry]
  OBVIOUS
<1> HIDE DEF rec
<1>8. Tombstone(t, rec, x)
  BY <1>5, <1>6, <1>7 DEF Tombstone, m
<1>9. QED
  BY <1>1, <1>3, <1>8

(* The live buckets of r hold what they held in t.                         *)
KeptEntries(r, t) == \A i \in Live(r) : r.entry[i] = t.entry[i]

(* kh_del, khash.h:349-355: what is left after a deletion is sound, and     *)
(* says of every other key what it said before.                            *)
LEMMA DeletionSound ==
  ASSUME NEW t, Sound(t), NEW x \in Live(t), NEW r, r = kh_del(t, x)
  PROVE  /\ Sound(r)
         /\ Entries(r) = Without(t, {t.entry[x].key})
         /\ Buckets(r) = Buckets(t) /\ Live(r) = Live(t) \ {x}
         /\ r.n_buckets = t.n_buckets
         /\ KeptEntries(r, t)
<1>1. Typed(t) /\ Counted(t) /\ Distinct(t) /\ Findable(t)
  BY DEF Sound
<1>2. Tombstone(t, r, x)
  BY <1>1, DeletedBucket
<1>3. x \in Buckets(t) /\ t.flags[x] = "live"
  BY DEF Live
<1>4. r.n_buckets = t.n_buckets /\ Buckets(r) = Buckets(t)
  BY <1>2 DEF Tombstone, Buckets
<1>5. Live(r) = Live(t) \ {x} /\ Used(r) = Used(t)
  BY <1>2, <1>3, <1>4 DEF Tombstone, Live, Used
<1>6. \A i \in Live(r) : r.entry[i] = t.entry[i]
  BY <1>2, <1>5 DEF Tombstone, Live
<1>7. Typed(r)
  <2>1. \A i \in Live(r) : r.entry[i] \in Entry
    BY <1>1, <1>5, <1>6 DEF Typed
  <2>2. \A i \in Buckets(r) : r.flags[i] \in Flag
    BY <1>1, <1>2, <1>4 DEF Typed, Tombstone, Flag
  <2>3. r.n_buckets \in Sizes \cup {0}
    BY <1>1, <1>4 DEF Typed
  <2>4. DOMAIN r.flags = Buckets(r) /\ DOMAIN r.entry = Buckets(r)
    BY <1>1, <1>2, <1>4 DEF Typed, Tombstone
  <2>5. QED
    BY <1>2, <2>1, <2>2, <2>3, <2>4 DEF Typed, Tombstone
<1>8. Counted(r)
  <2>1. Cardinality(Live(r)) = Cardinality(Live(t)) - 1
    BY <1>1, <1>5, Finite, FS_RemoveElement
  <2>2. QED
    BY <1>1, <1>2, <1>4, <1>5, <2>1 DEF Counted, Tombstone
<1>9. Distinct(r)
  BY <1>1, <1>5, <1>6 DEF Distinct
<1>10. Findable(r)
  <2>1. ASSUME NEW i \in Live(r)
        PROVE  Reached(r.n_buckets, r.flags, r.entry[i].key, i)
    <3> DEFINE n == t.n_buckets
               key == t.entry[i].key
    <3>1. PICK s \in 0 .. n - 1 :
            /\ Probe(n, key, s) = i
            /\ \A p \in 0 .. s - 1 : t.flags[Probe(n, key, p)] # "empty"
      BY <1>1, <1>5 DEF Findable, Reached
    <3>2. key \in Key
      BY <1>1, <1>5 DEF Typed, Entry
    <3>3. n \in Sizes
      BY <1>1, <1>3, Finite DEF Typed, Buckets
    <3>4. \A p \in Nat : Probe(n, key, p) \in Buckets(t)
      BY <3>2, <3>3, Probing DEF Buckets
    <3>5. \A p \in 0 .. s - 1 : r.flags[Probe(n, key, p)] # "empty"
      BY <1>2, <3>1, <3>4 DEF Tombstone
    <3>6. QED
      BY <1>4, <1>6, <3>1, <3>5 DEF Reached
  <2>2. QED
    BY <2>1 DEF Findable
<1>11. Entries(r) = Without(t, {t.entry[x].key})
  <2>1. ASSUME NEW e \in Entries(r)
        PROVE  e \in Without(t, {t.entry[x].key})
    <3>1. PICK i \in Live(r) : e = r.entry[i]
      BY EntryOf
    <3>2. i \in Live(t) /\ i # x /\ e = t.entry[i]
      BY <1>5, <1>6, <3>1
    <3>3. e.key # t.entry[x].key
      BY <1>1, <3>2 DEF Distinct
    <3>4. QED
      BY <3>2, <3>3, EntryOf DEF Without
  <2>2. ASSUME NEW e \in Without(t, {t.entry[x].key})
        PROVE  e \in Entries(r)
    <3>1. PICK i \in Live(t) : e = t.entry[i] /\ e.key # t.entry[x].key
      BY EntryOf DEF Without
    <3>2. i \in Live(r) /\ e = r.entry[i]
      BY <1>5, <1>6, <3>1
    <3>3. QED
      BY <3>2, EntryOf
  <2>3. QED
    BY <2>1, <2>2
<1>12. QED
  BY <1>4, <1>5, <1>6, <1>7, <1>8, <1>9, <1>10, <1>11 DEF Sound, KeptEntries

(* The Max of a set of steps is one of them.                               *)
LEMMA LastStep ==
  ASSUME NEW n \in Nat, NEW T \in SUBSET (0 .. n), T # {}
  PROVE  Max(T) \in T
<1> DEFINE S == {m \in Nat : m <= n /\ n - m \in T}
<1>1. PICK s \in T : TRUE
  OBVIOUS
<1>2. n - s \in S
  <2>1. s \in Nat /\ s <= n /\ n - s \in Nat /\ n - s <= n /\ n - (n - s) = s
    BY <1>1
  <2>2. QED
    BY <1>1, <2>1
<1>3. PICK m \in S : \A k \in S : m <= k
  BY <1>2, LeastNatural
<1>4. n - m \in T
  OBVIOUS
<1>5. ASSUME NEW k \in T
      PROVE  k <= n - m
  <2>1. k \in Nat /\ n - k \in Nat /\ n - k <= n /\ n - (n - k) = k
    OBVIOUS
  <2>2. n - k \in S
    BY <2>1
  <2>3. m <= n - k
    BY <1>3, <2>2
  <2>4. QED
    BY <2>1, <2>3
<1>6. \E k \in T : \A j \in T : k >= j
  BY <1>4, <1>5
<1>7. QED
  BY <1>6, Zenon DEF Max

(* A key that the table does not hold goes to a bucket that is not live,   *)
(* and that a search for it comes to.                                      *)
LEMMA FreeBucket ==
  ASSUME NEW t, Sound(t), t.n_buckets # 0, NEW key \in Key,
         \A i \in Live(t) : t.entry[i].key # key, NEW x, x = BucketFor(t, key)
  PROVE  x \in Buckets(t) /\ t.flags[x] # "live" /\ Reached(t.n_buckets, t.flags, key, x)
<1> DEFINE n == t.n_buckets
           end == SearchEnd(t, key)
           bucket == [s \in 0 .. end |-> Probe(n, key, s)]
           tombs == {s \in 0 .. end - 1 : t.flags[bucket[s]] = "deleted"}
<1>1. Typed(t) /\ Counted(t)
  BY DEF Sound
<1>2. n \in Sizes
  BY <1>1 DEF Typed
<1>3. n \in Nat /\ n >= 4 /\ \A s \in Nat : Probe(n, key, s) \in Buckets(t)
  BY <1>2, Probing DEF Buckets
<1>4. PICK e \in Buckets(t) : t.flags[e] = "empty"
  BY <1>1, <1>3, EmptyBucket
<1>5. /\ end \in 0 .. n - 1
      /\ t.flags[Probe(n, key, end)] = "empty" \/ Holds(t, Probe(n, key, end), key)
      /\ \A r \in 0 .. end - 1 : t.flags[Probe(n, key, r)] # "empty"
  BY <1>1, <1>4, SearchEnds
<1>6. x = IF Holds(t, bucket[end], key) \/ tombs = {} THEN bucket[end]
          ELSE bucket[Max(tombs)]
  BY DEF BucketFor
<1> HIDE DEF end
<1>7. \A s \in 0 .. end : bucket[s] = Probe(n, key, s) /\ bucket[s] \in Buckets(t)
  BY <1>3, <1>5
<1>8. end \in 0 .. end /\ end \in Nat
  BY <1>5
<1> HIDE DEF bucket
<1>9. ~Holds(t, bucket[end], key)
  BY <1>7, <1>8 DEF Holds, Live
<1>10. PICK s \in 0 .. end : x = bucket[s] /\ t.flags[x] \in {"empty", "deleted"}
  <2>1. CASE tombs = {}
    BY <1>5, <1>6, <1>7, <1>8, <1>9, <2>1
  <2>2. CASE tombs # {}
    <3>1. tombs \in SUBSET (0 .. end)
      BY <1>8
    <3> HIDE DEF tombs
    <3>2. Max(tombs) \in tombs
      BY <1>8, <2>2, <3>1, LastStep
    <3>3. QED
      BY <1>6, <1>9, <2>2, <3>1, <3>2 DEF tombs
  <2>3. QED
    BY <2>1, <2>2
<1>11. x \in Buckets(t) /\ t.flags[x] # "live" /\ s \in 0 .. n - 1 /\ Probe(n, key, s) = x
  BY <1>3, <1>5, <1>7, <1>10
<1>12. \A r \in 0 .. s - 1 : t.flags[Probe(n, key, r)] # "empty"
  BY <1>5, <1>10
<1>13. QED
  BY <1>11, <1>12 DEF Reached

(* What is written when the key goes to bucket x. *)
Filled(t, r, x, e) ==
  /\ r.n_buckets = t.n_buckets /\ r.upper_bound = t.upper_bound
  /\ r.size = t.size + 1
  /\ r.n_occupied = t.n_occupied + (IF t.flags[x] = "empty" THEN 1 ELSE 0)
  /\ r = [n_buckets |-> r.n_buckets, size |-> r.size, n_occupied |-> r.n_occupied,
          upper_bound |-> r.upper_bound, flags |-> r.flags, entry |-> r.entry]
  /\ DOMAIN r.flags = DOMAIN t.flags /\ DOMAIN r.entry = DOMAIN t.entry
  /\ r.flags[x] = "live" /\ r.entry[x] = e
  /\ \A i \in Buckets(t) : i # x => r.flags[i] = t.flags[i] /\ r.entry[i] = t.entry[i]

Written(t, x, f, e, s, o) ==
  [t EXCEPT !.flags[x] = f, !.entry[x] = e, !.size = s, !.n_occupied = o]

WrittenInTurn(t, x, f, e, s, o) ==
  [[[[t EXCEPT !.flags[x] = f] EXCEPT !.entry[x] = e] EXCEPT !.size = s]
    EXCEPT !.n_occupied = o]

(* Four assignments in one, or one after the other.                        *)
LEMMA FourWrites ==
  ASSUME NEW t, NEW x, NEW f, NEW e, NEW s, NEW o
  PROVE  Written(t, x, f, e, s, o) = WrittenInTurn(t, x, f, e, s, o)
BY DEF Written, WrittenInTurn

(* kh_put fills the bucket it has found and counts it.                     *)
LEMMA FilledBucket ==
  ASSUME NEW t0, NEW key, NEW value, NEW t, t = MakeRoom(t0), Typed(t),
         NEW x \in Buckets(t), x = BucketFor(t, key), t.flags[x] # "live"
  PROVE  Filled(t, kh_put(t0, key, value), x, [key |-> key, value |-> value])
<1> DEFINE new == [key |-> key, value |-> value]
           more == IF t.flags[x] = "live" THEN 0 ELSE 1
           extra == IF t.flags[x] = "empty" THEN 1 ELSE 0
           m == t.size + more
           o == t.n_occupied + extra
           r == [t EXCEPT !.flags[x] = "live", !.entry[x] = new,
                          !.size = m, !.n_occupied = o]
           f == [t.flags EXCEPT ![x] = "live"]
           g == [t.entry EXCEPT ![x] = new]
           rec == [n_buckets |-> t.n_buckets, size |-> m, n_occupied |-> o,
                   upper_bound |-> t.upper_bound, flags |-> f, entry |-> g]
<1>1. kh_put(t0, key, value) = r
  BY DEF kh_put
<1>2. t = [n_buckets |-> t.n_buckets, size |-> t.size, n_occupied |-> t.n_occupied,
           upper_bound |-> t.upper_bound, flags |-> t.flags, entry |-> t.entry]
  BY DEF Typed
<1>3. m = t.size + 1
  OBVIOUS
<1>4. x \in Buckets(t) /\ DOMAIN t.flags = Buckets(t) /\ DOMAIN t.entry = Buckets(t)
  BY DEF Typed
<1>5. /\ DOMAIN f = DOMAIN t.flags /\ DOMAIN g = DOMAIN t.entry
      /\ f[x] = "live" /\ g[x] = new
      /\ \A i \in Buckets(t) : i # x => f[i] = t.flags[i] /\ g[i] = t.entry[i]
  BY <1>4
<1> HIDE DEF m, o, more, extra, new
<1>6. r = rec
  <2>1. PICK a, b, c, d, e, z :
          t = [n_buckets |-> a, size |-> b, n_occupied |-> c, upper_bound |-> d,
               flags |-> e, entry |-> z]
    BY <1>2, Zenon
  <2>2. /\ t.n_buckets = a /\ t.size = b /\ t.n_occupied = c /\ t.upper_bound = d
        /\ t.flags = e /\ t.entry = z
    BY <2>1
  <2> DEFINE t1 == [n_buckets |-> a, size |-> b, n_occupied |-> c, upper_bound |-> d,
                    flags |-> [e EXCEPT ![x] = "live"], entry |-> z]
             t2 == [n_buckets |-> a, size |-> b, n_occupied |-> c, upper_bound |-> d,
                    flags |-> [e EXCEPT ![x] = "live"], entry |-> [z EXCEPT ![x] = new]]
             t3 == [n_buckets |-> a, size |-> m, n_occupied |-> c, upper_bound |-> d,
                    flags |-> [e EXCEPT ![x] = "live"], entry |-> [z EXCEPT ![x] = new]]
  <2>3. [t EXCEPT !.flags[x] = "live"] = t1
    BY <2>1
  <2>4. [t1 EXCEPT !.entry[x] = new] = t2
    OBVIOUS
  <2>5. [t2 EXCEPT !.size = m] = t3
    OBVIOUS
  <2>6. [t3 EXCEPT !.n_occupied = o] = rec
    BY <2>2
  <2>7. r = Written(t, x, "live", new, m, o)
    BY Zenon DEF Written
  <2>8. WrittenInTurn(t, x, "live", new, m, o) = rec
    <3> HIDE DEF t1, t2, t3, rec
    <3>1. QED
      BY <2>3, <2>4, <2>5, <2>6, Zenon DEF WrittenInTurn
  <2>9. QED
    BY <2>7, <2>8, FourWrites
<1> HIDE DEF r, f, g
<1>7. /\ rec.n_buckets = t.n_buckets /\ rec.size = m /\ rec.n_occupied = o
      /\ rec.upper_bound = t.upper_bound /\ rec.flags = f /\ rec.entry = g
  OBVIOUS
<1>8. rec = [n_buckets |-> rec.n_buckets, size |-> rec.size, n_occupied |-> rec.n_occupied,
             upper_bound |-> rec.upper_bound, flags |-> rec.flags, entry |-> rec.entry]
  OBVIOUS
<1> HIDE DEF rec
<1>9. Filled(t, rec, x, new)
  BY <1>3, <1>5, <1>7, <1>8 DEF Filled, o, extra
<1>10. QED
  BY <1>1, <1>6, <1>9 DEF new

(* A table in which a key it did not hold is entered where a search for it *)
(* comes to is sound, and has one entry more.                              *)
LEMMA FillingSound ==
  ASSUME NEW t, Sound(t), t.n_buckets # 0, t.n_occupied < t.upper_bound,
         NEW e \in Entry, \A i \in Live(t) : t.entry[i].key # e.key,
         NEW x \in Buckets(t), t.flags[x] # "live",
         Reached(t.n_buckets, t.flags, e.key, x), NEW r, Filled(t, r, x, e)
  PROVE  Sound(r) /\ Entries(r) = Entries(t) \cup {e}
<1>1. Typed(t) /\ Counted(t) /\ Distinct(t) /\ Findable(t)
  BY DEF Sound
<1>2. r.n_buckets = t.n_buckets /\ Buckets(r) = Buckets(t)
  BY DEF Filled, Buckets
<1>3. Live(r) = Live(t) \cup {x} /\ x \notin Live(t) /\ Used(r) = Used(t) \cup {x}
  BY <1>2 DEF Filled, Live, Used
<1>4. r.entry[x] = e /\ \A i \in Live(t) : r.entry[i] = t.entry[i]
  BY <1>3 DEF Filled, Live
<1>5. Typed(r)
  <2>1. \A i \in Live(r) : r.entry[i] \in Entry
    BY <1>1, <1>3, <1>4 DEF Typed
  <2>2. \A i \in Buckets(r) : r.flags[i] \in Flag
    BY <1>1, <1>2 DEF Typed, Filled, Flag
  <2>3. r.n_buckets \in Sizes \cup {0}
    BY <1>1, <1>2 DEF Typed
  <2>4. DOMAIN r.flags = Buckets(r) /\ DOMAIN r.entry = Buckets(r)
    BY <1>1, <1>2 DEF Typed, Filled
  <2>5. QED
    BY <2>1, <2>2, <2>3, <2>4 DEF Typed, Filled
<1>6. Counted(r)
  <2>1. Cardinality(Live(r)) = Cardinality(Live(t)) + 1
    BY <1>1, <1>3, Finite, FS_AddElement
  <2>2. Cardinality(Used(r))
          = Cardinality(Used(t)) + (IF t.flags[x] = "empty" THEN 1 ELSE 0)
    <3>1. x \in Used(t) <=> t.flags[x] # "empty"
      BY DEF Used
    <3>2. IsFiniteSet(Used(t)) /\ Cardinality(Used(t)) \in Nat
      BY <1>1, Finite
    <3>3. Cardinality(Used(r)) = IF x \in Used(t) THEN Cardinality(Used(t))
                                 ELSE Cardinality(Used(t)) + 1
      BY <1>3, <3>2, FS_AddElement
    <3>4. QED
      BY <3>1, <3>2, <3>3
  <2>3. r.n_occupied <= r.upper_bound
    <3>1. t.n_occupied \in Nat /\ t.upper_bound \in Nat
      <4>1. t.n_buckets \in Sizes
        BY <1>1 DEF Typed
      <4>2. t.n_buckets \in Nat /\ t.n_buckets >= 4
        BY <4>1, SizesDouble DEF Sizes
      <4>3. QED
        BY <1>1, <4>2, BoundLeavesRoom, Finite DEF Counted
    <3>2. QED
      BY <3>1 DEF Filled
  <2>4. QED
    BY <1>1, <1>2, <2>1, <2>2, <2>3 DEF Counted, Filled
<1>7. Distinct(r)
  BY <1>1, <1>3, <1>4 DEF Distinct
<1>8. Findable(r)
  <2> DEFINE n == t.n_buckets
  <2>1. n \in Sizes
    BY <1>1 DEF Typed
  <2>2. ASSUME NEW key \in Key, NEW i, Reached(n, t.flags, key, i)
        PROVE  Reached(n, r.flags, key, i)
    <3>1. PICK s \in 0 .. n - 1 :
            /\ Probe(n, key, s) = i
            /\ \A p \in 0 .. s - 1 : t.flags[Probe(n, key, p)] # "empty"
      BY <2>2 DEF Reached
    <3>2. \A p \in Nat : Probe(n, key, p) \in Buckets(t)
      BY <2>1, Probing DEF Buckets
    <3>3. \A p \in 0 .. s - 1 : r.flags[Probe(n, key, p)] # "empty"
      BY <3>1, <3>2 DEF Filled
    <3>4. QED
      BY <3>1, <3>3 DEF Reached
  <2>3. ASSUME NEW i \in Live(t)
        PROVE  Reached(n, r.flags, r.entry[i].key, i)
    BY <1>1, <1>4, <2>2 DEF Findable, Typed, Entry
  <2>4. Reached(n, r.flags, r.entry[x].key, x)
    BY <1>4, <2>2 DEF Entry
  <2>5. QED
    BY <1>2, <1>3, <2>3, <2>4 DEF Findable
<1>9. Entries(r) = Entries(t) \cup {e}
  <2>1. ASSUME NEW d \in Entries(r)
        PROVE  d \in Entries(t) \cup {e}
    BY <1>3, <1>4, EntryOf
  <2>2. ASSUME NEW d \in Entries(t)
        PROVE  d \in Entries(r)
    BY <1>3, <1>4, EntryOf
  <2>3. e \in Entries(r)
    BY <1>3, <1>4, EntryOf
  <2>4. QED
    BY <2>1, <2>2, <2>3
<1>10. QED
  BY <1>5, <1>6, <1>7, <1>8, <1>9 DEF Sound

----------------------------------------------------------------------------
(* Rehashing: the entries are in the old table, in the new one or in hand. *)

OldLive(w) == {i \in DOMAIN w.flags : w.flags[i] = "live"}

NewLive(w) == {i \in DOMAIN w.new_flags : w.new_flags[i] = "live"}

Placeable(w) == OldLive(w) \cup NewLive(w)

InTransit(w) ==
  {w.entry[i] : i \in Placeable(w)} \cup (IF w.done THEN {} ELSE {w.hand})

(* n old buckets, new ones, and in all c entries, those of E. *)
Moving(w, n, new, c, E) ==
  /\ w = [flags |-> w.flags, new_flags |-> w.new_flags, entry |-> w.entry,
          hand |-> w.hand, done |-> w.done]
  /\ DOMAIN w.flags = 0 .. n - 1
  /\ DOMAIN w.new_flags = 0 .. new - 1
  /\ \A i \in 0 .. new - 1 : w.new_flags[i] \in {"empty", "live"}
  /\ DOMAIN w.entry = 0 .. new - 1
  /\ OldLive(w) \cap NewLive(w) = {}
  /\ \A i \in Placeable(w) : w.entry[i] \in Entry
  /\ ~w.done => w.hand \in Entry /\ \A i \in Placeable(w) : w.entry[i].key # w.hand.key
  /\ \A i, j \in Placeable(w) : w.entry[i].key = w.entry[j].key => i = j
  /\ \A i \in NewLive(w) : Reached(new, w.new_flags, w.entry[i].key, i)
  /\ InTransit(w) = E
  /\ Cardinality(OldLive(w)) + Cardinality(NewLive(w)) + (IF w.done THEN 0 ELSE 1) = c

(* An entry on the move is in a bucket of the one table or the other, or   *)
(* in hand.                                                                *)
LEMMA InTransitOf ==
  ASSUME NEW w, NEW e
  PROVE  e \in InTransit(w) <=> \/ \E i \in Placeable(w) : e = w.entry[i]
                                \/ ~w.done /\ e = w.hand
BY DEF InTransit

(* While a table is rehashed there are finitely many live buckets.         *)
LEMMA MovingFinite ==
  ASSUME NEW w, NEW n \in Nat, NEW new \in Nat, NEW c, NEW E, Moving(w, n, new, c, E)
  PROVE  /\ IsFiniteSet(OldLive(w)) /\ Cardinality(OldLive(w)) \in Nat
         /\ IsFiniteSet(NewLive(w)) /\ Cardinality(NewLive(w)) \in Nat
         /\ Cardinality(OldLive(w)) <= n
<1>1. /\ IsFiniteSet(0 .. n - 1)
      /\ Cardinality(0 .. n - 1) = IF 0 > n - 1 THEN 0 ELSE (n - 1) - 0 + 1
  <2>1. n - 1 \in Int /\ 0 \in Int
    OBVIOUS
  <2>2. QED
    BY <2>1, FS_Interval, Zenon
<1>2. IsFiniteSet(0 .. new - 1)
  <2>1. new - 1 \in Int /\ 0 \in Int
    OBVIOUS
  <2>2. QED
    BY <2>1, FS_Interval, Zenon
<1>3. OldLive(w) \subseteq 0 .. n - 1 /\ NewLive(w) \subseteq 0 .. new - 1
  BY DEF Moving, OldLive, NewLive
<1>4. IsFiniteSet(OldLive(w)) /\ Cardinality(OldLive(w)) <= Cardinality(0 .. n - 1)
  BY <1>1, <1>3, FS_Subset
<1>5. IsFiniteSet(NewLive(w))
  BY <1>2, <1>3, FS_Subset
<1>6. Cardinality(OldLive(w)) \in Nat /\ Cardinality(NewLive(w)) \in Nat
  BY <1>4, <1>5, FS_CardinalityType
<1>7. Cardinality(0 .. n - 1) = n
  BY <1>1
<1>8. QED
  BY <1>4, <1>5, <1>6, <1>7

(* There is room: the new bucket of the key in hand is empty, and a search *)
(* for the key comes to it.                                                *)
LEMMA NewBucketFree ==
  ASSUME NEW w, NEW n \in Nat, NEW new \in Sizes, NEW c \in Nat, c < new, NEW E,
         Moving(w, n, new, c, E), ~w.done, NEW i, i = NewBucket(w, new, w.hand.key)
  PROVE  /\ i \in 0 .. new - 1 /\ w.new_flags[i] = "empty"
         /\ Reached(new, w.new_flags, w.hand.key, i)
<1> DEFINE key == w.hand.key
           T == {s \in 0 .. 2 * new : w.new_flags[Probe(new, key, s)] = "empty"}
<1>1. key \in Key
  BY DEF Moving, Entry
<1>2. /\ new \in Nat /\ new >= 4
      /\ \A s \in Nat : Probe(new, key, s) \in 0 .. new - 1
      /\ \A b \in 0 .. new - 1 : \E s \in 0 .. new - 1 : Probe(new, key, s) = b
  BY <1>1, Probing
<1>3. PICK e \in 0 .. new - 1 : w.new_flags[e] = "empty"
  <2>1. /\ Cardinality(OldLive(w)) \in Nat /\ Cardinality(NewLive(w)) \in Nat
        /\ Cardinality(OldLive(w)) + Cardinality(NewLive(w)) + 1 = c
    BY <1>2, MovingFinite DEF Moving
  <2>2. Cardinality(NewLive(w)) < new
    BY <1>2, <2>1
  <2>3. /\ IsFiniteSet(0 .. new - 1)
        /\ Cardinality(0 .. new - 1) = IF 0 > new - 1 THEN 0 ELSE (new - 1) - 0 + 1
    <3>1. new - 1 \in Int /\ 0 \in Int
      BY <1>2
    <3>2. QED
      BY <3>1, FS_Interval, Zenon
  <2>4. Cardinality(0 .. new - 1) = new
    BY <1>2, <2>3
  <2>5. NewLive(w) # 0 .. new - 1
    BY <1>2, <2>1, <2>2, <2>4
  <2>6. QED
    BY <2>5 DEF NewLive, Moving
<1>4. PICK s \in 0 .. new - 1 : Probe(new, key, s) = e
  BY <1>2
<1>5. s \in T
  BY <1>2, <1>3, <1>4
<1>6. T \in SUBSET Nat
  BY <1>2
<1>7. i = Probe(new, key, Min(T))
  BY DEF NewBucket
<1> HIDE DEF T, key
<1>8. Min(T) \in T /\ Min(T) <= s /\ \A r \in T : Min(T) <= r
  BY <1>5, <1>6, FirstStep
<1> DEFINE first == Min(T)
<1> HIDE DEF first
<1>9. first \in 0 .. new - 1 /\ first \in T /\ i = Probe(new, key, first)
  <2>1. first \in T /\ first <= s /\ i = Probe(new, key, first)
    BY <1>7, <1>8 DEF first
  <2>2. first \in Nat /\ s \in Nat /\ s < new
    BY <1>2, <1>6, <2>1
  <2>3. QED
    BY <1>2, <2>1, <2>2
<1>10. i \in 0 .. new - 1 /\ w.new_flags[i] = "empty"
  BY <1>2, <1>9 DEF T
<1>11. ASSUME NEW r \in 0 .. first - 1
       PROVE  w.new_flags[Probe(new, key, r)] # "empty"
  <2>1. r \in 0 .. 2 * new /\ ~(first <= r)
    BY <1>2, <1>9
  <2>2. r \notin T
    BY <1>8, <2>1 DEF first
  <2>3. QED
    BY <2>1, <2>2 DEF T
<1>12. QED
  BY <1>9, <1>10, <1>11 DEF Reached, key

(* What a placement writes; a kick takes the old entry in hand. *)
Placed(w, v, i) ==
  /\ v = [flags |-> v.flags, new_flags |-> v.new_flags, entry |-> v.entry,
          hand |-> v.hand, done |-> v.done]
  /\ DOMAIN v.flags = DOMAIN w.flags /\ DOMAIN v.new_flags = DOMAIN w.new_flags
  /\ DOMAIN v.entry = DOMAIN w.entry
  /\ v.new_flags[i] = "live" /\ v.entry[i] = w.hand
  /\ \A b \in DOMAIN w.new_flags :
       b # i => v.new_flags[b] = w.new_flags[b] /\ v.entry[b] = w.entry[b]
  /\ \A b \in DOMAIN w.flags : b # i => v.flags[b] = w.flags[b]
  /\ IF i \in OldLive(w)
       THEN v.flags[i] = "deleted" /\ ~v.done /\ v.hand = w.entry[i]
       ELSE v.flags = w.flags /\ v.done

Transit(a, b, p, d, e) ==
  [flags |-> a, new_flags |-> b, entry |-> p, hand |-> d, done |-> e]

(* The parts of a state of the rehashing.                                  *)
LEMMA TransitFields ==
  ASSUME NEW a, NEW b, NEW p, NEW d, NEW e, NEW w, w = Transit(a, b, p, d, e)
  PROVE  w.flags = a /\ w.new_flags = b /\ w.entry = p /\ w.hand = d /\ w.done = e
BY DEF Transit

SetAt(f, i, x) == [f EXCEPT ![i] = x]

WriteNew(w, i, x, y) == [w EXCEPT !.new_flags[i] = x, !.entry[i] = y]

WriteOld(w, i, x, y) == [w EXCEPT !.flags[i] = x, !.hand = y]

WriteDone(w, x) == [w EXCEPT !.done = x]

(* Assignments to the new table and to the old one, as states.             *)
LEMMA TransitWrites ==
  ASSUME NEW a, NEW b, NEW p, NEW d, NEW e, NEW i, NEW x, NEW y
  PROVE  /\ WriteNew(Transit(a, b, p, d, e), i, x, y)
              = Transit(a, SetAt(b, i, x), SetAt(p, i, y), d, e)
         /\ WriteOld(Transit(a, b, p, d, e), i, x, y)
              = Transit(SetAt(a, i, x), b, p, y, e)
<1> DEFINE w == Transit(a, b, p, d, e)
           b1 == [b EXCEPT ![i] = x]
           p1 == [p EXCEPT ![i] = y]
           a1 == [a EXCEPT ![i] = x]
<1>1. [w EXCEPT !.new_flags[i] = x] = Transit(a, b1, p, d, e)
  BY DEF Transit
<1>2. [Transit(a, b1, p, d, e) EXCEPT !.entry[i] = y] = Transit(a, b1, p1, d, e)
  BY DEF Transit
<1>3. [w EXCEPT !.flags[i] = x] = Transit(a1, b, p, d, e)
  BY DEF Transit
<1>4. [Transit(a1, b, p, d, e) EXCEPT !.hand = y] = Transit(a1, b, p, y, e)
  BY DEF Transit
<1> HIDE DEF w, b1, p1, a1
<1>5. [w EXCEPT !.new_flags[i] = x, !.entry[i] = y]
        = [[w EXCEPT !.new_flags[i] = x] EXCEPT !.entry[i] = y]
  OBVIOUS
<1>6. [w EXCEPT !.flags[i] = x, !.hand = y]
        = [[w EXCEPT !.flags[i] = x] EXCEPT !.hand = y]
  OBVIOUS
<1>7. [w EXCEPT !.new_flags[i] = x, !.entry[i] = y] = Transit(a, b1, p1, d, e)
  BY <1>1, <1>2, <1>5, Zenon
<1>8. [w EXCEPT !.flags[i] = x, !.hand = y] = Transit(a1, b, p, y, e)
  BY <1>3, <1>4, <1>6, Zenon
<1>9. QED
  BY <1>7, <1>8, Zenon DEF w, b1, p1, a1, WriteNew, WriteOld, SetAt

(* The end of a chain of kicks, as a state.                                *)
LEMMA DoneWritten ==
  ASSUME NEW a, NEW b, NEW p, NEW d, NEW e, NEW w, w = Transit(a, b, p, d, e), NEW x
  PROVE  WriteDone(w, x) = Transit(a, b, p, d, x)
BY DEF WriteDone, Transit

(* A turn of the inner loop of kh_resize, khash.h:277-292, fills the free  *)
(* bucket of the entry in hand, and takes out what the old table had       *)
(* there.                                                                  *)
LEMMA PlacedBucket ==
  ASSUME NEW w, NEW n \in Nat, NEW new \in Sizes, NEW c \in Nat, c < new, NEW E,
         Moving(w, n, new, c, E), ~w.done, NEW i, i = NewBucket(w, new, w.hand.key)
  PROVE  Placed(w, Place(w, new), i)
<1> DEFINE g == SetAt(w.new_flags, i, "live")
           u == SetAt(w.entry, i, w.hand)
           f == SetAt(w.flags, i, "deleted")
           kicked == i \in DOMAIN w.flags /\ w.flags[i] = "live"
           placed == [w EXCEPT !.new_flags[i] = "live", !.entry[i] = w.hand]
           kick == [placed EXCEPT !.flags[i] = "deleted", !.hand = w.entry[i]]
           end == [placed EXCEPT !.done = TRUE]
           v == Place(w, new)
<1>1. i \in 0 .. new - 1
  BY NewBucketFree
<1>2. PICK a, b, p, d, e : w = Transit(a, b, p, d, e)
  BY Zenon DEF Moving, Transit
<1>3. w.flags = a /\ w.new_flags = b /\ w.entry = p /\ w.hand = d /\ w.done = e
  BY <1>2, TransitFields
<1>4. v = IF kicked THEN kick ELSE end
  BY DEF Place
<1>5. /\ placed = WriteNew(w, i, "live", w.hand)
      /\ kick = WriteOld(placed, i, "deleted", w.entry[i])
      /\ end = WriteDone(placed, TRUE)
  BY Zenon DEF WriteNew, WriteOld, WriteDone
<1> HIDE DEF kicked, placed, kick, end, v
<1>6. placed = Transit(a, g, u, d, e)
  BY <1>2, <1>3, <1>5, TransitWrites
<1>7. kick = Transit(f, g, u, p[i], e) /\ end = Transit(a, g, u, d, TRUE)
  <2> HIDE DEF g, u
  <2>1. kick = Transit(f, g, u, p[i], e)
    BY <1>3, <1>5, <1>6, TransitWrites
  <2>2. PICK yes : yes = TRUE
    OBVIOUS
  <2>3. end = WriteDone(placed, yes)
    BY <1>5, <2>2, Zenon
  <2>4. end = Transit(a, g, u, d, yes)
    BY <1>6, <2>3, DoneWritten
  <2>5. QED
    BY <2>1, <2>2, <2>4, Zenon
<1>8. /\ DOMAIN g = DOMAIN w.new_flags /\ DOMAIN u = DOMAIN w.entry
      /\ g[i] = "live" /\ u[i] = w.hand
      /\ \A x \in DOMAIN w.new_flags :
           x # i => g[x] = w.new_flags[x] /\ u[x] = w.entry[x]
  BY <1>1 DEF Moving, SetAt
<1>9. /\ DOMAIN f = DOMAIN w.flags
      /\ \A x \in DOMAIN w.flags : x # i => f[x] = w.flags[x]
      /\ i \in OldLive(w) => f[i] = "deleted"
  BY DEF OldLive, SetAt
<1>10. kicked <=> i \in OldLive(w)
  BY DEF OldLive, kicked
<1> HIDE DEF g, u, f
<1>11. CASE i \in OldLive(w)
  <2>1. v = Transit(f, g, u, p[i], e)
    BY <1>4, <1>7, <1>10, <1>11
  <2>2. /\ v.flags = f /\ v.new_flags = g /\ v.entry = u /\ v.hand = p[i] /\ v.done = e
        /\ v = [flags |-> v.flags, new_flags |-> v.new_flags, entry |-> v.entry,
                hand |-> v.hand, done |-> v.done]
    BY <2>1 DEF Transit
  <2>3. Placed(w, v, i)
    BY <1>3, <1>8, <1>9, <1>11, <2>2, Zenon DEF Placed
  <2>4. QED
    BY <2>3 DEF v
<1>12. CASE i \notin OldLive(w)
  <2>1. v = Transit(a, g, u, d, TRUE)
    BY <1>4, <1>7, <1>10, <1>12
  <2>2. /\ v.flags = a /\ v.new_flags = g /\ v.entry = u /\ v.hand = d /\ v.done
        /\ v = [flags |-> v.flags, new_flags |-> v.new_flags, entry |-> v.entry,
                hand |-> v.hand, done |-> v.done]
    BY <2>1 DEF Transit
  <2>3. Placed(w, v, i)
    BY <1>3, <1>8, <1>9, <1>12, <2>2, Zenon DEF Placed
  <2>4. QED
    BY <2>3 DEF v
<1>13. QED
  BY <1>11, <1>12

(* A placement keeps every entry, and a kick takes one from the old table. *)
LEMMA PlaceMoves ==
  ASSUME NEW w, NEW n \in Nat, NEW new \in Sizes, NEW c \in Nat, c < new, NEW E,
         n <= new, Moving(w, n, new, c, E), ~w.done, NEW v, v = Place(w, new)
  PROVE  /\ Moving(v, n, new, c, E)
         /\ OldLive(v) \subseteq OldLive(w)
         /\ v.done \/ Cardinality(OldLive(v)) = Cardinality(OldLive(w)) - 1
<1> DEFINE i == NewBucket(w, new, w.hand.key)
<1>1. /\ i \in 0 .. new - 1 /\ w.new_flags[i] = "empty"
      /\ Reached(new, w.new_flags, w.hand.key, i)
  BY NewBucketFree
<1>2. Placed(w, v, i)
  BY PlacedBucket
<1>3. new \in Nat
  BY SizesDouble DEF Sizes
<1> HIDE DEF i
<1>4. NewLive(v) = NewLive(w) \cup {i} /\ i \notin NewLive(w)
  BY <1>1, <1>2 DEF Placed, NewLive, Moving
<1>5. /\ OldLive(v) = OldLive(w) \ {i}
      /\ i \notin OldLive(w) <=> v.done
      /\ i \in OldLive(w) => v.hand = w.entry[i]
  <2>1. CASE i \in OldLive(w)
    <3>1. v.flags[i] = "deleted" /\ ~v.done /\ v.hand = w.entry[i]
      BY <1>2, <2>1 DEF Placed
    <3>2. OldLive(v) = OldLive(w) \ {i}
      BY <1>2, <2>1, <3>1 DEF Placed, OldLive
    <3>3. QED
      BY <2>1, <3>1, <3>2
  <2>2. CASE i \notin OldLive(w)
    <3>1. v.flags = w.flags /\ v.done
      BY <1>2, <2>2, Zenon DEF Placed
    <3>2. OldLive(v) = OldLive(w) \ {i}
      BY <2>2, <3>1 DEF OldLive
    <3>3. QED
      BY <2>2, <3>1, <3>2
  <2>3. QED
    BY <2>1, <2>2
<1>6. Placeable(v) = Placeable(w) \cup {i}
  BY <1>4, <1>5 DEF Placeable
<1>7. Placeable(w) \subseteq 0 .. new - 1
  BY <1>3 DEF Placeable, OldLive, NewLive, Moving
<1>8. v.entry[i] = w.hand /\ \A b \in Placeable(w) : b # i => v.entry[b] = w.entry[b]
  BY <1>2, <1>7 DEF Placed, Moving
<1>9. /\ OldLive(w) \cap NewLive(w) = {}
      /\ \A b \in Placeable(w) : w.entry[b] \in Entry
      /\ w.hand \in Entry /\ \A b \in Placeable(w) : w.entry[b].key # w.hand.key
      /\ \A a, b \in Placeable(w) : w.entry[a].key = w.entry[b].key => a = b
  BY DEF Moving
<1>10. /\ IsFiniteSet(OldLive(w)) /\ Cardinality(OldLive(w)) \in Nat
       /\ IsFiniteSet(NewLive(w)) /\ Cardinality(NewLive(w)) \in Nat
  BY <1>3, MovingFinite
<1>11. /\ Cardinality(NewLive(v)) = Cardinality(NewLive(w)) + 1
       /\ Cardinality(OldLive(v)) = IF v.done THEN Cardinality(OldLive(w))
                                    ELSE Cardinality(OldLive(w)) - 1
  <2>1. Cardinality(NewLive(v)) = Cardinality(NewLive(w)) + 1
    BY <1>4, <1>10, FS_AddElement
  <2>2. CASE i \in OldLive(w)
    <3>1. Cardinality(OldLive(v)) = Cardinality(OldLive(w)) - 1
      BY <1>5, <1>10, <2>2, FS_RemoveElement
    <3>2. QED
      BY <1>5, <2>1, <2>2, <3>1
  <2>3. CASE i \notin OldLive(w)
    <3>1. OldLive(v) = OldLive(w)
      BY <1>5, <2>3
    <3>2. QED
      BY <1>5, <2>1, <2>3, <3>1
  <2>4. QED
    BY <2>2, <2>3
<1>12. Cardinality(OldLive(v)) + Cardinality(NewLive(v)) + (IF v.done THEN 0 ELSE 1) = c
  <2>1. Cardinality(OldLive(w)) + Cardinality(NewLive(w)) + 1 = c
    BY DEF Moving
  <2>2. CASE v.done
    BY <1>10, <1>11, <2>1, <2>2
  <2>3. CASE ~v.done
    BY <1>10, <1>11, <2>1, <2>3
  <2>4. QED
    BY <2>2, <2>3
<1>13. \A b \in Placeable(v) : v.entry[b] \in Entry
  BY <1>6, <1>8, <1>9
<1>14. ASSUME ~v.done
       PROVE  v.hand \in Entry /\ \A b \in Placeable(v) : v.entry[b].key # v.hand.key
  <2>1. i \in OldLive(w) /\ i \in Placeable(w) /\ v.hand = w.entry[i]
    BY <1>5, <1>14 DEF Placeable
  <2>2. QED
    BY <1>6, <1>8, <1>9, <2>1
<1>15. \A a, b \in Placeable(v) : v.entry[a].key = v.entry[b].key => a = b
  BY <1>6, <1>8, <1>9
<1>16. \A b \in NewLive(v) : Reached(new, v.new_flags, v.entry[b].key, b)
  <2>1. ASSUME NEW key \in Key, NEW b, Reached(new, w.new_flags, key, b)
        PROVE  Reached(new, v.new_flags, key, b)
    <3>1. PICK s \in 0 .. new - 1 :
            /\ Probe(new, key, s) = b
            /\ \A p \in 0 .. s - 1 : w.new_flags[Probe(new, key, p)] # "empty"
      BY <2>1 DEF Reached
    <3>2. \A p \in Nat : Probe(new, key, p) \in 0 .. new - 1
      BY Probing
    <3>3. \A p \in 0 .. s - 1 : v.new_flags[Probe(new, key, p)] # "empty"
      BY <1>2, <3>1, <3>2 DEF Placed, Moving
    <3>4. QED
      BY <3>1, <3>3 DEF Reached
  <2>2. ASSUME NEW b \in NewLive(w)
        PROVE  Reached(new, v.new_flags, v.entry[b].key, b)
    <3>1. b \in Placeable(w) /\ b # i
      BY <1>4 DEF Placeable
    <3>2. Reached(new, w.new_flags, w.entry[b].key, b)
      BY DEF Moving
    <3>3. w.entry[b].key \in Key
      BY <1>9, <3>1 DEF Entry
    <3>4. QED
      BY <1>8, <2>1, <3>1, <3>2, <3>3
  <2>3. Reached(new, v.new_flags, v.entry[i].key, i)
    BY <1>1, <1>8, <1>9, <2>1 DEF Entry
  <2>4. QED
    BY <1>4, <2>2, <2>3
<1>17. InTransit(v) = E
  <2>1. InTransit(w) = E
    BY DEF Moving
  <2>2. ASSUME NEW e \in InTransit(w)
        PROVE  e \in InTransit(v)
    <3>1. CASE e = w.hand
      BY <1>6, <1>8, <3>1, InTransitOf
    <3>2. ASSUME NEW b \in Placeable(w), e = w.entry[b]
          PROVE  e \in InTransit(v)
      <4>1. CASE b = i
        <5>1. i \in OldLive(w)
          BY <1>4, <4>1 DEF Placeable
        <5>2. QED
          BY <1>5, <3>2, <4>1, <5>1, InTransitOf
      <4>2. CASE b # i
        BY <1>6, <1>8, <3>2, <4>2, InTransitOf
      <4>3. QED
        BY <4>1, <4>2
    <3>3. QED
      BY <3>1, <3>2, InTransitOf
  <2>3. ASSUME NEW e \in InTransit(v)
        PROVE  e \in InTransit(w)
    <3>1. CASE ~v.done /\ e = v.hand
      <4>1. i \in Placeable(w) /\ e = w.entry[i]
        BY <1>5, <3>1 DEF Placeable
      <4>2. QED
        BY <4>1, InTransitOf
    <3>2. ASSUME NEW b \in Placeable(v), e = v.entry[b]
          PROVE  e \in InTransit(w)
      <4>1. CASE b = i
        BY <1>8, <3>2, <4>1, InTransitOf
      <4>2. CASE b # i
        BY <1>6, <1>8, <3>2, <4>2, InTransitOf
      <4>3. QED
        BY <4>1, <4>2
    <3>3. QED
      BY <3>1, <3>2, InTransitOf
  <2>4. QED
    BY <2>1, <2>2, <2>3
<1>18. Moving(v, n, new, c, E)
  <2>1. /\ v = [flags |-> v.flags, new_flags |-> v.new_flags, entry |-> v.entry,
                hand |-> v.hand, done |-> v.done]
        /\ DOMAIN v.flags = DOMAIN w.flags /\ DOMAIN v.new_flags = DOMAIN w.new_flags
        /\ DOMAIN v.entry = DOMAIN w.entry
    BY <1>2, Zenon DEF Placed
  <2>2. /\ DOMAIN w.flags = 0 .. n - 1 /\ DOMAIN w.new_flags = 0 .. new - 1
        /\ DOMAIN w.entry = 0 .. new - 1
    BY DEF Moving
  <2>3. \A b \in 0 .. new - 1 : v.new_flags[b] \in {"empty", "live"}
    BY <1>2 DEF Placed, Moving
  <2>4. OldLive(v) \cap NewLive(v) = {}
    BY <1>4, <1>5, <1>9
  <2>5. QED
    BY <1>12, <1>13, <1>14, <1>15, <1>16, <1>17, <2>1, <2>2, <2>3, <2>4, Zenon
       DEF Moving
<1>19. QED
  BY <1>5, <1>11, <1>18

Taken(w, j) ==
  [w EXCEPT !.flags[j] = "deleted", !.hand = w.entry[j], !.done = FALSE]

KickStep(w, j, new, f) ==
  [k \in 0 .. Cardinality(DOMAIN w.flags) |->
     IF k = 0 THEN Taken(w, j)
     ELSE LET before == f[k - 1] IN IF before.done THEN before ELSE Place(before, new)]

Kicks(w, j, new) == CHOOSE f : f = KickStep(w, j, new, f)

(* The inner loop of kh_resize by its turns.                               *)
LEMMA MoveKicks ==
  ASSUME NEW w, NEW j, NEW new
  PROVE  Move(w, j, new) = IF w.flags[j] # "live" THEN w
                           ELSE Kicks(w, j, new)[Cardinality(DOMAIN w.flags)]
BY Zenon DEF Move, Kicks, KickStep, Taken

(* Each turn works on what the one before has left.                        *)
LEMMA KicksEquation ==
  ASSUME NEW w, NEW j, NEW new, NEW n \in Nat, n = Cardinality(DOMAIN w.flags)
  PROVE  \A k \in 0 .. n :
           Kicks(w, j, new)[k]
             = IF k = 0 THEN Taken(w, j)
               ELSE IF Kicks(w, j, new)[k - 1].done THEN Kicks(w, j, new)[k - 1]
               ELSE Place(Kicks(w, j, new)[k - 1], new)
<1> DEFINE Val(f, k) == IF k = 0 THEN Taken(w, j)
                        ELSE IF f[k - 1].done THEN f[k - 1] ELSE Place(f[k - 1], new)
           Sol(m, f) == f = [k \in 0 .. m |-> Val(f, k)]
           S == {m \in Nat : \E f : Sol(m, f)}
<1>1. 0 \in S
  <2> DEFINE g == [k \in 0 .. 0 |-> Taken(w, j)]
  <2>1. \A k \in 0 .. 0 : Val(g, k) = Taken(w, j)
    OBVIOUS
  <2>2. Sol(0, g)
    BY <2>1
  <2> HIDE DEF Sol, g
  <2>3. \E f : Sol(0, f)
    BY <2>2
  <2>4. QED
    BY <2>3
<1>2. ASSUME NEW m \in Nat, m \in S
      PROVE  m + 1 \in S
  <2>1. PICK f : Sol(m, f)
    BY <1>2
  <2> HIDE DEF Val
  <2>2. \A k \in 0 .. m : f[k] = Val(f, k)
    BY <2>1
  <2> DEFINE g == [k \in 0 .. m + 1 |-> IF k <= m THEN f[k] ELSE Val(f, k)]
  <2>3. ASSUME NEW k \in 0 .. m + 1
        PROVE  g[k] = Val(g, k)
    <3>1. CASE k = 0
      BY <2>2, <3>1 DEF Val
    <3>2. CASE k \in 1 .. m + 1
      <4>1. g[k - 1] = f[k - 1] /\ k # 0
        BY <3>2
      <4>2. g[k] = Val(f, k)
        BY <2>2, <3>2
      <4> HIDE DEF g
      <4>3. Val(f, k) = Val(g, k)
        BY <4>1, Zenon DEF Val
      <4>4. QED
        BY <4>2, <4>3
    <3>3. QED
      BY <3>1, <3>2
  <2>4. g = [k \in 0 .. m + 1 |-> g[k]]
    OBVIOUS
  <2> HIDE DEF g
  <2>5. Sol(m + 1, g)
    BY <2>3, <2>4
  <2> HIDE DEF Sol
  <2>6. \E f1 : Sol(m + 1, f1)
    BY <2>5
  <2>7. QED
    BY <2>6
<1>3. n \in S
  <2> HIDE DEF S
  <2> QED
    BY <1>1, <1>2, SetInduction
<1>4. \E f : Sol(n, f)
  <2> HIDE DEF Sol
  <2>1. QED
    BY <1>3
<1>5. \E f : f = KickStep(w, j, new, f)
  BY <1>4, Zenon DEF KickStep
<1>6. Kicks(w, j, new) = KickStep(w, j, new, Kicks(w, j, new))
  BY <1>5, Zenon DEF Kicks
<1> DEFINE g == KickStep(w, j, new, Kicks(w, j, new))
<1>7. \A k \in 0 .. n : g[k] = Val(Kicks(w, j, new), k)
  BY DEF KickStep
<1> HIDE DEF g
<1>8. QED
  BY <1>6, <1>7, Zenon DEF g

(* The entry of an old bucket is taken in hand. *)
LEMMA TakenMoves ==
  ASSUME NEW w, NEW n \in Nat, NEW new \in Nat, NEW c \in Nat, NEW E,
         Moving(w, n, new, c, E), w.done, NEW j \in OldLive(w), NEW v, v = Taken(w, j)
  PROVE  Moving(v, n, new, c, E) /\ OldLive(v) = OldLive(w) \ {j} /\ ~v.done
<1> DEFINE f == SetAt(w.flags, j, "deleted")
<1>1. PICK no : no = FALSE
  OBVIOUS
<1>2. PICK a, b, p, d, e : w = Transit(a, b, p, d, e)
  BY Zenon DEF Moving, Transit
<1>3. w.flags = a /\ w.new_flags = b /\ w.entry = p /\ w.hand = d
  <2> HIDE DEF f
  <2>1. w = Transit(a, b, p, d, e)
    BY <1>2
  <2>2. w.flags = a
    BY <2>1, TransitFields
  <2>3. w.new_flags = b
    BY <2>1 DEF Transit
  <2>4. w.entry = p
    BY <2>1 DEF Transit
  <2>5. w.hand = d
    BY <2>1 DEF Transit
  <2>6. QED
    BY <2>2, <2>3, <2>4, <2>5
<1>4. v = WriteDone(WriteOld(w, j, "deleted", w.entry[j]), no)
  <2> DEFINE x == w.entry[j]
  <2> HIDE DEF x
  <2>1. [w EXCEPT !.flags[j] = "deleted", !.hand = x, !.done = no]
          = [[w EXCEPT !.flags[j] = "deleted", !.hand = x] EXCEPT !.done = no]
    OBVIOUS
  <2>2. v = [w EXCEPT !.flags[j] = "deleted", !.hand = x, !.done = no]
    BY <1>1, Zenon DEF Taken, x
  <2>3. QED
    BY <2>1, <2>2, Zenon DEF WriteDone, WriteOld, x
<1>5. v = Transit(f, b, p, p[j], no)
  BY <1>2, <1>3, <1>4, TransitWrites, DoneWritten
<1>6. /\ v.flags = f /\ v.new_flags = w.new_flags /\ v.entry = w.entry
      /\ v.hand = w.entry[j] /\ v.done = no
  BY <1>3, <1>5, TransitFields
<1>7. ~v.done
  BY <1>1, <1>6, Zenon
<1>8. v = [flags |-> v.flags, new_flags |-> v.new_flags, entry |-> v.entry,
           hand |-> v.hand, done |-> v.done]
  BY <1>3, <1>5, <1>6, Zenon DEF Transit
<1>9. /\ DOMAIN f = DOMAIN w.flags /\ f[j] = "deleted"
      /\ \A x \in DOMAIN w.flags : x # j => f[x] = w.flags[x]
  BY DEF OldLive, SetAt
<1> HIDE DEF f
<1>10. OldLive(v) = OldLive(w) \ {j} /\ NewLive(v) = NewLive(w)
  BY <1>6, <1>9 DEF OldLive, NewLive
<1>11. Placeable(v) = Placeable(w) \ {j} /\ j \in Placeable(w)
  BY <1>10 DEF Placeable, Moving
<1>12. /\ \A b1 \in Placeable(w) : w.entry[b1] \in Entry
       /\ \A x, y \in Placeable(w) : w.entry[x].key = w.entry[y].key => x = y
       /\ \A x \in NewLive(w) : Reached(new, w.new_flags, w.entry[x].key, x)
       /\ OldLive(w) \cap NewLive(w) = {}
  BY DEF Moving
<1>13. v.hand \in Entry /\ \A x \in Placeable(v) : v.entry[x].key # v.hand.key
  BY <1>6, <1>11, <1>12
<1>14. Cardinality(OldLive(v)) + Cardinality(NewLive(v)) + (IF v.done THEN 0 ELSE 1) = c
  <2>1. /\ IsFiniteSet(OldLive(w)) /\ Cardinality(OldLive(w)) \in Nat
        /\ Cardinality(NewLive(w)) \in Nat
    BY MovingFinite
  <2>2. Cardinality(OldLive(w)) + Cardinality(NewLive(w)) = c
    BY <2>1 DEF Moving
  <2>3. Cardinality(OldLive(v)) = Cardinality(OldLive(w)) - 1
    BY <1>10, <2>1, FS_RemoveElement
  <2>4. QED
    BY <1>7, <1>10, <2>1, <2>2, <2>3
<1>15. InTransit(v) = E
  <2>1. ASSUME NEW x
        PROVE  x \in InTransit(v) <=> x \in InTransit(w)
    <3>1. x \in InTransit(v) <=> (\E y \in Placeable(v) : x = w.entry[y]) \/ x = w.entry[j]
      BY <1>6, <1>7, InTransitOf
    <3>2. x \in InTransit(w) <=> \E y \in Placeable(w) : x = w.entry[y]
      BY InTransitOf
    <3>3. QED
      BY <1>11, <3>1, <3>2
  <2>2. InTransit(w) = E
    BY DEF Moving
  <2>3. QED
    BY <2>1, <2>2
<1>16. Moving(v, n, new, c, E)
  <2>1. /\ DOMAIN w.flags = 0 .. n - 1 /\ DOMAIN w.new_flags = 0 .. new - 1
        /\ \A x \in 0 .. new - 1 : w.new_flags[x] \in {"empty", "live"}
        /\ DOMAIN w.entry = 0 .. new - 1
    BY DEF Moving
  <2>2. /\ DOMAIN v.flags = 0 .. n - 1 /\ DOMAIN v.new_flags = 0 .. new - 1
        /\ \A x \in 0 .. new - 1 : v.new_flags[x] \in {"empty", "live"}
        /\ DOMAIN v.entry = 0 .. new - 1
    BY <1>6, <1>9, <2>1
  <2>3. OldLive(v) \cap NewLive(v) = {}
    BY <1>10, <1>12
  <2>4. \A x \in Placeable(v) : v.entry[x] \in Entry
    BY <1>6, <1>11, <1>12
  <2>5. \A x, y \in Placeable(v) : v.entry[x].key = v.entry[y].key => x = y
    BY <1>6, <1>11, <1>12
  <2>6. \A x \in NewLive(v) : Reached(new, v.new_flags, v.entry[x].key, x)
    BY <1>6, <1>10, <1>12
  <2>7. QED
    BY <1>8, <1>13, <1>14, <1>15, <2>2, <2>3, <2>4, <2>5, <2>6, Zenon DEF Moving
<1>17. QED
  BY <1>7, <1>10, <1>16

(* A chain of kicks ends: each takes one more entry from the old table.    *)
LEMMA MoveMoves ==
  ASSUME NEW w, NEW n \in Nat, NEW new \in Sizes, NEW c \in Nat, c < new, NEW E,
         n <= new, Moving(w, n, new, c, E), w.done, NEW j \in 0 .. n - 1,
         NEW v, v = Move(w, j, new)
  PROVE  /\ Moving(v, n, new, c, E) /\ v.done
         /\ OldLive(v) \subseteq OldLive(w) \ {j}
<1>1. DOMAIN w.flags = 0 .. n - 1 /\ new \in Nat
  BY SizesDouble DEF Sizes, Moving
<1>2. CASE w.flags[j] # "live"
  <2>1. v = w
    BY <1>2, MoveKicks
  <2>2. j \notin OldLive(w)
    BY <1>2 DEF OldLive
  <2>3. QED
    BY <2>1, <2>2
<1>3. CASE w.flags[j] = "live"
  <2> DEFINE f == Kicks(w, j, new)
             Good(k) == /\ Moving(f[k], n, new, c, E)
                        /\ OldLive(f[k]) \subseteq OldLive(w) \ {j}
                        /\ f[k].done \/ Cardinality(OldLive(f[k])) + k <= n - 1
             S == {k \in Nat : k <= n => Good(k)}
  <2>1. IsFiniteSet(0 .. n - 1) /\ Cardinality(0 .. n - 1) = n
    <3>1. n - 1 \in Int /\ 0 \in Int
      OBVIOUS
    <3>2. /\ IsFiniteSet(0 .. n - 1)
          /\ Cardinality(0 .. n - 1) = IF 0 > n - 1 THEN 0 ELSE (n - 1) - 0 + 1
      BY <3>1, FS_Interval, Zenon
    <3>3. QED
      BY <3>2
  <2>2. n = Cardinality(DOMAIN w.flags)
    BY <1>1, <2>1
  <2>3. v = f[n]
    BY <1>3, <2>2, MoveKicks
  <2>4. \A k \in 0 .. n : f[k] = IF k = 0 THEN Taken(w, j)
                                 ELSE IF f[k - 1].done THEN f[k - 1]
                                 ELSE Place(f[k - 1], new)
    BY <2>2, KicksEquation
  <2> HIDE DEF f
  <2>5. j \in OldLive(w)
    BY <1>1, <1>3 DEF OldLive
  <2>6. Good(0)
    <3>1. f[0] = Taken(w, j)
      BY <2>4
    <3>2. Moving(f[0], n, new, c, E) /\ OldLive(f[0]) = OldLive(w) \ {j}
      BY <1>1, <2>5, <3>1, TakenMoves
    <3>3. /\ IsFiniteSet(OldLive(w)) /\ Cardinality(OldLive(w)) \in Nat
          /\ Cardinality(OldLive(w)) <= n
      BY <1>1, MovingFinite
    <3>4. Cardinality(OldLive(f[0])) = Cardinality(OldLive(w)) - 1
      BY <2>5, <3>2, <3>3, FS_RemoveElement
    <3>5. QED
      BY <3>2, <3>3, <3>4
  <2>7. ASSUME NEW k \in Nat, k + 1 <= n, Good(k)
        PROVE  Good(k + 1)
    <3>1. k + 1 \in 0 .. n /\ k + 1 # 0 /\ (k + 1) - 1 = k
      BY <2>7
    <3>2. f[k + 1] = IF f[k].done THEN f[k] ELSE Place(f[k], new)
      BY <2>4, <3>1
    <3>3. CASE f[k].done
      <4>1. f[k + 1] = f[k]
        BY <3>2, <3>3
      <4>2. QED
        BY <2>7, <3>3, <4>1
    <3>4. CASE ~f[k].done
      <4>1. f[k + 1] = Place(f[k], new)
        BY <3>2, <3>4
      <4>2. /\ Moving(f[k + 1], n, new, c, E)
            /\ OldLive(f[k + 1]) \subseteq OldLive(f[k])
            /\ \/ f[k + 1].done
               \/ Cardinality(OldLive(f[k + 1])) = Cardinality(OldLive(f[k])) - 1
        BY <2>7, <3>4, <4>1, PlaceMoves
      <4>3. Cardinality(OldLive(f[k])) \in Nat
        BY <1>1, <2>7, MovingFinite
      <4>4. Cardinality(OldLive(f[k])) + k <= n - 1
        BY <2>7, <3>4
      <4>5. f[k + 1].done \/ Cardinality(OldLive(f[k + 1])) + (k + 1) <= n - 1
        BY <4>2, <4>3, <4>4
      <4>6. QED
        BY <2>7, <4>2, <4>5
    <3>5. QED
      BY <3>3, <3>4
  <2> HIDE DEF Good
  <2>8. 0 \in S /\ \A k \in Nat : k \in S => k + 1 \in S
    BY <2>6, <2>7
  <2>9. n \in S
    <3> HIDE DEF S
    <3>1. Nat \subseteq S
      BY <2>8, SetInduction
    <3>2. QED
      BY <3>1
  <2>10. Good(n)
    BY <2>9
  <2>11. Cardinality(OldLive(f[n])) \in Nat
    BY <1>1, <2>10, MovingFinite DEF Good
  <2>12. f[n].done
    BY <2>10, <2>11 DEF Good
  <2>13. QED
    BY <2>3, <2>10, <2>12 DEF Good
<1>4. QED
  BY <1>2, <1>3

Started(t, new) ==
  [flags     |-> t.flags,
   new_flags |-> [i \in 0 .. new - 1 |-> "empty"],
   entry     |-> [i \in 0 .. new - 1 |->
                    IF i < t.n_buckets THEN t.entry[i] ELSE NoEntry],
   hand      |-> NoEntry,
   done      |-> TRUE]

PassStep(t, new, f) ==
  [j \in 0 .. t.n_buckets |->
     IF j = 0 THEN Started(t, new)
     ELSE LET before == f[j - 1] IN Move(before, j - 1, new)]

Passes(t, new) == CHOOSE f : f = PassStep(t, new, f)

Rehashed(t, new, last) ==
  [n_buckets   |-> new,
   size        |-> t.size,
   n_occupied  |-> t.size,
   upper_bound |-> UpperBound(new),
   flags       |-> last.new_flags,
   entry       |-> [i \in 0 .. new - 1 |->
                      IF last.new_flags[i] = "live" THEN last.entry[i] ELSE NoEntry]]

(* The outer loop of kh_resize by its passes.                              *)
LEMMA RehashPasses ==
  ASSUME NEW t, NEW new
  PROVE  Rehash(t, new) = Rehashed(t, new, Passes(t, new)[t.n_buckets])
BY Zenon DEF Rehash, Rehashed, Passes, PassStep, Started

(* Each pass works on what the one before has left.                        *)
LEMMA PassesEquation ==
  ASSUME NEW t, NEW new, NEW n \in Nat, n = t.n_buckets
  PROVE  \A k \in 0 .. n :
           Passes(t, new)[k] = IF k = 0 THEN Started(t, new) ELSE Move(Passes(t, new)[k - 1], k - 1, new)
<1> DEFINE Val(f, k) == IF k = 0 THEN Started(t, new) ELSE Move(f[k - 1], k - 1, new)
           Sol(m, f) == f = [k \in 0 .. m |-> Val(f, k)]
           S == {m \in Nat : \E f : Sol(m, f)}
<1>1. 0 \in S
  <2> DEFINE g == [k \in 0 .. 0 |-> Started(t, new)]
  <2>1. \A k \in 0 .. 0 : Val(g, k) = Started(t, new)
    OBVIOUS
  <2>2. Sol(0, g)
    BY <2>1
  <2> HIDE DEF Sol, g
  <2>3. \E f : Sol(0, f)
    BY <2>2
  <2>4. QED
    BY <2>3
<1>2. ASSUME NEW m \in Nat, m \in S
      PROVE  m + 1 \in S
  <2>1. PICK f : Sol(m, f)
    BY <1>2
  <2> HIDE DEF Val
  <2>2. \A k \in 0 .. m : f[k] = Val(f, k)
    BY <2>1
  <2> DEFINE g == [k \in 0 .. m + 1 |-> IF k <= m THEN f[k] ELSE Val(f, k)]
  <2>3. ASSUME NEW k \in 0 .. m + 1
        PROVE  g[k] = Val(g, k)
    <3>1. CASE k = 0
      BY <2>2, <3>1 DEF Val
    <3>2. CASE k \in 1 .. m + 1
      <4>1. g[k - 1] = f[k - 1] /\ k # 0
        BY <3>2
      <4>2. g[k] = Val(f, k)
        BY <2>2, <3>2
      <4> HIDE DEF g
      <4>3. Val(f, k) = Val(g, k)
        BY <4>1, Zenon DEF Val
      <4>4. QED
        BY <4>2, <4>3
    <3>3. QED
      BY <3>1, <3>2
  <2>4. g = [k \in 0 .. m + 1 |-> g[k]]
    OBVIOUS
  <2> HIDE DEF g
  <2>5. Sol(m + 1, g)
    BY <2>3, <2>4
  <2> HIDE DEF Sol
  <2>6. \E f1 : Sol(m + 1, f1)
    BY <2>5
  <2>7. QED
    BY <2>6
<1>3. n \in S
  <2> HIDE DEF S
  <2> QED
    BY <1>1, <1>2, SetInduction
<1>4. \E f : Sol(n, f)
  <2> HIDE DEF Sol
  <2>1. QED
    BY <1>3
<1>5. \E f : f = PassStep(t, new, f)
  BY <1>4, Zenon DEF PassStep
<1>6. Passes(t, new) = PassStep(t, new, Passes(t, new))
  BY <1>5, Zenon DEF Passes
<1> DEFINE g == PassStep(t, new, Passes(t, new))
<1>7. \A k \in 0 .. n : g[k] = Val(Passes(t, new), k)
  BY DEF PassStep
<1> HIDE DEF g
<1>8. QED
  BY <1>6, <1>7, Zenon DEF g

(* A rehashing begins with every entry in the old table.                   *)
LEMMA StartMoves ==
  ASSUME NEW t, Sound(t), NEW new \in Nat, t.n_buckets <= new, NEW w, w = Started(t, new)
  PROVE  Moving(w, t.n_buckets, new, t.size, Entries(t)) /\ w.done
<1> DEFINE n == t.n_buckets
           g == [i \in 0 .. new - 1 |-> "empty"]
           u == [i \in 0 .. new - 1 |-> IF i < n THEN t.entry[i] ELSE NoEntry]
<1>1. Typed(t) /\ Counted(t) /\ Distinct(t)
  BY DEF Sound
<1>2. n \in Nat /\ Cardinality(Live(t)) \in Nat
  BY <1>1, Finite
<1>3. w = Transit(t.flags, g, u, NoEntry, TRUE)
  BY Zenon DEF Started, Transit
<1>4. /\ DOMAIN g = 0 .. new - 1 /\ \A i \in 0 .. new - 1 : g[i] = "empty"
      /\ DOMAIN u = 0 .. new - 1 /\ \A i \in 0 .. n - 1 : u[i] = t.entry[i]
  BY <1>2
<1> HIDE DEF g, u
<1>5. w.flags = t.flags /\ w.new_flags = g /\ w.entry = u /\ w.done
  BY <1>3 DEF Transit
<1>6. w = [flags |-> w.flags, new_flags |-> w.new_flags, entry |-> w.entry,
           hand |-> w.hand, done |-> w.done]
  BY <1>3 DEF Transit
<1>7. DOMAIN w.flags = 0 .. n - 1
  BY <1>1, <1>5 DEF Typed, Buckets
<1>8. OldLive(w) = Live(t) /\ NewLive(w) = {}
  BY <1>4, <1>5, <1>7 DEF OldLive, NewLive, Live, Buckets
<1>9. Placeable(w) = Live(t) /\ \A i \in Live(t) : w.entry[i] = t.entry[i]
  BY <1>4, <1>5, <1>8 DEF Placeable, Live, Buckets
<1>10. InTransit(w) = Entries(t)
  <2>1. ASSUME NEW e
        PROVE  e \in InTransit(w) <=> e \in Entries(t)
    BY <1>5, <1>9, InTransitOf, EntryOf
  <2>2. QED
    BY <2>1
<1>11. Cardinality(OldLive(w)) + Cardinality(NewLive(w)) + (IF w.done THEN 0 ELSE 1)
         = t.size
  <2>1. Cardinality(NewLive(w)) = 0
    BY <1>8, FS_EmptySet
  <2>2. t.size = Cardinality(OldLive(w))
    BY <1>1, <1>8 DEF Counted
  <2>3. QED
    BY <1>2, <1>5, <1>8, <2>1, <2>2
<1>12. \A i \in Placeable(w) : w.entry[i] \in Entry
  BY <1>1, <1>9 DEF Typed
<1>13. \A i, j \in Placeable(w) : w.entry[i].key = w.entry[j].key => i = j
  BY <1>1, <1>9 DEF Distinct
<1>14. /\ DOMAIN w.new_flags = 0 .. new - 1
       /\ \A i \in 0 .. new - 1 : w.new_flags[i] \in {"empty", "live"}
       /\ DOMAIN w.entry = 0 .. new - 1
       /\ OldLive(w) \cap NewLive(w) = {}
       /\ \A i \in NewLive(w) : Reached(new, w.new_flags, w.entry[i].key, i)
  BY <1>4, <1>5, <1>8
<1>15. QED
  BY <1>5, <1>6, <1>7, <1>10, <1>11, <1>12, <1>13, <1>14, Zenon DEF Moving

(* Rehashing keeps the entries and clears the table of tombstones.         *)
LEMMA RehashSound ==
  ASSUME NEW t, Sound(t), NEW new \in Sizes, t.n_buckets <= new,
         t.size < UpperBound(new), NEW r, r = Rehash(t, new)
  PROVE  /\ Sound(r) /\ Entries(r) = Entries(t)
         /\ r.n_buckets = new /\ r.n_occupied = t.size /\ r.upper_bound = UpperBound(new)
<1> DEFINE n == t.n_buckets
           E == Entries(t)
           f == Passes(t, new)
           Good(j) == /\ Moving(f[j], n, new, t.size, E) /\ f[j].done
                      /\ \A i \in 0 .. j - 1 : i \notin OldLive(f[j])
           S == {j \in Nat : j <= n => Good(j)}
<1>1. new \in Nat /\ new >= 4
  BY SizesDouble DEF Sizes
<1>2. n \in Nat /\ t.size \in Nat
  BY Finite DEF Sound, Counted
<1>3. UpperBound(new) \in Nat /\ UpperBound(new) < new /\ t.size < new
  BY <1>1, <1>2, BoundLeavesRoom
<1>4. \A j \in 0 .. n : f[j] = IF j = 0 THEN Started(t, new)
                               ELSE Move(f[j - 1], j - 1, new)
  BY <1>2, PassesEquation
<1>5. r = Rehashed(t, new, f[n])
  BY RehashPasses
<1> HIDE DEF f
<1>6. Good(0)
  BY <1>1, <1>2, <1>4, StartMoves
<1>7. ASSUME NEW j \in Nat, j + 1 <= n, Good(j)
      PROVE  Good(j + 1)
  <2>1. j + 1 \in 0 .. n /\ j + 1 # 0 /\ (j + 1) - 1 = j /\ j \in 0 .. n - 1
    BY <1>2, <1>7
  <2>2. f[j + 1] = Move(f[j], j, new)
    BY <1>4, <2>1
  <2>3. /\ Moving(f[j + 1], n, new, t.size, E) /\ f[j + 1].done
        /\ OldLive(f[j + 1]) \subseteq OldLive(f[j]) \ {j}
    BY <1>2, <1>3, <1>7, <2>1, <2>2, MoveMoves
  <2>4. \A i \in 0 .. (j + 1) - 1 : i = j \/ i \in 0 .. j - 1
    OBVIOUS
  <2>5. QED
    BY <1>7, <2>3, <2>4
<1> HIDE DEF Good
<1>8. 0 \in S /\ \A j \in Nat : j \in S => j + 1 \in S
  BY <1>2, <1>6, <1>7
<1>9. n \in S
  <2> HIDE DEF S
  <2>1. Nat \subseteq S
    BY <1>8, SetInduction
  <2>2. QED
    BY <1>2, <2>1
<1> DEFINE w == f[n]
<1>10. Moving(w, n, new, t.size, E) /\ w.done /\ \A i \in 0 .. n - 1 : i \notin OldLive(w)
  BY <1>2, <1>9 DEF Good
<1> HIDE DEF w, S
<1>11. OldLive(w) = {} /\ Placeable(w) = NewLive(w)
  BY <1>10 DEF Moving, OldLive, Placeable
<1> DEFINE u == [i \in 0 .. new - 1 |->
                   IF w.new_flags[i] = "live" THEN w.entry[i] ELSE NoEntry]
<1>12. r = [n_buckets |-> new, size |-> t.size, n_occupied |-> t.size,
            upper_bound |-> UpperBound(new), flags |-> w.new_flags, entry |-> u]
  BY <1>5, Zenon DEF Rehashed, w
<1>13. DOMAIN u = 0 .. new - 1 /\ \A i \in NewLive(w) : u[i] = w.entry[i]
  BY <1>10 DEF NewLive, Moving
<1> HIDE DEF u
<1>14. /\ r.n_buckets = new /\ r.size = t.size /\ r.n_occupied = t.size
       /\ r.upper_bound = UpperBound(new) /\ r.flags = w.new_flags /\ r.entry = u
       /\ r = [n_buckets |-> r.n_buckets, size |-> r.size, n_occupied |-> r.n_occupied,
               upper_bound |-> r.upper_bound, flags |-> r.flags, entry |-> r.entry]
  BY <1>12
<1>15. /\ DOMAIN w.new_flags = 0 .. new - 1 /\ DOMAIN w.entry = 0 .. new - 1
       /\ \A i \in 0 .. new - 1 : w.new_flags[i] \in {"empty", "live"}
       /\ \A i \in NewLive(w) : w.entry[i] \in Entry
       /\ \A i, j \in NewLive(w) : w.entry[i].key = w.entry[j].key => i = j
       /\ \A i \in NewLive(w) : Reached(new, w.new_flags, w.entry[i].key, i)
       /\ InTransit(w) = E
  BY <1>10, <1>11 DEF Moving
<1>16. Buckets(r) = 0 .. new - 1
  BY <1>14 DEF Buckets
<1>17. Live(r) = NewLive(w) /\ Used(r) = NewLive(w)
  BY <1>14, <1>15, <1>16 DEF Live, Used, NewLive
<1>18. \A i \in Live(r) : r.entry[i] = w.entry[i]
  BY <1>13, <1>14, <1>17
<1>19. Typed(r)
  <2>1. r.n_buckets \in Sizes \cup {0}
    BY <1>14
  <2>2. DOMAIN r.flags = Buckets(r) /\ DOMAIN r.entry = Buckets(r)
    BY <1>13, <1>14, <1>15, <1>16
  <2>3. \A i \in Buckets(r) : r.flags[i] \in Flag
    BY <1>14, <1>15, <1>16 DEF Flag
  <2>4. \A i \in Live(r) : r.entry[i] \in Entry
    BY <1>15, <1>17, <1>18
  <2>5. QED
    BY <1>14, <2>1, <2>2, <2>3, <2>4 DEF Typed
<1>20. Counted(r)
  <2>1. Cardinality(OldLive(w)) = 0
    BY <1>11, FS_EmptySet
  <2>2. Cardinality(NewLive(w)) \in Nat
    BY <1>1, <1>2, <1>10, MovingFinite
  <2>3. Cardinality(NewLive(w)) = t.size
    BY <1>10, <2>1, <2>2 DEF Moving
  <2>4. QED
    BY <1>1, <1>2, <1>3, <1>14, <1>17, <2>3 DEF Counted
<1>21. Distinct(r)
  BY <1>15, <1>17, <1>18 DEF Distinct
<1>22. Findable(r)
  BY <1>14, <1>15, <1>17, <1>18 DEF Findable
<1>23. Entries(r) = E
  <2>1. ASSUME NEW e
        PROVE  e \in Entries(r) <=> e \in InTransit(w)
    BY <1>10, <1>11, <1>17, <1>18, InTransitOf, EntryOf
  <2>2. QED
    BY <1>15, <2>1
<1>24. QED
  BY <1>14, <1>19, <1>20, <1>21, <1>22, <1>23 DEF Sound

----------------------------------------------------------------------------
(* An insertion finds room, for a set of keys that a table can hold.       *)

(* A table that does not hold a key has fewer entries than there are keys. *)
LEMMA FewerThanKeys ==
  ASSUME IsFiniteSet(Key), NEW t, Sound(t), NEW key \in Key,
         \A i \in Live(t) : t.entry[i].key # key
  PROVE  t.size \in Nat /\ Cardinality(Key) \in Nat /\ t.size < Cardinality(Key)
<1> DEFINE K == Key \ {key}
           f == [i \in Live(t) |-> t.entry[i].key]
<1>1. Typed(t) /\ Counted(t) /\ Distinct(t)
  BY DEF Sound
<1>2. f \in [Live(t) -> K]
  BY <1>1 DEF Typed, Entry
<1>3. f \in Injection(Live(t), K)
  BY <1>1, <1>2 DEF Injection, IsInjective, Distinct
<1>4. Cardinality(Key) \in Nat
  BY FS_CardinalityType
<1>5. IsFiniteSet(K) /\ Cardinality(K) = Cardinality(Key) - 1
  BY FS_RemoveElement
<1>6. Cardinality(Live(t)) <= Cardinality(K)
  BY <1>3, <1>5, FS_Injection
<1>7. t.size = Cardinality(Live(t)) /\ t.size \in Nat
  BY <1>1, Finite DEF Counted
<1>8. QED
  BY <1>4, <1>5, <1>6, <1>7

(* kh_put finds room or makes it, khash.h:310-317, and no entry is lost.   *)
LEMMA RoomMade ==
  ASSUME NEW t, Sound(t), NEW key \in Key,
         \A i \in Live(t) : t.entry[i].key # key, NEW r, r = MakeRoom(t)
  PROVE  /\ Sound(r) /\ Entries(r) = Entries(t)
         /\ r.n_buckets # 0 /\ r.n_occupied < r.upper_bound
<1> DEFINE n == t.n_buckets
<1>1. Typed(t) /\ Counted(t)
  BY DEF Sound
<1>2. /\ n \in Nat /\ t.size \in Nat /\ t.n_occupied \in Nat
      /\ t.size <= t.n_occupied
  BY <1>1, Finite DEF Counted
<1>3. Size[2] = 4 /\ \A k \in 2 .. 30 : Size[k] \in Nat /\ Size[k] >= 4 /\ Size[k] \in Sizes
  BY SizesDouble DEF Sizes
<1>4. ASSUME NEW k \in 2 .. 30, NEW m, RoundUp(m) = Size[k], n <= Size[k],
             t.size < UpperBound(Size[k]), r = kh_resize(t, m)
      PROVE  /\ Sound(r) /\ Entries(r) = Entries(t)
             /\ r.n_buckets # 0 /\ r.n_occupied < r.upper_bound
  <2>1. UpperBound(Size[k]) \in Nat
    BY <1>3, BoundLeavesRoom
  <2>2. r = Rehash(t, Size[k])
    BY <1>2, <1>4, <2>1 DEF kh_resize
  <2>3. /\ Sound(r) /\ Entries(r) = Entries(t)
        /\ r.n_buckets = Size[k] /\ r.n_occupied = t.size
        /\ r.upper_bound = UpperBound(Size[k])
    BY <1>3, <1>4, <2>2, RehashSound
  <2>4. QED
    BY <1>3, <1>4, <2>3
<1>5. CASE t.n_occupied < t.upper_bound
  <2>1. r = t
    BY <1>5 DEF MakeRoom
  <2>2. n # 0
    <3>1. n = 0 => t.upper_bound = 0
      BY <1>1 DEF Counted
    <3>2. QED
      BY <1>2, <1>5, <3>1
  <2>3. QED
    BY <1>5, <2>1, <2>2
<1>6. CASE ~(t.n_occupied < t.upper_bound) /\ n = 0
  <2>1. t.size = 0
    BY <1>1, <1>2, <1>6 DEF Counted
  <2>2. r = kh_resize(t, 1)
    BY <1>6, <2>1 DEF MakeRoom
  <2>3. RoundUp(1) = Size[2]
    BY <1>3, RoundsUp
  <2>4. t.size < UpperBound(Size[2])
    BY <1>3, <2>1 DEF UpperBound
  <2>5. QED
    BY <1>3, <1>4, <1>6, <2>2, <2>3, <2>4
<1>7. CASE ~(t.n_occupied < t.upper_bound) /\ n # 0
  <2>1. PICK k \in 2 .. 30 : n = Size[k]
    BY <1>1, <1>7 DEF Typed, Sizes
  <2>2. n >= 4 /\ t.upper_bound = UpperBound(n)
    BY <1>1, <1>3, <1>7, <2>1 DEF Counted
  <2>3. /\ UpperBound(n) \in Nat /\ UpperBound(n) < n /\ n <= 2 * UpperBound(n)
        /\ UpperBound(n) < UpperBound(2 * n)
    BY <1>2, <2>2, BoundLeavesRoom
  <2>4. CASE n > 2 * t.size
    <3>1. r = kh_resize(t, n - 1)
      BY <1>7, <2>4 DEF MakeRoom
    <3>2. n - 1 \in Nat /\ n - 1 <= n /\ (k = 2 \/ 2 * (n - 1) > n)
      BY <1>2, <2>2
    <3>3. RoundUp(n - 1) = Size[k]
      BY <2>1, <3>2, RoundsUp
    <3>4. t.size < UpperBound(Size[k]) /\ n <= Size[k]
      BY <1>2, <2>1, <2>3, <2>4
    <3>5. QED
      BY <1>4, <3>1, <3>3, <3>4
  <2>5. CASE ~(n > 2 * t.size)
    <3>1. r = kh_resize(t, n + 1)
      BY <1>7, <2>5 DEF MakeRoom
    <3>2. k + 1 \in 2 .. 30 /\ Size[k + 1] = 2 * n
      <4>1. t.size < Cardinality(Key) /\ Cardinality(Key) \in Nat
        BY FewerThanKeys, KeysFit
      <4>2. Cardinality(Key) <= Size[29] /\ Size[29] \in Nat /\ Size[30] = 2 * Size[29]
        BY SizesDouble, KeysFit
      <4>3. n < Size[30]
        BY <1>2, <2>5, <4>1, <4>2
      <4>4. k # 30
        BY <1>2, <2>1, <4>3
      <4>5. k \in 2 .. 29
        BY <4>4
      <4>6. QED
        BY <2>1, <4>5, SizesDouble
    <3>3. n + 1 \in Nat /\ n + 1 <= Size[k + 1] /\ 2 * (n + 1) > Size[k + 1]
      BY <1>2, <2>2, <3>2
    <3>4. RoundUp(n + 1) = Size[k + 1]
      BY <3>2, <3>3, RoundsUp
    <3>5. t.size < UpperBound(Size[k + 1]) /\ n <= Size[k + 1]
      <4>1. t.size <= UpperBound(n)
        BY <1>1, <1>2, <2>2, <2>3 DEF Counted
      <4>2. UpperBound(2 * n) \in Nat
        BY <1>2, <2>2, BoundLeavesRoom
      <4>3. QED
        BY <1>2, <2>3, <3>2, <4>1, <4>2
    <3>6. QED
      BY <1>4, <3>1, <3>2, <3>4, <3>5
  <2>6. QED
    BY <2>4, <2>5
<1>8. QED
  BY <1>5, <1>6, <1>7

(* kh_put adds its entry to those of the table. *)
LEMMA PutSound ==
  ASSUME NEW t, Sound(t), NEW key \in Key, NEW value \in Value,
         \A i \in Live(t) : t.entry[i].key # key, NEW r, r = kh_put(t, key, value)
  PROVE  Sound(r) /\ Entries(r) = Entries(t) \cup {[key |-> key, value |-> value]}
<1> DEFINE e == [key |-> key, value |-> value]
           m == MakeRoom(t)
           x == BucketFor(m, key)
<1>1. Sound(m) /\ Entries(m) = Entries(t) /\ m.n_buckets # 0 /\ m.n_occupied < m.upper_bound
  BY RoomMade
<1>2. e \in Entry /\ e.key = key
  BY DEF Entry
<1>3. \A i \in Live(m) : m.entry[i].key # key
  <2>1. ASSUME NEW i \in Live(m)
        PROVE  m.entry[i].key # key
    <3>1. m.entry[i] \in Entries(t)
      BY <1>1, EntryOf
    <3>2. PICK j \in Live(t) : m.entry[i] = t.entry[j]
      BY <3>1, EntryOf
    <3>3. QED
      BY <3>2
  <2>2. QED
    BY <2>1
<1>4. x \in Buckets(m) /\ m.flags[x] # "live" /\ Reached(m.n_buckets, m.flags, key, x)
  BY <1>1, <1>3, FreeBucket
<1>5. Filled(m, r, x, e)
  BY <1>1, <1>4, FilledBucket DEF Sound
<1> HIDE DEF m, x, e
<1>6. QED
  BY <1>1, <1>2, <1>3, <1>4, <1>5, FillingSound DEF e

----------------------------------------------------------------------------
(* The loop of POLL deletes every entry of its keys.                        *)

Visit(t, i, keys) ==
  IF i \in Live(t) /\ t.entry[i].key \in keys THEN kh_del(t, i) ELSE t

SweepStep(t, keys, f) ==
  [j \in 0 .. t.n_buckets |->
     IF j = 0 THEN t
     ELSE LET before == f[j - 1]
          IN  IF j - 1 \in Live(before) /\ before.entry[j - 1].key \in keys
                THEN kh_del(before, j - 1) ELSE before]

Visits(t, keys) == CHOOSE f : f = SweepStep(t, keys, f)

(* The loop of POLL over the buckets, by its turns.                        *)
LEMMA SweepVisits ==
  ASSUME NEW t, NEW keys
  PROVE  Swept(t, keys) = Visits(t, keys)[t.n_buckets]
BY Zenon DEF Swept, Visits, SweepStep

(* Each turn works on what the one before has left.                        *)
LEMMA VisitsEquation ==
  ASSUME NEW t, NEW keys, NEW n \in Nat, n = t.n_buckets
  PROVE  \A k \in 0 .. n :
           Visits(t, keys)[k] = IF k = 0 THEN t ELSE Visit(Visits(t, keys)[k - 1], k - 1, keys)
<1> DEFINE Val(f, k) == IF k = 0 THEN t ELSE Visit(f[k - 1], k - 1, keys)
           Sol(m, f) == f = [k \in 0 .. m |-> Val(f, k)]
           S == {m \in Nat : \E f : Sol(m, f)}
<1>1. 0 \in S
  <2> DEFINE g == [k \in 0 .. 0 |-> t]
  <2>1. \A k \in 0 .. 0 : Val(g, k) = t
    OBVIOUS
  <2>2. Sol(0, g)
    BY <2>1
  <2> HIDE DEF Sol, g
  <2>3. \E f : Sol(0, f)
    BY <2>2
  <2>4. QED
    BY <2>3
<1>2. ASSUME NEW m \in Nat, m \in S
      PROVE  m + 1 \in S
  <2>1. PICK f : Sol(m, f)
    BY <1>2
  <2> HIDE DEF Val
  <2>2. \A k \in 0 .. m : f[k] = Val(f, k)
    BY <2>1
  <2> DEFINE g == [k \in 0 .. m + 1 |-> IF k <= m THEN f[k] ELSE Val(f, k)]
  <2>3. ASSUME NEW k \in 0 .. m + 1
        PROVE  g[k] = Val(g, k)
    <3>1. CASE k = 0
      BY <2>2, <3>1 DEF Val
    <3>2. CASE k \in 1 .. m + 1
      <4>1. g[k - 1] = f[k - 1] /\ k # 0
        BY <3>2
      <4>2. g[k] = Val(f, k)
        BY <2>2, <3>2
      <4> HIDE DEF g
      <4>3. Val(f, k) = Val(g, k)
        BY <4>1, Zenon DEF Val
      <4>4. QED
        BY <4>2, <4>3
    <3>3. QED
      BY <3>1, <3>2
  <2>4. g = [k \in 0 .. m + 1 |-> g[k]]
    OBVIOUS
  <2> HIDE DEF g
  <2>5. Sol(m + 1, g)
    BY <2>3, <2>4
  <2> HIDE DEF Sol
  <2>6. \E f1 : Sol(m + 1, f1)
    BY <2>5
  <2>7. QED
    BY <2>6
<1>3. n \in S
  <2> HIDE DEF S
  <2> QED
    BY <1>1, <1>2, SetInduction
<1>4. \E f : Sol(n, f)
  <2> HIDE DEF Sol
  <2>1. QED
    BY <1>3
<1>5. \E f : f = SweepStep(t, keys, f)
  BY <1>4, Zenon DEF SweepStep, Visit
<1>6. Visits(t, keys) = SweepStep(t, keys, Visits(t, keys))
  BY <1>5, Zenon DEF Visits
<1> DEFINE g == SweepStep(t, keys, Visits(t, keys))
<1>7. \A k \in 0 .. n : g[k] = Val(Visits(t, keys), k)
  BY DEF SweepStep, Visit
<1> HIDE DEF g
<1>8. QED
  BY <1>6, <1>7, Zenon DEF g

(* A loop that deletes the bucket it stands on, module.c:965-994, visits   *)
(* every entry all the same, and leaves those it was not to delete.        *)
LEMMA SweepSound ==
  ASSUME NEW t, Sound(t), NEW keys, NEW r, r = Visits(t, keys)[t.n_buckets]
  PROVE  Sound(r) /\ Entries(r) = Without(t, keys)
<1> DEFINE n == t.n_buckets
           f == Visits(t, keys)
           Gone(j, i) == i < j /\ t.entry[i].key \in keys
           Good(j) == /\ Sound(f[j])
                      /\ Live(f[j]) = {i \in Live(t) : ~Gone(j, i)}
                      /\ \A i \in Live(f[j]) : f[j].entry[i] = t.entry[i]
           S == {j \in Nat : j <= n => Good(j)}
<1>1. n \in Nat
  BY Finite DEF Sound
<1>2. \A j \in 0 .. n : f[j] = IF j = 0 THEN t ELSE Visit(f[j - 1], j - 1, keys)
  BY <1>1, VisitsEquation
<1> HIDE DEF f
<1>3. \A i \in Live(t) : i \in 0 .. n - 1
  BY DEF Live, Buckets
<1>4. Good(0)
  BY <1>1, <1>2, <1>3
<1>5. ASSUME NEW j \in Nat, j + 1 <= n, Good(j)
      PROVE  Good(j + 1)
  <2> DEFINE a == f[j]
             b == f[j + 1]
  <2>1. j + 1 \in 0 .. n /\ j + 1 # 0 /\ (j + 1) - 1 = j
    BY <1>1, <1>5
  <2>2. b = IF j \in Live(a) /\ a.entry[j].key \in keys THEN kh_del(a, j) ELSE a
    BY <1>2, <2>1 DEF Visit
  <2>3. /\ Sound(a) /\ Live(a) = {i \in Live(t) : ~Gone(j, i)}
        /\ \A i \in Live(a) : a.entry[i] = t.entry[i]
    BY <1>5
  <2>4. \A i \in Live(t) : i \in Int /\ (i < j + 1 <=> i < j \/ i = j)
    BY <1>3
  <2> HIDE DEF a, b
  <2>5. CASE j \in Live(a) /\ a.entry[j].key \in keys
    <3>1. b = kh_del(a, j)
      BY <2>2, <2>5
    <3>2. /\ Sound(b) /\ Live(b) = Live(a) \ {j}
          /\ \A i \in Live(b) : b.entry[i] = a.entry[i]
      <4>1. PICK x \in Live(a) : x = j
        BY <2>5
      <4>2. Sound(a) /\ b = kh_del(a, x)
        BY <2>3, <3>1, <4>1
      <4>3. Sound(b) /\ Live(b) = Live(a) \ {x} /\ KeptEntries(b, a)
        BY <4>2, DeletionSound
      <4>4. QED
        BY <4>1, <4>3 DEF KeptEntries
    <3>3. t.entry[j].key \in keys
      BY <2>3, <2>5
    <3>4. Live(b) = {i \in Live(t) : ~Gone(j + 1, i)}
      BY <2>3, <2>4, <3>2, <3>3
    <3>5. \A i \in Live(b) : b.entry[i] = t.entry[i]
      BY <2>3, <3>2
    <3>6. QED
      BY <3>2, <3>4, <3>5 DEF b
  <2>6. CASE ~(j \in Live(a) /\ a.entry[j].key \in keys)
    <3>1. b = a
      BY <2>2, <2>6
    <3>2. j \in Live(t) => t.entry[j].key \notin keys
      <4>1. ASSUME j \in Live(t), t.entry[j].key \in keys
            PROVE  FALSE
        <5>1. j \in Live(a)
          BY <2>3, <4>1
        <5>2. QED
          BY <2>3, <2>6, <4>1, <5>1
      <4>2. QED
        BY <4>1
    <3>3. Live(b) = {i \in Live(t) : ~Gone(j + 1, i)}
      BY <2>3, <2>4, <3>1, <3>2
    <3>4. QED
      BY <2>3, <3>1, <3>3 DEF b
  <2>7. QED
    BY <2>5, <2>6
<1> HIDE DEF Good
<1>6. 0 \in S /\ \A j \in Nat : j \in S => j + 1 \in S
  BY <1>1, <1>4, <1>5
<1>7. n \in S
  <2> HIDE DEF S
  <2>1. Nat \subseteq S
    BY <1>6, SetInduction
  <2>2. QED
    BY <1>1, <2>1
<1>8. /\ Sound(r) /\ Live(r) = {i \in Live(t) : ~Gone(n, i)}
      /\ \A i \in Live(r) : r.entry[i] = t.entry[i]
  BY <1>1, <1>7 DEF Good, f
<1>9. \A i \in Live(t) : Gone(n, i) <=> t.entry[i].key \in keys
  BY <1>1, <1>3
<1> HIDE DEF Gone
<1>10. ASSUME NEW e
       PROVE  e \in Entries(r) <=> e \in Without(t, keys)
  <2>1. e \in Without(t, keys) <=> \E i \in Live(t) : e = t.entry[i] /\ e.key \notin keys
    BY EntryOf DEF Without
  <2>2. e \in Entries(r) <=> \E i \in Live(r) : e = r.entry[i]
    BY EntryOf
  <2>3. QED
    BY <1>8, <1>9, <2>1, <2>2
<1>11. QED
  BY <1>8, <1>10

----------------------------------------------------------------------------
(* The theorems. *)

(* kh_init is sound and empty.                                             *)
LEMMA InitSound == Sound(kh_init) /\ Entries(kh_init) = {}
<1> DEFINE t == kh_init
<1>1. /\ t.n_buckets = 0 /\ t.size = 0 /\ t.n_occupied = 0 /\ t.upper_bound = 0
      /\ t.flags = <<>> /\ t.entry = <<>>
      /\ t = [n_buckets |-> t.n_buckets, size |-> t.size, n_occupied |-> t.n_occupied,
              upper_bound |-> t.upper_bound, flags |-> t.flags, entry |-> t.entry]
  BY DEF kh_init
<1>2. Buckets(t) = {} /\ Live(t) = {} /\ Used(t) = {}
  BY <1>1 DEF Buckets, Live, Used
<1>3. DOMAIN <<>> = {}
  OBVIOUS
<1> HIDE DEF t
<1>4. Typed(t)
  <2>1. t.n_buckets \in Sizes \cup {0}
    BY <1>1
  <2>2. DOMAIN t.flags = Buckets(t) /\ DOMAIN t.entry = Buckets(t)
    BY <1>1, <1>2, <1>3
  <2>3. QED
    BY <1>1, <1>2, <2>1, <2>2 DEF Typed
<1>5. Counted(t)
  BY <1>1, <1>2, FS_EmptySet DEF Counted
<1>6. Distinct(t) /\ Findable(t) /\ Entries(t) = {}
  BY <1>2 DEF Distinct, Findable, Entries
<1>7. QED
  BY <1>4, <1>5, <1>6 DEF Sound, t

(* A lookup that says there is no such key is right. *)
LEMMA NotFound ==
  ASSUME NEW t, Sound(t), NEW key \in Key
  PROVE  kh_get(t, key) \notin Live(t) <=> \A i \in Live(t) : t.entry[i].key # key
<1> DEFINE x == kh_get(t, key)
<1>1. \/ x \in Live(t) /\ t.entry[x].key = key
      \/ x = t.n_buckets /\ \A i \in Live(t) : t.entry[i].key # key
  BY LookupFinds
<1>2. t.n_buckets \notin Live(t)
  <2>1. t.n_buckets \in Nat
    BY Finite DEF Sound
  <2>2. QED
    BY <2>1 DEF Live, Buckets
<1> HIDE DEF x
<1>3. QED
  BY <1>1, <1>2 DEF x

(* Deleting the bucket a key is found in, if it is.                        *)
LEMMA FoundDeleted ==
  ASSUME NEW t, Sound(t), NEW key \in Key, NEW r, r = kh_del(t, kh_get(t, key))
  PROVE  Sound(r) /\ Entries(r) = Without(t, {key})
<1> DEFINE x == kh_get(t, key)
<1>1. \/ x \in Live(t) /\ t.entry[x].key = key
      \/ x = t.n_buckets /\ \A i \in Live(t) : t.entry[i].key # key
  BY LookupFinds
<1>2. CASE x \in Live(t)
  <2>1. t.entry[x].key = key
    BY <1>1, <1>2, NotFound
  <2>2. Sound(r) /\ Entries(r) = Without(t, {t.entry[x].key})
    BY <1>2, DeletionSound
  <2>3. QED
    BY <2>1, <2>2
<1>3. CASE x \notin Live(t)
  <2>1. r = t
    BY <1>3 DEF kh_del
  <2>2. \A i \in Live(t) : t.entry[i].key # key
    BY <1>1, <1>3
  <2>3. \A e \in Entries(t) : e.key # key
    BY <2>2, EntryOf
  <2>4. Without(t, {key}) = Entries(t)
    BY <2>3 DEF Without
  <2>5. QED
    BY <2>1, <2>4
<1>4. QED
  BY <1>2, <1>3

(* Every operation keeps a table sound, and enters a new key or deletes    *)
(* keys.                                                                   *)
LEMMA StepSound ==
  ASSUME Sound(h), MapNext
  PROVE  /\ Sound(h')
         /\ \/ \E key \in Key, value \in Value :
                 /\ \A i \in Live(h) : h.entry[i].key # key
                 /\ Entries(h') = Entries(h) \cup {[key |-> key, value |-> value]}
            \/ \E keys \in SUBSET Key : Entries(h') = Without(h, keys)
<1>1. ASSUME NEW key \in Key, NEW value \in Value, Insert(key, value)
      PROVE  /\ Sound(h')
             /\ \A i \in Live(h) : h.entry[i].key # key
             /\ Entries(h') = Entries(h) \cup {[key |-> key, value |-> value]}
  <2>1. kh_get(h, key) \notin Live(h)
    <3>1. h.n_buckets \in Nat
      BY Finite DEF Sound
    <3>2. kh_get(h, key) = h.n_buckets
      BY <1>1 DEF Insert
    <3>3. QED
      BY <3>1, <3>2 DEF Live, Buckets
  <2>2. \A i \in Live(h) : h.entry[i].key # key
    BY <2>1, NotFound
  <2>3. h' = kh_put(h, key, value)
    BY <1>1 DEF Insert
  <2>4. QED
    BY <2>2, <2>3, PutSound
<1>2. ASSUME NEW key \in Key, Discard(key)
      PROVE  Sound(h') /\ Entries(h') = Without(h, {key})
  BY <1>2, FoundDeleted DEF Discard
<1>3. ASSUME NEW keys \in SUBSET Key, Sweep(keys)
      PROVE  Sound(h') /\ Entries(h') = Without(h, keys)
  BY <1>3, SweepVisits, SweepSound DEF Sweep
<1>4. CASE \E key \in Key, value \in Value : Insert(key, value)
  BY <1>1, <1>4
<1>5. CASE \E key \in Key : Discard(key)
  <2>1. PICK key \in Key : Discard(key)
    BY <1>5
  <2>2. {key} \in SUBSET Key
    OBVIOUS
  <2>3. QED
    BY <1>2, <2>1, <2>2
<1>6. CASE \E keys \in SUBSET Key : Sweep(keys)
  BY <1>3, <1>6
<1>7. QED
  BY <1>4, <1>5, <1>6 DEF MapNext

(* In every reachable table the counters are right, the keys distinct, and *)
(* every entry is where a search for it comes to.                          *)
THEOREM TablesAreSound == MapSpec => []Sound(h)
<1>1. MapInit => Sound(h)
  BY InitSound DEF MapInit
<1>2. Sound(h) /\ [MapNext]_h => Sound(h)'
  <2>1. ASSUME Sound(h), MapNext
        PROVE  Sound(h)'
    BY <2>1, StepSound
  <2>2. ASSUME Sound(h), UNCHANGED h
        PROVE  Sound(h)'
    BY <2>2
  <2>3. QED
    BY <2>1, <2>2
<1>3. QED
  BY <1>1, <1>2, PTL DEF MapSpec

(* The counters of a table say what its flags say, and a bucket is always  *)
(* left empty: every search of kh_get, kh_put and kh_resize ends.          *)
THEOREM CountersStayExact == MapSpec => []CountersExact
<1>1. Sound(h) => CountersExact
  <2>1. SUFFICES ASSUME Sound(h) PROVE CountersExact
    OBVIOUS
  <2>2. Typed(h) /\ Counted(h)
    BY <2>1 DEF Sound
  <2>3. QED
    BY <2>2, EmptyBucket DEF CountersExact, Counted, Used
<1>2. QED
  BY <1>1, TablesAreSound, PTL

(* A lookup finds exactly the keys that are there, whatever the hashes and *)
(* whatever was inserted, deleted and rehashed before.                     *)
THEOREM LookupsAlwaysFind == MapSpec => []LookupsFind
<1>1. Sound(h) => LookupsFind
  <2>1. SUFFICES ASSUME Sound(h) PROVE LookupsFind
    OBVIOUS
  <2>2. Typed(h) /\ Distinct(h)
    BY <2>1 DEF Sound
  <2>3. ASSUME NEW key \in Key
        PROVE  \/ kh_get(h, key) \in Live(h) /\ h.entry[kh_get(h, key)].key = key
               \/ /\ kh_get(h, key) = h.n_buckets
                  /\ \A i \in Live(h) : h.entry[i].key # key
    BY <2>1, LookupFinds
  <2>4. ASSUME NEW i \in Live(h)
        PROVE  kh_get(h, h.entry[i].key) = i
    <3>1. h.entry[i].key \in Key
      BY <2>2 DEF Typed, Entry
    <3>2. /\ kh_get(h, h.entry[i].key) \in Live(h)
          /\ h.entry[kh_get(h, h.entry[i].key)].key = h.entry[i].key
      BY <2>3, <3>1
    <3>3. QED
      BY <2>2, <3>2 DEF Distinct
  <2>5. QED
    BY <2>3, <2>4 DEF LookupsFind
<1>2. QED
  BY <1>1, TablesAreSound, PTL

----------------------------------------------------------------------------
(* The table implements a map. *)

Keyed(m, E) ==
  /\ m = [k \in DOMAIN m |-> m[k]]
  /\ \A k : k \in DOMAIN m <=> \E e \in E : e.key = k
  /\ \A e \in E : m[e.key] = e.value

(* A sound table stands for the function of its entries.                   *)
LEMMA ContentsKeyed ==
  ASSUME NEW t, Sound(t), NEW m, m = ContentsOf(t)
  PROVE  Keyed(m, Entries(t))
<1> DEFINE K == {t.entry[i].key : i \in Live(t)}
           At(k) == t.entry[CHOOSE i \in Live(t) : t.entry[i].key = k].value
<1>1. \A k : k \in K <=> \E e \in Entries(t) : e.key = k
  BY DEF Entries
<1>2. ASSUME NEW e \in Entries(t)
      PROVE  At(e.key) = e.value
  <2>1. PICK i \in Live(t) : e = t.entry[i]
    BY EntryOf
  <2> DEFINE c == CHOOSE j \in Live(t) : t.entry[j].key = e.key
  <2>2. c \in Live(t) /\ t.entry[c].key = e.key
    BY <2>1
  <2> HIDE DEF c
  <2>3. c = i
    BY <2>1, <2>2 DEF Sound, Distinct
  <2>4. QED
    BY <2>1, <2>3 DEF c
<1>3. m = [k \in K |-> At(k)]
  BY DEF ContentsOf
<1> HIDE DEF K, At
<1>4. DOMAIN m = K /\ (\A k \in K : m[k] = At(k)) /\ m = [k \in DOMAIN m |-> m[k]]
  BY <1>3
<1>5. QED
  BY <1>1, <1>2, <1>4 DEF Keyed

(* Entries stand for one function at most.                                 *)
LEMMA KeyedUnique ==
  ASSUME NEW m, NEW E, Keyed(m, E), NEW p, Keyed(p, E)
  PROVE  m = p
<1>1. DOMAIN m = DOMAIN p
  BY DEF Keyed
<1>2. \A k \in DOMAIN m : m[k] = p[k]
  BY DEF Keyed
<1>3. m = [k \in DOMAIN m |-> m[k]] /\ p = [k \in DOMAIN p |-> p[k]]
  BY DEF Keyed
<1>4. QED
  BY <1>1, <1>2, <1>3

(* One more entry stands for one more argument of the function.            *)
LEMMA InsertKeyed ==
  ASSUME NEW m, NEW E, Keyed(m, E), NEW key, NEW value, \A e \in E : e.key # key,
         NEW p, p = Extended(m, key, value)
  PROVE  Keyed(p, E \cup {[key |-> key, value |-> value]})
<1>1. /\ DOMAIN p = DOMAIN m \cup {key} /\ p[key] = value
      /\ \A k \in DOMAIN m : k # key => p[k] = m[k]
      /\ p = [k \in DOMAIN p |-> p[k]]
  BY DEF Extended
<1>2. /\ \A k : k \in DOMAIN m <=> \E e \in E : e.key = k
      /\ \A e \in E : m[e.key] = e.value
  BY DEF Keyed
<1> DEFINE d == [key |-> key, value |-> value]
<1>3. d.key = key /\ d.value = value
  OBVIOUS
<1> HIDE DEF d
<1>4. \A e \in E : p[e.key] = e.value
  BY <1>1, <1>2
<1>5. QED
  BY <1>1, <1>2, <1>3, <1>4 DEF Keyed, d

(* Fewer entries stand for a restriction of it.                            *)
LEMMA DeleteKeyed ==
  ASSUME NEW m, NEW E, Keyed(m, E), NEW keys, NEW p, p = Cut(m, keys)
  PROVE  Keyed(p, {e \in E : e.key \notin keys})
<1>1. /\ DOMAIN p = DOMAIN m \ keys /\ \A k \in DOMAIN p : p[k] = m[k]
      /\ p = [k \in DOMAIN p |-> p[k]]
  BY DEF Cut
<1>2. /\ \A k : k \in DOMAIN m <=> \E e \in E : e.key = k
      /\ \A e \in E : m[e.key] = e.value
  BY DEF Keyed
<1>3. QED
  BY <1>1, <1>2 DEF Keyed

(* No entries stand for the empty function.                                *)
LEMMA EmptyKeyed == Keyed(<<>>, {})
<1>1. DOMAIN <<>> = {} /\ <<>> = [k \in DOMAIN <<>> |-> <<>>[k]]
  OBVIOUS
<1>2. QED
  BY <1>1 DEF Keyed

(* A new entry is a new argument of what the table stands for,             *)
LEMMA InsertContents ==
  ASSUME NEW t, Sound(t), NEW r, Sound(r), NEW key, NEW value,
         \A i \in Live(t) : t.entry[i].key # key,
         Entries(r) = Entries(t) \cup {[key |-> key, value |-> value]}
  PROVE  ContentsOf(r) = Extended(ContentsOf(t), key, value) /\ key \notin DOMAIN ContentsOf(t)
<1> DEFINE m == ContentsOf(t)
<1>1. Keyed(m, Entries(t)) /\ Keyed(ContentsOf(r), Entries(r))
  BY ContentsKeyed
<1> HIDE DEF m
<1>2. \A e \in Entries(t) : e.key # key
  BY EntryOf
<1>3. Keyed(Extended(m, key, value), Entries(r))
  BY <1>1, <1>2, InsertKeyed
<1>4. ContentsOf(r) = Extended(m, key, value)
  BY <1>1, <1>3, KeyedUnique
<1>5. key \notin DOMAIN m
  BY <1>1, <1>2 DEF Keyed
<1>6. QED
  BY <1>4, <1>5 DEF m

(* and entries that are gone are arguments less.                           *)
LEMMA DeleteContents ==
  ASSUME NEW t, Sound(t), NEW r, Sound(r), NEW keys, Entries(r) = Without(t, keys)
  PROVE  ContentsOf(r) = Cut(ContentsOf(t), keys)
<1> DEFINE m == ContentsOf(t)
<1>1. Keyed(m, Entries(t)) /\ Keyed(ContentsOf(r), Entries(r))
  BY ContentsKeyed
<1> HIDE DEF m
<1>2. {e \in Entries(t) : e.key \notin keys} = Entries(r)
  BY DEF Without
<1>3. Keyed(Cut(m, keys), Entries(r))
  BY <1>1, <1>2, DeleteKeyed
<1>4. ContentsOf(r) = Cut(m, keys)
  BY <1>1, <1>3, KeyedUnique
<1>5. QED
  BY <1>4 DEF m

(* Whichever call comes next changes the keys it is given and no other:    *)
(* the second half of ImplementsMap.                                       *)
KeepToTheirKeys ==
  /\ \A key \in Key, value \in Value :
       kh_get(h, key) = h.n_buckets =>
         ContentsOf(kh_put(h, key, value)) = Extended(Contents, key, value)
  /\ \A key \in Key : ContentsOf(kh_del(h, kh_get(h, key))) = Cut(Contents, {key})
  /\ \A keys \in SUBSET Key : ContentsOf(Swept(h, keys)) = Cut(Contents, keys)

(* It holds of every sound table.                                          *)
LEMMA CallsKeepToTheirKeys ==
  ASSUME Sound(h)
  PROVE  KeepToTheirKeys
<1>1. Contents = ContentsOf(h)
  BY DEF Contents
<1>2. ASSUME NEW key \in Key, NEW value \in Value, kh_get(h, key) = h.n_buckets
      PROVE  ContentsOf(kh_put(h, key, value)) = Extended(Contents, key, value)
  <2>1. kh_get(h, key) \notin Live(h)
    <3>1. h.n_buckets \in Nat
      BY Finite DEF Sound
    <3>2. QED
      BY <1>2, <3>1 DEF Live, Buckets
  <2>2. \A i \in Live(h) : h.entry[i].key # key
    BY <2>1, NotFound
  <2> DEFINE r == kh_put(h, key, value)
  <2>3. Sound(r) /\ Entries(r) = Entries(h) \cup {[key |-> key, value |-> value]}
    BY <2>2, PutSound
  <2> HIDE DEF r
  <2>4. ContentsOf(r) = Extended(ContentsOf(h), key, value)
    BY <2>2, <2>3, InsertContents
  <2>5. QED
    BY <1>1, <2>4 DEF r
<1>3. ASSUME NEW key \in Key
      PROVE  ContentsOf(kh_del(h, kh_get(h, key))) = Cut(Contents, {key})
  <2> DEFINE r == kh_del(h, kh_get(h, key))
  <2>1. Sound(r) /\ Entries(r) = Without(h, {key})
    BY FoundDeleted
  <2> HIDE DEF r
  <2>2. ContentsOf(r) = Cut(ContentsOf(h), {key})
    BY <2>1, DeleteContents
  <2>3. QED
    BY <1>1, <2>2 DEF r
<1>4. ASSUME NEW keys \in SUBSET Key
      PROVE  ContentsOf(Swept(h, keys)) = Cut(Contents, keys)
  <2> DEFINE r == Swept(h, keys)
  <2>1. Sound(r) /\ Entries(r) = Without(h, keys)
    BY SweepVisits, SweepSound
  <2> HIDE DEF r
  <2>2. ContentsOf(r) = Cut(ContentsOf(h), keys)
    BY <2>1, DeleteContents
  <2>3. QED
    BY <1>1, <2>2 DEF r
<1>5. QED
  BY <1>2, <1>3, <1>4, Zenon DEF KeepToTheirKeys

(* Insertions and deletions change the keys they name, and a rehashing     *)
(* changes nothing.                                                        *)
THEOREM TablesAreMaps == MapSpec => ImplementsMap
<1>1. Contents = ContentsOf(h)
  BY DEF Contents
<1>2. MapInit => Map!Init
  <2>1. SUFFICES ASSUME MapInit PROVE Map!Init
    OBVIOUS
  <2>2. Keyed(Contents, {})
    BY <1>1, <2>1, InitSound, ContentsKeyed DEF MapInit
  <2>3. Contents = <<>>
    BY <2>2, EmptyKeyed, KeyedUnique
  <2>4. QED
    BY <2>3 DEF Map!Init
<1>3. ASSUME Sound(h), MapNext
      PROVE  Map!Next
  <2>1. Sound(h')
    BY <1>3, StepSound
  <2>2. Contents' = ContentsOf(h')
    BY DEF Contents
  <2>3. ASSUME NEW key \in Key, NEW value \in Value,
               \A i \in Live(h) : h.entry[i].key # key,
               Entries(h') = Entries(h) \cup {[key |-> key, value |-> value]}
        PROVE  Map!Next
    <3>1. Contents' = Extended(Contents, key, value) /\ key \notin DOMAIN Contents
      BY <1>1, <1>3, <2>1, <2>2, <2>3, InsertContents
    <3>2. Map!Insert(key, value)
      BY <3>1, Zenon DEF Map!Insert, Extended
    <3>3. QED
      BY <3>2, Zenon DEF Map!Next
  <2>4. ASSUME NEW keys \in SUBSET Key, Entries(h') = Without(h, keys)
        PROVE  Map!Next
    <3> DEFINE gone == keys \cap DOMAIN Contents
    <3>1. DOMAIN Contents \ gone = DOMAIN Contents \ keys
      OBVIOUS
    <3>2. gone \in SUBSET DOMAIN Contents
      OBVIOUS
    <3> HIDE DEF gone
    <3>3. Contents' = Cut(Contents, keys)
      BY <1>1, <1>3, <2>1, <2>2, <2>4, DeleteContents
    <3>4. Contents' = Cut(Contents, gone)
      BY <3>1, <3>3, Zenon DEF Cut
    <3>5. Map!Delete(gone)
      BY <3>4, Zenon DEF Map!Delete, Map!Restrict, Restrict, Cut
    <3>6. QED
      BY <3>2, <3>5, Zenon DEF Map!Next
  <2>5. QED
    BY <1>3, <2>3, <2>4, StepSound
<1>4. UNCHANGED h => UNCHANGED Contents
  BY DEF Contents
<1>5. Sound(h) /\ [MapNext]_h => [Map!Next]_Contents
  BY <1>3, <1>4
<1>6. Sound(h) => KeepToTheirKeys
  BY CallsKeepToTheirKeys
<1>7. MapSpec => []KeepToTheirKeys
  BY <1>6, TablesAreSound, PTL
<1>8. MapSpec => Map!Spec
  BY <1>2, <1>5, TablesAreSound, PTL DEF MapSpec, Map!Spec
<1>9. QED
  BY <1>7, <1>8, PTL DEF ImplementsMap, KeepToTheirKeys

----------------------------------------------------------------------------
(* The ids. *)

(* Truncated division. *)
LEMMA DivisionBounds ==
  ASSUME NEW x \in Nat, NEW b \in Nat, b > 0
  PROVE  /\ x \div b \in Nat /\ x % b \in Nat
         /\ (x \div b) * b <= x /\ x < (x \div b) * b + b
         /\ x - (x % b) = (x \div b) * b
OBVIOUS

(* Multiples of a bin keep their order. *)
LEMMA ProductsRise ==
  ASSUME NEW a \in Nat, NEW c \in Nat, NEW b \in Nat
  PROVE  /\ a * b \in Nat /\ c * b \in Nat
         /\ (a <= c => a * b <= c * b) /\ (a < c => a * b + b <= c * b)
OBVIOUS

(* The numbers of one bin are those between two multiples of its size. *)
LEMMA BinIsInterval ==
  ASSUME NEW x \in Nat, NEW n \in Nat, NEW b \in Nat, b > 0
  PROVE  x \div b = n <=> n * b <= x /\ x < n * b + b
<1> DEFINE q == x \div b
<1>1. q \in Nat /\ q * b <= x /\ x < q * b + b
  BY DivisionBounds
<1>2. n * b \in Nat /\ q * b \in Nat
  BY <1>1, ProductsRise
<1> HIDE DEF q
<1>3. CASE q < n
  <2>1. q * b + b <= n * b
    BY <1>1, <1>3, ProductsRise
  <2>2. QED
    BY <1>1, <1>2, <1>3, <2>1 DEF q
<1>4. CASE n < q
  <2>1. n * b + b <= q * b
    BY <1>1, <1>4, ProductsRise
  <2>2. QED
    BY <1>1, <1>2, <1>4, <2>1 DEF q
<1>5. CASE q = n
  BY <1>1, <1>5 DEF q
<1>6. QED
  BY <1>1, <1>3, <1>4, <1>5

(* The bins are as many as the numbers, not empty, and what is accepted. *)
LEMMA BinsAccepted ==
  ASSUME NEW max \in 0 .. RAND_MAX
  PROVE  /\ BinSize(max) \in Nat /\ BinSize(max) > 0
         /\ (max + 1) * BinSize(max) \in Nat /\ (max + 1) * BinSize(max) <= RAND_MAX + 1
         /\ \A x \in Nat : Accepts(max, x) <=> x < (max + 1) * BinSize(max)
<1> DEFINE r == RAND_MAX + 1
           m == max + 1
           b == r \div m
<1>1. r \in Nat /\ m \in Nat /\ m > 0 /\ m <= r
  BY GeneratorAssumption
<1> HIDE DEF r, m
<1>2. /\ b \in Nat /\ r % m \in Nat /\ b * m <= r /\ r < b * m + m
      /\ r - (r % m) = b * m
  BY <1>1, DivisionBounds
<1> HIDE DEF b
<1>3. b > 0
  <2>1. SUFFICES ASSUME b = 0 PROVE FALSE
    BY <1>2
  <2>2. b * m = 0
    BY <1>1, <2>1
  <2>3. QED
    BY <1>1, <1>2, <2>2
<1>4. b * m = m * b /\ m * b \in Nat
  BY <1>1, <1>2
<1>5. BinSize(max) = b
  BY DEF BinSize, b, r, m
<1>6. \A x \in Nat : Accepts(max, x) <=> x < r - (r % m)
  BY GeneratorAssumption DEF Accepts, r, m
<1>7. \A x \in Nat : Accepts(max, x) <=> x < m * b
  BY <1>2, <1>4, <1>6
<1>8. m = max + 1 /\ r = RAND_MAX + 1
  BY DEF m, r
<1>9. QED
  BY <1>2, <1>3, <1>4, <1>5, <1>7, <1>8

(* An accepted value gives a number up to max. *)
LEMMA AcceptedInRange ==
  ASSUME NEW max \in 0 .. RAND_MAX, NEW x \in Nat, Accepts(max, x)
  PROVE  x \div BinSize(max) \in 0 .. max
<1> DEFINE b == BinSize(max)
           m == max + 1
           q == x \div b
<1>1. b \in Nat /\ b > 0 /\ m \in Nat /\ x < m * b /\ m * b \in Nat
  BY BinsAccepted, GeneratorAssumption
<1> HIDE DEF b
<1>2. q \in Nat /\ q * b <= x /\ q * b \in Nat
  BY <1>1, DivisionBounds, ProductsRise
<1> HIDE DEF q, m
<1>3. ~(m <= q)
  <2>1. m <= q => m * b <= q * b
    BY <1>1, <1>2, ProductsRise
  <2>2. QED
    BY <1>1, <1>2, <2>1
<1>4. QED
  BY <1>1, <1>2, <1>3 DEF q, b, m

(* As many values for every number. *)
LEMMA NumbersAlike == EveryNumberAlike
<1> SUFFICES ASSUME NEW max \in 0 .. RAND_MAX, NEW n \in 0 .. RAND_MAX
             PROVE  TakenFor(max, n) = IF n <= max THEN BinSize(max) ELSE 0
  BY DEF EveryNumberAlike
<1> DEFINE b == BinSize(max)
           m == max + 1
           T == {x \in 0 .. RAND_MAX : Accepts(max, x) /\ x \div BinSize(max) = n}
<1>1. /\ b \in Nat /\ b > 0 /\ m \in Nat /\ m * b \in Nat /\ m * b <= RAND_MAX + 1
      /\ \A x \in Nat : Accepts(max, x) <=> x < m * b
  BY BinsAccepted, GeneratorAssumption
<1>2. n \in Nat /\ RAND_MAX \in Nat /\ max \in Nat
  BY GeneratorAssumption
<1>3. TakenFor(max, n) = Cardinality(T)
  BY DEF TakenFor
<1>4. CASE n <= max
  <2> DEFINE lo == n * b
             hi == lo + b - 1
  <2>1. lo \in Nat /\ lo + b <= m * b
    <3>1. n < m
      BY <1>2, <1>4
    <3> HIDE DEF b, m
    <3>2. QED
      BY <1>1, <1>2, <3>1, ProductsRise
  <2>2. \A x \in Nat : x \div b = n <=> lo <= x /\ x < lo + b
    <3> HIDE DEF b
    <3>1. QED
      BY <1>1, <1>2, BinIsInterval
  <2>3. T = lo .. hi
    <3> HIDE DEF lo, m
    <3>1. ASSUME NEW x
          PROVE  x \in T <=> x \in lo .. hi
      <4>1. CASE x \in Nat
        <5>1. x \in T <=> x <= RAND_MAX /\ x < m * b /\ lo <= x /\ x < lo + b
          BY <1>1, <1>2, <2>2, <4>1
        <5>2. x \in lo .. hi <=> lo <= x /\ x < lo + b
          BY <1>1, <2>1, <4>1
        <5> DEFINE p == m * b
        <5>3. p \in Nat /\ p <= RAND_MAX + 1 /\ lo + b <= p
          BY <1>1, <2>1
        <5>4. x \in T <=> x <= RAND_MAX /\ x < p /\ lo <= x /\ x < lo + b
          BY <5>1
        <5> HIDE DEF p, T, b, hi
        <5>5. QED
          BY <1>1, <1>2, <2>1, <4>1, <5>2, <5>3, <5>4
      <4>2. CASE x \notin Nat
        BY <1>2, <2>1, <4>2
      <4>3. QED
        BY <4>1, <4>2
    <3>2. QED
      BY <3>1
  <2> HIDE DEF b, lo, T
  <2>4. Cardinality(lo .. hi) = b
    <3>1. lo \in Int /\ hi \in Int /\ lo <= hi
      BY <1>1, <2>1
    <3>2. hi - lo + 1 = b
      BY <1>1, <2>1
    <3> HIDE DEF hi
    <3>3. Cardinality(lo .. hi) = hi - lo + 1
      BY <3>1, FS_Interval
    <3>4. QED
      BY <3>2, <3>3
  <2>5. QED
    BY <1>3, <1>4, <2>3, <2>4 DEF b
<1>5. CASE ~(n <= max)
  <2>1. ASSUME NEW x \in 0 .. RAND_MAX, Accepts(max, x)
        PROVE  x \div BinSize(max) # n
    <3>1. x \in Nat
      BY <1>2
    <3>2. x \div BinSize(max) \in 0 .. max
      BY <2>1, <3>1, AcceptedInRange
    <3>3. QED
      BY <1>2, <1>5, <3>2
  <2>2. T = {}
    BY <2>1
  <2>3. Cardinality(T) = 0
    BY <2>2, FS_EmptySet
  <2>4. QED
    BY <1>3, <1>5, <2>3
<1>6. QED
  BY <1>4, <1>5

(* A state of the generator. *)
Rng == [seed : 0 .. MaxSecond, drawn : Nat]

(* Drawing changes the position of the generator only. *)
LEMMA LaterIsRng ==
  ASSUME NEW g \in Rng, NEW n \in Nat
  PROVE  Later(g, n) \in Rng /\ Later(g, n).seed = g.seed /\ Later(g, n).drawn = g.drawn + n
BY DEF Later, Rng

(* The remainder of a multiple and something less. *)
LEMMA RemainderOf ==
  ASSUME NEW len \in Nat, NEW q \in Nat, NEW j \in Nat, j < len
  PROVE  (q * len + j) % len = j
<1> DEFINE x == q * len + j
           p == x \div len
<1>1. x \in Nat /\ len > 0
  BY ProductsRise
<1>2. p = q
  BY <1>1, BinIsInterval
<1>3. x - (x % len) = p * len /\ x % len \in Nat
  <2> HIDE DEF x
  <2>1. QED
    BY <1>1, DivisionBounds
<1> DEFINE y == q * len
<1>4. y \in Nat /\ x = y + j /\ x - (x % len) = y
  BY <1>1, <1>2, <1>3, ProductsRise
<1> DEFINE z == x % len
<1>5. z \in Nat /\ (y + j) - z = y
  BY <1>3, <1>4
<1> HIDE DEF y, z, x
<1>6. z = j
  BY <1>4, <1>5
<1>7. QED
  BY <1>6 DEF z, x

(* The values come over and over: each is at most a round away. *)
LEMMA EveryValueComes ==
  ASSUME NEW len \in Nat, len > 0, NEW d \in Nat, NEW i \in 1 .. len
  PROVE  \E n \in 0 .. len - 1 : ((d + n) % len) + 1 = i
<1> DEFINE q == d \div len
           r == d % len
           j == i - 1
           back == j < r
           n == IF back THEN j - r + len ELSE j - r
           k == IF back THEN q + 1 ELSE q
<1>1. q \in Nat /\ r \in Nat /\ d - r = q * len /\ q * len \in Nat /\ r < len
  <2>1. q \in Nat /\ r \in Nat /\ d - r = q * len /\ d < q * len + len
    BY DivisionBounds
  <2>2. q * len \in Nat
    BY <2>1, ProductsRise
  <2> DEFINE p == q * len
  <2> HIDE DEF q, r, p
  <2>3. p \in Nat /\ d - r = p /\ d < p + len
    BY <2>1, <2>2 DEF p
  <2>4. r < len
    BY <2>1, <2>3
  <2>5. QED
    BY <2>1, <2>2, <2>4
<1>2. j \in Nat /\ j < len
  OBVIOUS
<1> HIDE DEF q, r, j
<1>3. n \in 0 .. len - 1
  BY <1>1, <1>2
<1>4. k \in Nat /\ k * len = IF back THEN q * len + len ELSE q * len
  BY <1>1
<1>5. d + n = k * len + j
  BY <1>1, <1>2, <1>4
<1> HIDE DEF n, k
<1>6. (d + n) % len = j
  <2> DEFINE x == d + n
             y == k * len + j
  <2>1. y % len = j
    BY <1>2, <1>4, RemainderOf
  <2>2. x = y
    BY <1>5
  <2> HIDE DEF x, y
  <2>3. x % len = j
    BY <2>1, <2>2
  <2>4. QED
    BY <2>3 DEF x
<1>7. ((d + n) % len) + 1 = i
  <2>1. j + 1 = i
    BY DEF j
  <2>2. QED
    BY <1>6, <2>1, Zenon
<1>8. QED
  BY <1>3, <1>7, Zenon

(* random() gives one of its values. *)
LEMMA RandomIsValue ==
  ASSUME NEW g \in Rng
  PROVE  random(g) \in Nat /\ random(g) \in 0 .. RAND_MAX
<1> DEFINE len == Len(Values[g.seed])
           i == (g.drawn % len) + 1
<1>1. g.seed \in 0 .. MaxSecond /\ g.drawn \in Nat
  BY DEF Rng
<1>2. Values[g.seed] \in Seq(0 .. RAND_MAX) /\ DOMAIN Values[g.seed] # {} /\ RAND_MAX \in Nat
  BY <1>1, GeneratorAssumption
<1>3. len \in Nat /\ len > 0 /\ DOMAIN Values[g.seed] = 1 .. len
  BY <1>2
<1> DEFINE d == g.drawn
<1>4. i \in 1 .. len
  <2>1. d \in Nat
    BY <1>1
  <2> HIDE DEF len, d
  <2>2. d % len \in 0 .. len - 1
    BY <1>3, <2>1
  <2>3. QED
    BY <1>3, <2>2 DEF d
<1> HIDE DEF i, len
<1>5. Values[g.seed][i] \in 0 .. RAND_MAX
  BY <1>2, <1>3, <1>4
<1>6. random(g) = Values[g.seed][i]
  BY DEF random, i, len
<1>7. QED
  BY <1>2, <1>5, <1>6

(* The loop of random_at_most comes to a value it takes. *)
LEMMA ValueIsAccepted ==
  ASSUME NEW g \in Rng, NEW n, n = DrawnInVain(IdChars - 1, g)
  PROVE  n \in Nat /\ Accepts(IdChars - 1, random(Later(g, n)))
<1> DEFINE len == Len(Values[g.seed])
           P(k) == Accepts(IdChars - 1, random(Later(g, k)))
           T == {k \in 0 .. len - 1 : P(k)}
           First(k) == k \in 0 .. len - 1 /\ P(k) /\ \A m \in 0 .. k - 1 : ~P(m)
<1>1. g.seed \in 0 .. MaxSecond /\ g.drawn \in Nat
  BY DEF Rng
<1>2. PICK i \in DOMAIN Values[g.seed] : Accepts(IdChars - 1, Values[g.seed][i])
  BY <1>1, GeneratorAssumption
<1>3. Values[g.seed] \in Seq(0 .. RAND_MAX)
  BY <1>1, GeneratorAssumption
<1>4. len \in Nat /\ len > 0 /\ i \in 1 .. len
  BY <1>2, <1>3
<1>5. T # {}
  <2> DEFINE d == g.drawn
  <2>1. d \in Nat
    BY <1>1
  <2>2. \E k \in 0 .. len - 1 : ((d + k) % len) + 1 = i
    <3> HIDE DEF len, d
    <3>1. QED
      BY <1>4, <2>1, EveryValueComes
  <2>3. PICK k \in 0 .. len - 1 : ((d + k) % len) + 1 = i
    BY <2>2
  <2>4. k \in Nat
    BY <1>4
  <2>5. Later(g, k).seed = g.seed /\ Later(g, k).drawn = d + k
    BY <2>4, LaterIsRng
  <2>6. random(Later(g, k)) = Values[g.seed][i]
    BY <2>3, <2>5 DEF random
  <2> HIDE DEF len
  <2>7. QED
    BY <1>2, <2>6
<1>6. \E k : First(k)
  <2>1. T \in SUBSET Nat
    <3> HIDE DEF P, len
    <3>1. QED
      BY <1>4
  <2> HIDE DEF T
  <2>2. PICK k \in T : \A m \in T : k <= m
    BY <1>5, <2>1, LeastNatural
  <2>3. k \in 0 .. len - 1 /\ P(k)
    BY <2>2 DEF T
  <2> HIDE DEF P, len
  <2>4. ASSUME NEW m \in 0 .. k - 1
        PROVE  ~P(m)
    <3>1. m \in 0 .. len - 1 /\ m < k
      BY <1>4, <2>3
    <3>2. m \in T => k <= m
      BY <2>2
    <3>3. m \in Nat /\ k \in Nat
      BY <1>4, <2>3
    <3>4. QED
      BY <3>1, <3>2, <3>3 DEF T
  <2>5. QED
    BY <2>3, <2>4
<1>7. n = CHOOSE k \in 0 .. len - 1 : P(k) /\ \A m \in 0 .. k - 1 : ~P(m)
  BY DEF DrawnInVain
<1>8. First(n)
  <2>1. \E k \in 0 .. len - 1 : P(k) /\ \A m \in 0 .. k - 1 : ~P(m)
    BY <1>6
  <2> HIDE DEF P, len
  <2>2. QED
    BY <1>7, <2>1, Zenon
<1>9. n \in Nat
  <2> HIDE DEF len, P
  <2>1. QED
    BY <1>4, <1>8
<1>10. QED
  BY <1>8, <1>9

(* random_at_most returns a number in the closed interval [0, max]. *)
LEMMA RandomIsAtMost ==
  ASSUME NEW g \in Rng, NEW r, r = random_at_most(IdChars - 1, g)
  PROVE  r.number \in 0 .. IdChars - 1 /\ r.rng \in Rng
<1> DEFINE max == IdChars - 1
           n == DrawnInVain(max, g)
           last == Later(g, n)
<1>1. max \in 0 .. RAND_MAX
  BY GeneratorAssumption
<1>2. n \in Nat /\ Accepts(max, random(last))
  BY ValueIsAccepted
<1>3. last \in Rng
  BY <1>2, LaterIsRng
<1>4. random(last) \in Nat
  BY <1>3, RandomIsValue
<1>5. random(last) \div BinSize(max) \in 0 .. max
  BY <1>1, <1>2, <1>4, AcceptedInRange
<1>6. Later(last, 1) \in Rng
  BY <1>3, LaterIsRng
<1>7. r.number = random(last) \div BinSize(max) /\ r.rng = Later(last, 1)
  BY DEF random_at_most
<1>8. QED
  BY <1>5, <1>6, <1>7

(* One character more. *)
OneMore(before) ==
  LET r == random_at_most(IdChars - 1, before.rng)
  IN  [id |-> Append(before.id, r.number), rng |-> r.rng]

Draft == [id : Seq(0 .. IdChars - 1), rng : Rng]

(* A turn of generate_id adds an allowed character. *)
LEMMA OneMoreIsDraft ==
  ASSUME NEW s \in Draft
  PROVE  OneMore(s) \in Draft /\ Len(OneMore(s).id) = Len(s.id) + 1
<1> DEFINE r == random_at_most(IdChars - 1, s.rng)
           t == Append(s.id, r.number)
<1>1. r.number \in 0 .. IdChars - 1 /\ r.rng \in Rng
  BY RandomIsAtMost DEF Draft
<1>2. s.id \in Seq(0 .. IdChars - 1)
  BY DEF Draft
<1> HIDE DEF r
<1>3. t \in Seq(0 .. IdChars - 1) /\ Len(t) = Len(s.id) + 1
  BY <1>1, <1>2
<1> HIDE DEF t
<1>4. OneMore(s) = [id |-> t, rng |-> r.rng]
  BY DEF OneMore, t, r
<1>5. QED
  BY <1>1, <1>3, <1>4 DEF Draft

Blank(g) == [id |-> <<>>, rng |-> g]

Made(g, f) ==
  f = [i \in 0 .. IdLength |->
         IF i = 0 THEN [id |-> <<>>, rng |-> g]
         ELSE LET before == f[i - 1]
                  r == random_at_most(IdChars - 1, before.rng)
              IN  [id |-> Append(before.id, r.number), rng |-> r.rng]]

(* The ids in the making. *)
LEMMA MadeExists ==
  ASSUME NEW g \in Rng
  PROVE  \E f : Made(g, f)
<1> DEFINE N == IdLength
           step == [k \in 1 .. N |-> [s \in Draft |-> OneMore(s)]]
           start == Blank(g)
<1>1. N \in Nat
  BY GeneratorAssumption
<1>2. start \in Draft
  BY DEF Blank, Draft
<1>3. step \in [1 .. N -> [Draft -> Draft]]
  <2>1. [s \in Draft |-> OneMore(s)] \in [Draft -> Draft]
    BY OneMoreIsDraft
  <2>2. QED
    BY <2>1
<1>4. \A k \in 1 .. N : \A s \in Draft : step[k][s] = OneMore(s)
  OBVIOUS
<1> HIDE DEF step, start, N
<1>5. PICK f : Follows(Draft, N, start, step, f)
  BY <1>1, <1>2, <1>3, RecursionExists
<1>6. f \in [0 .. N -> Draft] /\ f[0] = start /\ \A k \in 1 .. N : f[k] = step[k][f[k - 1]]
  BY <1>5 DEF Follows
<1>7. \A k \in 1 .. N : f[k] = OneMore(f[k - 1])
  <2>1. \A k \in 1 .. N : k - 1 \in 0 .. N
    BY <1>1
  <2>2. QED
    BY <1>4, <1>6, <2>1
<1> DEFINE made == [i \in 0 .. N |-> IF i = 0 THEN Blank(g) ELSE OneMore(f[i - 1])]
<1>8. f = made
  <2>1. \A i \in 0 .. N : f[i] = made[i]
    BY <1>1, <1>6, <1>7 DEF start
  <2>2. QED
    BY <1>6, <2>1
<1>9. QED
  BY <1>8, Zenon DEF Made, Blank, OneMore, N

(* generate_id returns ID_LENGTH characters, all of them allowed. *)
LEMMA IdIsGenerated ==
  ASSUME NEW g \in Rng, NEW new, new = generate_id(g)
  PROVE  new.id \in AllIds /\ new.rng \in Rng
<1> DEFINE f == CHOOSE f : Made(g, f)
           N == IdLength
<1>1. Made(g, f)
  BY MadeExists, Zenon
<1>2. new = f[IdLength]
  BY DEF generate_id, Made
<1> HIDE DEF f
<1>3. N \in Nat
  BY GeneratorAssumption
<1>4. f = [i \in 0 .. N |-> IF i = 0 THEN Blank(g) ELSE OneMore(f[i - 1])]
  BY <1>1, Zenon DEF Made, Blank, OneMore, N
<1> DEFINE made == [i \in 0 .. N |-> IF i = 0 THEN Blank(g) ELSE OneMore(f[i - 1])]
<1>5. \A i \in 0 .. N : made[i] = IF i = 0 THEN Blank(g) ELSE OneMore(f[i - 1])
  OBVIOUS
<1> HIDE DEF made, N
<1>6. f = made
  BY <1>4 DEF made
<1> DEFINE Good(s, i) == s \in Draft /\ Len(s.id) = i
           S == {i \in Nat : i <= N => Good(f[i], i)}
<1>7. 0 \in S
  <2>1. f[0] = Blank(g)
    BY <1>3, <1>5, <1>6
  <2>2. Good(Blank(g), 0)
    BY DEF Blank, Draft
  <2> HIDE DEF Good
  <2>3. QED
    BY <2>1, <2>2
<1>8. ASSUME NEW i \in Nat, i \in S
      PROVE  i + 1 \in S
  <2>1. SUFFICES ASSUME i + 1 <= N
                 PROVE  Good(f[i + 1], i + 1)
    OBVIOUS
  <2>2. i + 1 \in 0 .. N /\ i + 1 # 0 /\ (i + 1) - 1 = i
    BY <1>3, <2>1
  <2>3. f[i + 1] = OneMore(f[i])
    BY <1>5, <1>6, <2>2
  <2>4. Good(f[i], i)
    BY <1>3, <1>8, <2>1
  <2> DEFINE s == f[i]
  <2>5. s \in Draft /\ Len(s.id) = i
    BY <2>4
  <2> HIDE DEF s
  <2>6. OneMore(s) \in Draft /\ Len(OneMore(s).id) = i + 1
    BY <2>5, OneMoreIsDraft
  <2>7. QED
    BY <2>3, <2>6 DEF s
<1>9. Nat \subseteq S
  <2> HIDE DEF S
  <2>1. QED
    BY <1>7, <1>8, SetInduction
<1>10. Good(f[N], N)
  <2> HIDE DEF Good
  <2>1. QED
    BY <1>3, <1>9
<1>11. new = f[N]
  BY <1>2 DEF N
<1>12. new \in Draft /\ Len(new.id) = N
  BY <1>10, <1>11
<1>13. new.id \in Seq(0 .. IdChars - 1) /\ new.rng \in Rng
  BY <1>12 DEF Draft
<1>14. new.id \in [1 .. N -> 0 .. IdChars - 1]
  <2> DEFINE t == new.id
             X == 0 .. IdChars - 1
  <2>1. t \in Seq(X) /\ Len(t) = N
    BY <1>12, <1>13
  <2> HIDE DEF t, X
  <2>2. t \in [1 .. N -> X]
    BY <2>1
  <2>3. QED
    BY <2>2 DEF t, X
<1>15. QED
  BY <1>13, <1>14 DEF AllIds, N

IdInv ==
  /\ second \in 0 .. MaxSecond
  /\ rng \in Rng
  /\ call # NoCall =>
       /\ call = [dehydrator |-> call.dehydrator, id |-> call.id]
       /\ call.id \in AllIds \cup {NoId}

(* The initial states. *)
LEMMA IdInitInv == IdInit => IdInv
BY GeneratorAssumption DEF IdInit, IdInv, Rng

(* Every step keeps the generator's state and the id of the call in their  *)
(* ranges.                                                                 *)
LEMMA IdStepInv == IdInv /\ [IdNext]_ids => IdInv'
<1> SUFFICES ASSUME IdInv, [IdNext]_ids
             PROVE  IdInv'
  OBVIOUS
<1>1. CASE UNCHANGED ids
  BY <1>1 DEF IdInv, ids
<1>2. ASSUME NEW d \in Dehydrators, GIDPushCommand(d)
      PROVE  IdInv'
  <2>1. rng' = [seed |-> second, drawn |-> 0] /\ call' = [dehydrator |-> d, id |-> NoId] /\ second' = second
    BY <1>2 DEF GIDPushCommand
  <2>2. rng' \in Rng
    BY <2>1 DEF IdInv, Rng
  <2>3. call'.id = NoId /\ call'.dehydrator = d
    BY <2>1
  <2>4. QED
    BY <2>1, <2>2, <2>3 DEF IdInv
<1>3. ASSUME NEW d \in Dehydrators, NEW id \in held[d], TakeOut(d, id)
      PROVE  IdInv'
  BY <1>3 DEF IdInv, TakeOut
<1>4. CASE Draw
  <2> DEFINE new == generate_id(rng)
  <2>1. new.id \in AllIds /\ new.rng \in Rng
    BY IdIsGenerated DEF IdInv
  <2>2. call # NoCall /\ call' = [call EXCEPT !.id = new.id] /\ rng' = new.rng /\ second' = second
    BY <1>4 DEF Draw
  <2> DEFINE c == call.dehydrator
             i == call.id
             j == new.id
  <2>3. call = [dehydrator |-> c, id |-> i]
    BY <2>2 DEF IdInv
  <2> HIDE DEF new, c, i, j
  <2>4. call' = [dehydrator |-> c, id |-> j]
    BY <2>2, <2>3 DEF j
  <2>5. call'.dehydrator = c /\ call'.id = j /\ j \in AllIds
    BY <2>1, <2>4 DEF j
  <2>6. QED
    BY <2>1, <2>2, <2>4, <2>5 DEF IdInv
<1>5. CASE AnswerId
  BY <1>5 DEF IdInv, AnswerId
<1>6. CASE NextSecond
  <2>1. second' \in 0 .. MaxSecond
    BY <1>6, GeneratorAssumption DEF IdInv, NextSecond
  <2>2. QED
    BY <1>6, <2>1 DEF IdInv, NextSecond
<1>7. QED
  BY <1>1, <1>2, <1>3, <1>4, <1>5, <1>6 DEF IdNext

(* random_at_most stays in [0, max] and takes as many values of random()   *)
(* for each number of it, so the ids GIDPUSH gives are of ID_LENGTH        *)
(* allowed characters, none more likely (module.c:55-87).                  *)
THEOREM IdsAreOfTheAlphabet == IdSpec => []IdsOfTheAlphabet
<1>1. IdInv => IdsOfTheAlphabet
  BY NumbersAlike DEF IdInv, IdsOfTheAlphabet
<1>2. QED
  BY <1>1, IdInitInv, IdStepInv, PTL DEF IdSpec

=============================================================================
