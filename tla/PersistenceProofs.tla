------------------------- MODULE PersistenceProofs -------------------------
(***************************************************************************)
(* A dehydrator that is loaded is the one that was saved: what the stream  *)
(* of DehydratorTypeRdbSave holds, that DehydratorTypeRdbLoad reads that,  *)
(* and that what it builds has the structure every command relies on.      *)
(***************************************************************************)
EXTENDS Persistence, DehydratorProofs

----------------------------------------------------------------------------
(* Numbers in the stream. *)

(* Division leaves one remainder.                                          *)
LEMMA RemainderIs ==
  ASSUME NEW n \in Nat, n > 0, NEW a \in Int, NEW q \in Int, NEW r \in 0 .. n - 1,
         a = n * q + r
  PROVE  a % n = r
<1> DEFINE p == a \div n
           s == a % n
<1>1. a = n * p + s /\ s \in 0 .. n - 1 /\ p \in Int
  OBVIOUS
<1> HIDE DEF p, s
<1> DEFINE d == q - p
<1>2. d \in Int /\ n * d = s - r
  BY <1>1
<1>3. ~(d >= 1)
  <2>1. d >= 1 => n * d >= n
    BY <1>2
  <2>2. s - r < n
    BY <1>1
  <2>3. QED
    BY <1>1, <1>2, <2>1, <2>2
<1>4. ~(d <= -1)
  <2>1. d <= -1 => n * d <= -n
    BY <1>2
  <2>2. s - r > -n
    BY <1>1
  <2>3. QED
    BY <1>1, <1>2, <2>1, <2>2
<1>5. d = 0
  BY <1>2, <1>3, <1>4
<1>6. n * d = 0
  BY <1>5
<1>7. s = r
  BY <1>1, <1>2, <1>6
<1>8. QED
  BY <1>7 DEF s

Longs == {ToLong(n) : n \in Int}

(* A long long survives SaveUnsigned and LoadUnsigned, negative or not.    *)
LEMMA DeadlineSurvives ==
  ASSUME NEW e \in Longs
  PROVE  e \in Int /\ Unsigned(e) \in Int /\ ToLong(Unsigned(e)) = e
<1> DEFINE L == LongMod
           h == LongMod \div 2
           u == e % L
           q == e \div L
<1>1. L \in Nat /\ L > 0 /\ h \in Int
  BY WidthAssumption
<1>2. PICK n \in Int : e = ((n + h) % L) - h
  BY DEF Longs, ToLong
<1>3. (n + h) % L \in 0 .. L - 1
  BY <1>1
<1>4. e \in Int /\ e + h \in 0 .. L - 1
  BY <1>1, <1>2, <1>3
<1>5. u \in Int /\ q \in Int /\ e = L * q + u
  BY <1>1, <1>4
<1>6. Unsigned(e) = u /\ ToLong(u) = ((u + h) % L) - h
  BY DEF Unsigned, ToLong
<1> HIDE DEF L, h, u, q
<1>7. u + h = L * (-q) + (e + h)
  <2>1. L * (-q) = -(L * q)
    BY <1>1, <1>5
  <2>2. QED
    BY <1>1, <1>4, <1>5, <2>1
<1>8. (u + h) % L = e + h
  <2>1. u + h \in Int /\ -q \in Int
    BY <1>1, <1>5
  <2>2. QED
    BY <1>1, <1>4, <1>7, <2>1, RemainderIs
<1>9. QED
  BY <1>1, <1>4, <1>5, <1>6, <1>8

(* The key of a queue survives the int it is kept in and the 64 bits it is *)
(* written in.                                                             *)
LEMMA KeySurvives ==
  ASSUME NEW t \in 0 .. IntMod - 1
  PROVE  Unsigned(ToInt(t)) \in Int /\ ToUint(Unsigned(ToInt(t))) = t
<1> DEFINE M == IntMod
           L == LongMod
           h == IntMod \div 2
           s == (t + h) % M
           p == (t + h) \div M
           x == s - h
           u == x % L
           q == x \div L
           k == L \div M
<1>1. M \in Nat /\ M > 0 /\ L \in Nat /\ L > 0 /\ h \in Int
  BY WidthAssumption
<1>2. t + h = M * p + s /\ s \in Int /\ p \in Int /\ x \in Int
  BY <1>1
<1>3. L = M * k /\ k \in Int
  BY <1>1, WidthsNest
<1>4. x = L * q + u /\ u \in Int /\ q \in Int
  BY <1>1, <1>2
<1>5. ToInt(t) = x /\ Unsigned(x) = u /\ ToUint(u) = u % M
  BY DEF ToInt, Unsigned, ToUint
<1> DEFINE c == p + k * q
<1>6. c \in Int /\ M * c = M * p + L * q
  <2>1. k * q \in Int /\ M * (k * q) = (M * k) * q
    BY <1>1, <1>3, <1>4
  <2>2. M * (p + k * q) = M * p + M * (k * q)
    BY <1>1, <1>2, <2>1
  <2>3. QED
    BY <1>2, <1>3, <2>1, <2>2
<1>7. x = s - h
  OBVIOUS
<1> HIDE DEF M, L, h, s, p, x, u, q, k, c
<1>8. u = M * (-c) + t
  <2>1. M * (-c) = -(M * c)
    BY <1>1, <1>6
  <2>2. M * c \in Int /\ M * p \in Int /\ L * q \in Int
    BY <1>1, <1>2, <1>4, <1>6
  <2>3. QED
    BY <1>1, <1>2, <1>4, <1>6, <1>7, <2>1, <2>2
<1>9. u % M = t
  <2>1. -c \in Int /\ t \in 0 .. M - 1
    BY <1>6 DEF M
  <2>2. QED
    BY <1>1, <1>4, <1>8, <2>1, RemainderIs
<1>10. QED
  BY <1>4, <1>5, <1>9

----------------------------------------------------------------------------
(* The stream of a dehydrator. *)

(* Every deadline is a long long. *)
LongDeadlines == \A a \in DOMAIN nodes : nodes[a].expiration \in Longs

Item == Int \cup Id \cup Element

(* Three items in a row.                                                   *)
LEMMA NodeItems ==
  ASSUME Structure, LongDeadlines, NEW a \in DOMAIN nodes, NEW r, r = SaveNode(a)
  PROVE  /\ r \in Seq(Item) /\ Len(r) = 3
         /\ r[1] = Unsigned(nodes[a].expiration)
         /\ r[2] = nodes[a].element_id /\ r[3] = nodes[a].element
<1>1. nodes[a].expiration \in Longs /\ nodes[a].element_id \in Id /\ nodes[a].element \in Element
  BY DEF LongDeadlines, Structure, TypeOK, Node
<1>2. Unsigned(nodes[a].expiration) \in Int
  BY <1>1, DeadlineSurvives
<1> DEFINE x == Unsigned(nodes[a].expiration)
           y == nodes[a].element_id
           z == nodes[a].element
<1>3. x \in Item /\ y \in Item /\ z \in Item /\ r = <<x, y, z>>
  BY <1>1, <1>2 DEF Item, SaveNode
<1> HIDE DEF x, y, z
<1>4. r \in Seq(Item) /\ Len(r) = 3 /\ r[1] = x /\ r[2] = y /\ r[3] = z
  BY <1>3
<1>5. QED
  BY <1>4 DEF x, y, z

(* A queue q with key t in the stream: its key, its length, and its nodes  *)
(* in order.                                                               *)
QueueWritten(t, q, r) ==
  /\ r \in Seq(Item) /\ Len(q) \in Nat /\ Len(r) = 2 + 3 * Len(q)
  /\ r[1] = Unsigned(ToInt(t)) /\ r[2] = Len(q)
  /\ \A i \in 1 .. Len(q) :
       /\ r[3 * i] = Unsigned(nodes[q[i]].expiration)
       /\ r[3 * i + 1] = nodes[q[i]].element_id
       /\ r[3 * i + 2] = nodes[q[i]].element

(* This is how DehydratorTypeRdbSave writes each queue.                    *)
LEMMA QueueItems ==
  ASSUME Structure, LongDeadlines, NEW t \in DOMAIN timeout_queues,
         NEW q, q = timeout_queues[t], NEW r, r = SaveQueue(t)
  PROVE  QueueWritten(t, q, r)
<1> DEFINE n == Len(q)
           seqs == [i \in DOMAIN q |-> SaveNode(q[i])]
           f == FlattenSeq(seqs)
           off == Offset(seqs)
           head == <<Unsigned(ToInt(t)), Len(q)>>
<1>1. q \in Seq(Addr) /\ n \in Nat /\ DOMAIN q = 1 .. n /\ t \in 0 .. IntMod - 1
  BY DEF Structure, TypeOK
<1>2. ASSUME NEW i \in 1 .. n
      PROVE  /\ seqs[i] \in Seq(Item) /\ Len(seqs[i]) = 3
             /\ seqs[i][1] = Unsigned(nodes[q[i]].expiration)
             /\ seqs[i][2] = nodes[q[i]].element_id /\ seqs[i][3] = nodes[q[i]].element
  <2>1. seqs[i] = SaveNode(q[i])
    BY <1>1
  <2>2. q[i] \in DOMAIN nodes
    BY <1>1 DEF Structure, MapsAgree, QueuesHoldNodes
  <2> HIDE DEF seqs
  <2>3. QED
    BY <2>1, <2>2, NodeItems
<1>3. DOMAIN seqs = 1 .. n
  BY <1>1
<1>4. seqs \in Seq(Seq(Item)) /\ Len(seqs) = n
  <2>1. seqs = [i \in 1 .. n |-> seqs[i]]
    BY <1>1
  <2> HIDE DEF seqs, n
  <2>2. seqs \in [1 .. n -> Seq(Item)]
    BY <1>2, <2>1
  <2>3. QED
    BY <1>1, <2>2
<1>5. r = head \o f
  BY DEF SaveQueue
<1>6. head \in Seq(Item) /\ Len(head) = 2 /\ head[1] = Unsigned(ToInt(t)) /\ head[2] = n
  <2>1. Unsigned(ToInt(t)) \in Item /\ n \in Item
    BY <1>1, KeySurvives DEF Item
  <2>2. QED
    BY <2>1
<1> HIDE DEF seqs, f, off, head, n
<1>7. /\ off[1] = 0
      /\ \A k \in 1 .. n : off[k + 1] = off[k] + Len(seqs[k])
      /\ f \in Seq(Item) /\ Len(f) = off[n + 1]
      /\ \A k \in 1 .. n : \A j \in 1 .. Len(seqs[k]) :
           off[k] + j \in 1 .. Len(f) /\ f[off[k] + j] = seqs[k][j]
  <2>1. f = FlattenSeq(seqs) /\ off = Offset(seqs)
    BY DEF f, off
  <2>2. f \in Seq(Item) /\ Laid(seqs, n, off, f)
    BY <1>4, <2>1, FlattenOffsets
  <2>3. QED
    BY <2>2 DEF Laid
<1>8. \A k \in 1 .. n + 1 : off[k] = 3 * (k - 1)
  <2>1. \A k \in 1 .. n : off[k + 1] = off[k] + 3
    BY <1>2, <1>7
  <2>2. QED
    BY <1>1, <1>7, <2>1, EvenOffsets
<1>9. Len(f) = 3 * n
  <2>1. n + 1 \in 1 .. n + 1 /\ 3 * ((n + 1) - 1) = 3 * n
    BY <1>1
  <2>2. QED
    BY <1>7, <1>8, <2>1
<1>10. /\ r \in Seq(Item) /\ Len(r) = 2 + Len(f)
       /\ r[1] = head[1] /\ r[2] = head[2]
       /\ \A j \in 1 .. Len(f) : r[2 + j] = f[j]
  <2>1. /\ r \in Seq(Item) /\ Len(r) = Len(head) + Len(f)
        /\ \A i \in 1 .. Len(head) : r[i] = head[i]
        /\ \A j \in 1 .. Len(f) : r[Len(head) + j] = f[j]
    <3>1. head \in Seq(Item) /\ f \in Seq(Item)
      BY <1>6, <1>7
    <3>2. QED
      BY <1>5, <3>1, ConcatPositions
  <2>2. QED
    BY <1>6, <2>1
<1>11. ASSUME NEW i \in 1 .. n
       PROVE  /\ r[3 * i] = Unsigned(nodes[q[i]].expiration)
              /\ r[3 * i + 1] = nodes[q[i]].element_id
              /\ r[3 * i + 2] = nodes[q[i]].element
  <2>1. off[i] = 3 * (i - 1) /\ i \in Int
    BY <1>1, <1>8
  <2>2. \A j \in 1 .. 3 : off[i] + j \in 1 .. Len(f) /\ f[off[i] + j] = seqs[i][j]
    BY <1>2, <1>7
  <2>3. ASSUME NEW j \in 1 .. 3
        PROVE  r[3 * i + (j - 1)] = seqs[i][j]
    <3>1. 2 + (off[i] + j) = 3 * i + (j - 1)
      BY <2>1
    <3>2. r[2 + (off[i] + j)] = f[off[i] + j]
      BY <1>10, <2>2
    <3>3. QED
      BY <2>2, <3>1, <3>2
  <2>4. /\ 1 \in 1 .. 3 /\ 3 * i + (1 - 1) = 3 * i
        /\ 2 \in 1 .. 3 /\ 3 * i + (2 - 1) = 3 * i + 1
        /\ 3 \in 1 .. 3 /\ 3 * i + (3 - 1) = 3 * i + 2
    BY <2>1
  <2>5. r[3 * i] = seqs[i][1] /\ r[3 * i + 1] = seqs[i][2] /\ r[3 * i + 2] = seqs[i][3]
    BY <2>3, <2>4
  <2>6. QED
    BY <1>2, <2>5
<1>12. QED
  BY <1>1, <1>6, <1>9, <1>10, <1>11 DEF n, QueueWritten

(* The loop of DehydratorTypeRdbLoad over the queues, by its turns. *)
StartStep(stream, f) ==
  [k \in 1 .. stream[1] + 1 |->
     IF k = 1 THEN 2 ELSE f[k - 1] + 2 + NodeWidth * stream[f[k - 1] + 1]]

(* The loop finds the queues where the save has put them.                  *)
LEMMA StartsFound ==
  ASSUME NEW stream, NEW n \in Nat, stream[1] = n, NEW off, off[1] = 0,
         \A k \in 1 .. n + 1 : off[k] \in Nat,
         \A k \in 1 .. n : /\ stream[off[k] + 3] \in Nat
                            /\ off[k + 1] = off[k] + 2 + 3 * stream[off[k] + 3],
         NEW start, start = QueueStart(stream)
  PROVE  \A k \in 1 .. n + 1 : start[k] = off[k] + 2
<1> DEFINE g == [k \in 1 .. n + 1 |-> off[k] + 2]
           S == {m \in Nat : m <= n => start[m + 1] = off[m + 1] + 2}
<1>1. start = CHOOSE f : f = StartStep(stream, f)
  BY Zenon DEF QueueStart, StartStep
<1>2. g = StartStep(stream, g)
  <2>1. ASSUME NEW k \in 1 .. n + 1
        PROVE  g[k] = IF k = 1 THEN 2 ELSE g[k - 1] + 2 + 3 * stream[g[k - 1] + 1]
    <3>1. CASE k = 1
      BY <3>1
    <3>2. CASE k # 1
      <4>1. k - 1 \in 1 .. n /\ k - 1 \in 1 .. n + 1 /\ (k - 1) + 1 = k
        BY <3>2
      <4>2. off[k] = off[k - 1] + 2 + 3 * stream[off[k - 1] + 3] /\ off[k - 1] \in Nat /\ off[k] \in Nat
        BY <4>1
      <4>3. g[k] = off[k] + 2 /\ g[k - 1] = off[k - 1] + 2 /\ (off[k - 1] + 2) + 1 = off[k - 1] + 3
        BY <4>1, <4>2
      <4> HIDE DEF g
      <4>4. g[k - 1] + 1 = off[k - 1] + 3
        BY <4>3
      <4> DEFINE w == 3 * stream[off[k - 1] + 3]
      <4>5. 3 * stream[g[k - 1] + 1] = w
        BY <4>4
      <4>6. off[k] = off[k - 1] + 2 + w /\ w \in Int
        BY <4>1, <4>2
      <4> HIDE DEF w
      <4>7. g[k] = g[k - 1] + 2 + w
        BY <4>2, <4>3, <4>6
      <4>8. QED
        BY <3>2, <4>5, <4>7
    <3>3. QED
      BY <3>1, <3>2
  <2>2. g = [k \in 1 .. n + 1 |-> g[k]]
    OBVIOUS
  <2> HIDE DEF g
  <2>3. g = [k \in 1 .. n + 1 |-> IF k = 1 THEN 2 ELSE g[k - 1] + 2 + 3 * stream[g[k - 1] + 1]]
    BY <2>1, <2>2
  <2>4. QED
    BY <2>3, Zenon DEF StartStep, NodeWidth
<1>3. start = StartStep(stream, start)
  BY <1>1, <1>2, Zenon
<1>4. \A k \in 1 .. n + 1 :
        start[k] = IF k = 1 THEN 2 ELSE start[k - 1] + 2 + 3 * stream[start[k - 1] + 1]
  <2>1. start = [k \in 1 .. n + 1 |-> IF k = 1 THEN 2 ELSE start[k - 1] + 2 + 3 * stream[start[k - 1] + 1]]
    BY <1>3, Zenon DEF StartStep, NodeWidth
  <2>2. QED
    BY <2>1
<1> HIDE DEF g
<1>5. 0 \in S
  BY <1>4
<1>6. ASSUME NEW m \in Nat, m \in S
      PROVE  m + 1 \in S
  <2>1. SUFFICES ASSUME m + 1 <= n
                 PROVE  start[(m + 1) + 1] = off[(m + 1) + 1] + 2
    OBVIOUS
  <2>2. m + 1 \in 1 .. n /\ (m + 1) + 1 \in 1 .. n + 1 /\ (m + 1) + 1 # 1 /\ ((m + 1) + 1) - 1 = m + 1
    BY <2>1
  <2>3. start[m + 1] = off[m + 1] + 2 /\ off[m + 1] \in Nat /\ off[(m + 1) + 1] \in Nat
    BY <1>6, <2>1, <2>2
  <2>4. start[m + 1] + 1 = off[m + 1] + 3
    BY <2>3
  <2> DEFINE w == 3 * stream[off[m + 1] + 3]
  <2>5. off[(m + 1) + 1] = off[m + 1] + 2 + w /\ w \in Int
    BY <2>2
  <2>6. start[(m + 1) + 1] = start[m + 1] + 2 + w
    BY <1>4, <2>2, <2>4
  <2> HIDE DEF w
  <2>7. QED
    BY <2>3, <2>5, <2>6
<1>7. Nat \subseteq S
  <2> HIDE DEF S
  <2>1. QED
    BY <1>5, <1>6, SetInduction
<1>8. ASSUME NEW k \in 1 .. n + 1
      PROVE  start[k] = off[k] + 2
  <2>1. k - 1 \in Nat /\ k - 1 <= n /\ (k - 1) + 1 = k
    OBVIOUS
  <2>2. k - 1 \in S
    BY <1>7, <2>1
  <2>3. QED
    BY <2>1, <2>2
<1>9. QED
  BY <1>8

(* A loop over the buckets meets every queue once.                         *)
LEMMA OrderIsFull ==
  ASSUME Structure, NEW order \in SetToSeqs(DOMAIN timeout_queues)
  PROVE  /\ order \in Seq(DOMAIN timeout_queues) /\ IsInjective(order)
         /\ Range(order) = DOMAIN timeout_queues
<1>1. DOMAIN timeout_queues \subseteq 0 .. IntMod - 1
  BY DEF Structure, TypeOK
<1>2. IntMod - 1 \in Int /\ 0 \in Int
  BY WidthAssumption
<1>3. IsFiniteSet(0 .. IntMod - 1)
  BY <1>2, FS_Interval, Zenon
<1>4. IsFiniteSet(DOMAIN timeout_queues)
  BY <1>1, <1>3, FS_Subset
<1>5. QED
  BY <1>4, ArrangementIsFull

QueueLen(stream, k) == stream[QueueStart(stream)[k] + 1]

(* What a load reads from a stream is what the save has met. *)
Reads(stream, order) ==
  /\ stream[1] = Len(order)
  /\ \A k \in 1 .. Len(order) :
       /\ QueueLen(stream, k) = Len(timeout_queues[order[k]])
       /\ LoadKey(stream, k) = order[k]
       /\ \A i \in 1 .. Len(timeout_queues[order[k]]) :
            LoadNode(stream, <<k, i>>) = nodes[timeout_queues[order[k]][i]]

(* Whatever the order of the buckets, DehydratorTypeRdbLoad reads every    *)
(* queue and node that DehydratorTypeRdbSave wrote, and no other.          *)
LEMMA StreamReads ==
  ASSUME Structure, LongDeadlines, NEW order \in SetToSeqs(DOMAIN timeout_queues),
         NEW st, st = SaveStream(order)
  PROVE  Reads(st, order)
<1> DEFINE n == Len(order)
           seqs == [k \in DOMAIN order |-> SaveQueue(order[k])]
           f == FlattenSeq(seqs)
           off == Offset(seqs)
           head == <<Len(order)>>
           start == QueueStart(st)
           q(k) == timeout_queues[order[k]]
<1>1. n \in Nat /\ DOMAIN order = 1 .. n /\ \A k \in 1 .. n : order[k] \in DOMAIN timeout_queues
  <2>1. order \in Seq(DOMAIN timeout_queues)
    BY OrderIsFull
  <2>2. QED
    BY <2>1
<1>2. ASSUME NEW k \in 1 .. n
      PROVE  /\ seqs[k] = SaveQueue(order[k])
             /\ seqs[k] \in Seq(Item) /\ Len(q(k)) \in Nat /\ Len(seqs[k]) = 2 + 3 * Len(q(k))
             /\ seqs[k][1] = Unsigned(ToInt(order[k])) /\ seqs[k][2] = Len(q(k))
             /\ \A i \in 1 .. Len(q(k)) :
                  /\ seqs[k][3 * i] = Unsigned(nodes[q(k)[i]].expiration)
                  /\ seqs[k][3 * i + 1] = nodes[q(k)[i]].element_id
                  /\ seqs[k][3 * i + 2] = nodes[q(k)[i]].element
  <2>1. seqs[k] = SaveQueue(order[k]) /\ order[k] \in DOMAIN timeout_queues
    BY <1>1
  <2> HIDE DEF seqs
  <2> DEFINE u == q(k)
             v == seqs[k]
  <2>2. u = timeout_queues[order[k]] /\ v = SaveQueue(order[k])
    BY <2>1
  <2> HIDE DEF u, v, q
  <2>3. QueueWritten(order[k], u, v)
    BY <2>1, <2>2, QueueItems
  <2>4. QED
    BY <2>1, <2>3 DEF u, v, QueueWritten
<1>3. seqs \in Seq(Seq(Item)) /\ Len(seqs) = n
  <2>1. seqs = [k \in 1 .. n |-> seqs[k]]
    BY <1>1
  <2> HIDE DEF seqs, n
  <2>2. seqs \in [1 .. n -> Seq(Item)]
    BY <1>2, <2>1
  <2>3. QED
    BY <1>1, <2>2
<1>4. st = head \o f
  BY DEF SaveStream
<1>5. head \in Seq(Item) /\ Len(head) = 1 /\ head[1] = n
  <2>1. n \in Item
    BY <1>1 DEF Item
  <2>2. QED
    BY <2>1
<1>6. f = FlattenSeq(seqs) /\ off = Offset(seqs) /\ start = QueueStart(st)
  OBVIOUS
<1>7. /\ n = Len(order) /\ \A k : q(k) = timeout_queues[order[k]]
  OBVIOUS
<1> HIDE DEF seqs, f, off, head, n, start, q
<1>8. f \in Seq(Item) /\ Laid(seqs, n, off, f)
  BY <1>3, <1>6, FlattenOffsets
<1>9. st[1] = n /\ \A j \in 1 .. Len(f) : st[1 + j] = f[j]
  <2>1. /\ st \in Seq(Item)
        /\ \A i \in 1 .. Len(head) : st[i] = head[i]
        /\ \A j \in 1 .. Len(f) : st[Len(head) + j] = f[j]
    <3>1. head \in Seq(Item) /\ f \in Seq(Item)
      BY <1>5, <1>8
    <3>2. QED
      BY <1>4, <3>1, ConcatPositions
  <2>2. QED
    BY <1>5, <2>1
<1>10. ASSUME NEW k \in 1 .. n
       PROVE  /\ off[k] \in Nat /\ off[k + 1] = off[k] + 2 + 3 * Len(q(k))
              /\ \A j \in 1 .. 2 + 3 * Len(q(k)) : st[off[k] + 1 + j] = seqs[k][j]
  <2>1. k \in 1 .. n + 1 /\ Len(q(k)) \in Nat /\ Len(seqs[k]) = 2 + 3 * Len(q(k))
    BY <1>1, <1>2
  <2>2. off[k] \in Nat /\ off[k + 1] = off[k] + Len(seqs[k])
    BY <1>8, <2>1 DEF Laid
  <2>3. ASSUME NEW j \in 1 .. 2 + 3 * Len(q(k))
        PROVE  st[off[k] + 1 + j] = seqs[k][j]
    <3>1. off[k] + j \in 1 .. Len(f) /\ f[off[k] + j] = seqs[k][j]
      BY <1>8, <2>1 DEF Laid
    <3>2. 1 + (off[k] + j) = off[k] + 1 + j
      BY <2>2
    <3>3. QED
      BY <1>9, <3>1, <3>2
  <2>4. QED
    BY <2>1, <2>2, <2>3
<1>11. ASSUME NEW k \in 1 .. n
       PROVE  st[off[k] + 3] = Len(q(k)) /\ st[off[k] + 2] = Unsigned(ToInt(order[k]))
  <2>1. Len(q(k)) \in Nat /\ off[k] \in Nat
    BY <1>2, <1>10
  <2>2. /\ 1 \in 1 .. 2 + 3 * Len(q(k)) /\ 2 \in 1 .. 2 + 3 * Len(q(k))
        /\ off[k] + 1 + 1 = off[k] + 2 /\ off[k] + 1 + 2 = off[k] + 3
    BY <2>1
  <2>3. st[off[k] + 1 + 1] = seqs[k][1] /\ st[off[k] + 1 + 2] = seqs[k][2]
    BY <1>10, <2>2
  <2>4. QED
    BY <1>2, <2>2, <2>3
<1>12. \A k \in 1 .. n + 1 : start[k] = off[k] + 2
  <2>1. off[1] = 0 /\ \A k \in 1 .. n + 1 : off[k] \in Nat
    BY <1>8 DEF Laid
  <2>2. \A k \in 1 .. n : /\ st[off[k] + 3] \in Nat
                          /\ off[k + 1] = off[k] + 2 + 3 * st[off[k] + 3]
    BY <1>2, <1>10, <1>11
  <2>3. QED
    <3>1. n \in Nat /\ st[1] = n /\ start = QueueStart(st)
      BY <1>1, <1>6, <1>9
    <3>2. QED
      BY <2>1, <2>2, <3>1, StartsFound
<1>13. ASSUME NEW k \in 1 .. n
       PROVE  /\ QueueLen(st, k) = Len(q(k)) /\ LoadKey(st, k) = order[k]
              /\ \A i \in 1 .. Len(q(k)) : LoadNode(st, <<k, i>>) = nodes[q(k)[i]]
  <2>1. start[k] = off[k] + 2 /\ off[k] \in Nat /\ Len(q(k)) \in Nat /\ k \in 1 .. n + 1
    BY <1>1, <1>2, <1>10, <1>12
  <2>2. QueueLen(st, k) = Len(q(k))
    <3>1. start[k] + 1 = off[k] + 3
      BY <2>1
    <3>2. QED
      BY <1>6, <1>11, <3>1 DEF QueueLen
  <2>3. LoadKey(st, k) = order[k]
    <3>1. order[k] \in 0 .. IntMod - 1
      BY <1>1 DEF Structure, TypeOK
    <3>2. LoadKey(st, k) = ToUint(Unsigned(ToInt(order[k])))
      BY <1>6, <1>11, <2>1 DEF LoadKey
    <3>3. QED
      BY <3>1, <3>2, KeySurvives
  <2>4. ASSUME NEW i \in 1 .. Len(q(k))
        PROVE  LoadNode(st, <<k, i>>) = nodes[q(k)[i]]
    <3> DEFINE at == QueueStart(st)[k] + 2 + NodeWidth * (i - 1)
               a == q(k)[i]
               node == nodes[a]
    <3>1. at = off[k] + 1 + 3 * i
      BY <1>6, <2>1 DEF NodeWidth
    <3>2. a \in DOMAIN nodes /\ nodes[a].ttl = order[k]
      <4>1. q(k) \in Seq(Addr) /\ order[k] \in DOMAIN timeout_queues
        BY <1>1, <1>7 DEF Structure, TypeOK
      <4>2. i \in DOMAIN q(k)
        BY <4>1
      <4>3. QED
        BY <1>7, <4>1, <4>2 DEF Structure, MapsAgree, QueuesHoldNodes
    <3>3. node \in Node /\ node.expiration \in Longs
      BY <3>2 DEF Structure, TypeOK, LongDeadlines
    <3>4. node = [expiration |-> node.expiration, element_id |-> node.element_id,
                  element |-> node.element, ttl |-> node.ttl]
      BY <3>3 DEF Node
    <3>5. /\ off[k] + 1 + (3 * i + 1) = at + 1 /\ off[k] + 1 + (3 * i + 2) = at + 2
          /\ 3 * i \in 1 .. 2 + 3 * Len(q(k))
          /\ 3 * i + 1 \in 1 .. 2 + 3 * Len(q(k)) /\ 3 * i + 2 \in 1 .. 2 + 3 * Len(q(k))
      <4>1. i \in 1 .. Len(q(k)) /\ Len(q(k)) \in Nat /\ off[k] \in Nat
        BY <2>1
      <4>2. QED
        BY ONLY <3>1, <4>1
    <3>6. LoadNode(st, <<k, i>>) = [expiration |-> ToLong(st[at]), element_id |-> st[at + 1],
                                    element |-> st[at + 2], ttl |-> LoadKey(st, k)]
      BY DEF LoadNode
    <3> HIDE DEF at, a, node
    <3>7. st[at] = seqs[k][3 * i] /\ st[at + 1] = seqs[k][3 * i + 1] /\ st[at + 2] = seqs[k][3 * i + 2]
      BY <1>10, <3>1, <3>5
    <3>8. /\ seqs[k][3 * i] = Unsigned(node.expiration)
          /\ seqs[k][3 * i + 1] = node.element_id /\ seqs[k][3 * i + 2] = node.element
      BY <1>2 DEF node, a
    <3>9. ToLong(st[at]) = node.expiration /\ st[at + 1] = node.element_id
          /\ st[at + 2] = node.element /\ LoadKey(st, k) = node.ttl
      BY <2>3, <3>2, <3>3, <3>7, <3>8, DeadlineSurvives DEF node
    <3>10. LoadNode(st, <<k, i>>) = node
      BY <3>4, <3>6, <3>9
    <3>11. QED
      BY <3>10 DEF node, a
  <2>5. QED
    BY <2>2, <2>3, <2>4
<1>14. QED
  BY <1>7, <1>9, <1>13 DEF Reads

----------------------------------------------------------------------------
(* A stream that can be loaded. *)

(* The elements a stream stands for are these. *)
StandsFor(stream, of) ==
  /\ of = [id \in DOMAIN of |-> of[id]]
  /\ \A id : id \in DOMAIN of <=> \E s \in Slots(stream) : id = LoadNode(stream, s).element_id
  /\ \A s \in Slots(stream) :
       of[LoadNode(stream, s).element_id] = [element    |-> LoadNode(stream, s).element,
                                             expiration |-> LoadNode(stream, s).expiration]

(* Queues with keys of their own, none of them empty, and nodes with ids   *)
(* of their own. *)
WellFormed(stream) ==
  /\ stream[1] \in Nat
  /\ \A k \in 1 .. stream[1] :
       QueueLen(stream, k) \in Nat \ {0} /\ LoadKey(stream, k) \in 0 .. IntMod - 1
  /\ \A j, k \in 1 .. stream[1] : LoadKey(stream, j) = LoadKey(stream, k) => j = k
  /\ \A s \in Slots(stream) :
       /\ LoadNode(stream, s) \in Node
       /\ LoadNode(stream, s).expiration \in Longs
       /\ LoadNode(stream, s).ttl = LoadKey(stream, s[1])
  /\ \A r, s \in Slots(stream) :
       CStr[LoadNode(stream, r).element_id] = CStr[LoadNode(stream, s).element_id] => r = s

Loadable(stream, of) == WellFormed(stream) /\ StandsFor(stream, of)

(* A slot is a place in a queue.                                           *)
LEMMA SlotIs ==
  ASSUME NEW stream, NEW s
  PROVE  s \in Slots(stream) <=>
           \E k \in 1 .. stream[1] : \E i \in 1 .. QueueLen(stream, k) : s = <<k, i>>
<1>1. s \in Slots(stream) <=> \E k \in 1 .. stream[1] : s \in {k} \X (1 .. QueueLen(stream, k))
  BY Zenon DEF Slots, QueueLen
<1>2. \A k : s \in {k} \X (1 .. QueueLen(stream, k)) <=> \E i \in 1 .. QueueLen(stream, k) : s = <<k, i>>
  OBVIOUS
<1>3. QED
  BY <1>1, <1>2

(* The nodes of a stream are those of the dehydrator, each in one place.   *)
LEMMA SlotsAreNodes ==
  ASSUME Structure, NEW order \in SetToSeqs(DOMAIN timeout_queues), NEW st, Reads(st, order)
  PROVE  /\ \A s \in Slots(st) :
              \E a \in DOMAIN nodes :
                /\ LoadNode(st, s) = nodes[a] /\ nodes[a].ttl = LoadKey(st, s[1])
                /\ \E k \in 1 .. Len(order) : \E i \in DOMAIN timeout_queues[order[k]] :
                     s = <<k, i>> /\ a = timeout_queues[order[k]][i] /\ nodes[a].ttl = order[k]
         /\ \A a \in DOMAIN nodes : \E s \in Slots(st) : LoadNode(st, s) = nodes[a]
<1> DEFINE n == Len(order)
<1>1. order \in Seq(DOMAIN timeout_queues) /\ IsInjective(order) /\ Range(order) = DOMAIN timeout_queues
  BY OrderIsFull
<1>2. n \in Nat /\ DOMAIN order = 1 .. n /\ \A k \in 1 .. n : order[k] \in DOMAIN timeout_queues
  BY <1>1
<1>3. ASSUME NEW k \in 1 .. n
      PROVE  /\ DOMAIN timeout_queues[order[k]] = 1 .. Len(timeout_queues[order[k]])
             /\ QueueLen(st, k) = Len(timeout_queues[order[k]]) /\ LoadKey(st, k) = order[k]
             /\ \A i \in DOMAIN timeout_queues[order[k]] :
                  /\ LoadNode(st, <<k, i>>) = nodes[timeout_queues[order[k]][i]]
                  /\ timeout_queues[order[k]][i] \in DOMAIN nodes
                  /\ nodes[timeout_queues[order[k]][i]].ttl = order[k]
  <2>1. order[k] \in DOMAIN timeout_queues
    BY <1>2
  <2>2. timeout_queues[order[k]] \in Seq(Addr)
    BY <2>1 DEF Structure, TypeOK
  <2>3. DOMAIN timeout_queues[order[k]] = 1 .. Len(timeout_queues[order[k]])
    BY <2>2
  <2>4. /\ QueueLen(st, k) = Len(timeout_queues[order[k]]) /\ LoadKey(st, k) = order[k]
        /\ \A i \in DOMAIN timeout_queues[order[k]] :
             LoadNode(st, <<k, i>>) = nodes[timeout_queues[order[k]][i]]
    BY <2>3 DEF Reads
  <2>5. QED
    BY <2>1, <2>3, <2>4 DEF Structure, MapsAgree, QueuesHoldNodes
<1>4. st[1] = n
  BY DEF Reads
<1>5. ASSUME NEW s \in Slots(st)
      PROVE  \E a \in DOMAIN nodes :
                /\ LoadNode(st, s) = nodes[a] /\ nodes[a].ttl = LoadKey(st, s[1])
                /\ \E k \in 1 .. Len(order) : \E i \in DOMAIN timeout_queues[order[k]] :
                     s = <<k, i>> /\ a = timeout_queues[order[k]][i] /\ nodes[a].ttl = order[k]
  <2>1. PICK k \in 1 .. n : \E i \in 1 .. QueueLen(st, k) : s = <<k, i>>
    BY <1>4, SlotIs
  <2>2. PICK i \in 1 .. QueueLen(st, k) : s = <<k, i>>
    BY <2>1
  <2>3. i \in DOMAIN timeout_queues[order[k]] /\ s[1] = k
    BY <1>3, <2>2
  <2> DEFINE a == timeout_queues[order[k]][i]
  <2>4. a \in DOMAIN nodes /\ LoadNode(st, <<k, i>>) = nodes[a] /\ nodes[a].ttl = order[k]
        /\ LoadKey(st, k) = order[k]
    BY <1>3, <2>3
  <2>5. LoadNode(st, s) = nodes[a] /\ nodes[a].ttl = LoadKey(st, s[1])
    BY <2>2, <2>3, <2>4
  <2>6. QED
    BY <2>2, <2>3, <2>4, <2>5
<1>6. ASSUME NEW a \in DOMAIN nodes
      PROVE  \E s \in Slots(st) : LoadNode(st, s) = nodes[a]
  <2> DEFINE t == nodes[a].ttl
  <2>1. t \in DOMAIN timeout_queues
    BY DEF Structure, MapsAgree, NodesQueued
  <2>2. PICK i \in DOMAIN timeout_queues[t] : timeout_queues[t][i] = a
    BY DEF Structure, MapsAgree, NodesQueued
  <2>3. PICK k \in 1 .. n : order[k] = t
    BY <1>1, <1>2, <2>1 DEF Range
  <2>4. i \in 1 .. QueueLen(st, k) /\ LoadNode(st, <<k, i>>) = nodes[a]
    BY <1>3, <2>2, <2>3
  <2>5. <<k, i>> \in Slots(st)
    BY <1>4, <2>4, SlotIs
  <2>6. QED
    BY <2>4, <2>5
<1>7. QED
  BY <1>5, <1>6

(* What a save writes can be loaded.                                       *)
LEMMA SavedLoadable ==
  ASSUME Structure, LongDeadlines, NEW order \in SetToSeqs(DOMAIN timeout_queues),
         NEW st, st = SaveStream(order)
  PROVE  Loadable(st, Pending)
<1> DEFINE n == Len(order)
<1>1. Reads(st, order)
  BY StreamReads
<1>2. order \in Seq(DOMAIN timeout_queues) /\ IsInjective(order)
  BY OrderIsFull
<1>3. n \in Nat /\ DOMAIN order = 1 .. n /\ \A k \in 1 .. n : order[k] \in DOMAIN timeout_queues
  BY <1>2
<1>4. st[1] = n /\ \A k \in 1 .. n : LoadKey(st, k) = order[k]
  BY <1>1 DEF Reads
<1>5. \A s \in Slots(st) :
        \E a \in DOMAIN nodes :
          /\ LoadNode(st, s) = nodes[a] /\ nodes[a].ttl = LoadKey(st, s[1])
          /\ \E k \in 1 .. Len(order) : \E i \in DOMAIN timeout_queues[order[k]] :
               s = <<k, i>> /\ a = timeout_queues[order[k]][i] /\ nodes[a].ttl = order[k]
  BY <1>1, SlotsAreNodes
<1>6. \A a \in DOMAIN nodes : \E s \in Slots(st) : LoadNode(st, s) = nodes[a]
  BY <1>1, SlotsAreNodes
<1>7. ASSUME NEW k \in 1 .. n
      PROVE  QueueLen(st, k) \in Nat \ {0} /\ LoadKey(st, k) \in 0 .. IntMod - 1
  <2> DEFINE q == timeout_queues[order[k]]
  <2>1. order[k] \in DOMAIN timeout_queues
    BY <1>3
  <2>2. q \in Seq(Addr) /\ q # <<>> /\ order[k] \in 0 .. IntMod - 1
    BY <2>1 DEF Structure, TypeOK, NoEmptyQueue
  <2>3. QueueLen(st, k) = Len(q) /\ LoadKey(st, k) = order[k]
    BY <1>1 DEF Reads
  <2> HIDE DEF q
  <2>4. Len(q) \in Nat \ {0}
    BY <2>2
  <2>5. QED
    BY <2>2, <2>3, <2>4
<1>8. \A j, k \in 1 .. n : LoadKey(st, j) = LoadKey(st, k) => j = k
  BY <1>2, <1>3, <1>4 DEF IsInjective
<1>9. ASSUME NEW s \in Slots(st)
      PROVE  /\ LoadNode(st, s) \in Node
             /\ LoadNode(st, s).expiration \in Longs
             /\ LoadNode(st, s).ttl = LoadKey(st, s[1])
  BY <1>5 DEF Structure, TypeOK, LongDeadlines
<1>10. ASSUME NEW r \in Slots(st), NEW s \in Slots(st),
              CStr[LoadNode(st, r).element_id] = CStr[LoadNode(st, s).element_id]
       PROVE  r = s
  <2>1. PICK a \in DOMAIN nodes :
          /\ LoadNode(st, r) = nodes[a]
          /\ \E k \in 1 .. n : \E i \in DOMAIN timeout_queues[order[k]] :
               r = <<k, i>> /\ a = timeout_queues[order[k]][i] /\ nodes[a].ttl = order[k]
    BY <1>5
  <2>2. PICK b \in DOMAIN nodes :
          /\ LoadNode(st, s) = nodes[b]
          /\ \E k \in 1 .. n : \E i \in DOMAIN timeout_queues[order[k]] :
               s = <<k, i>> /\ b = timeout_queues[order[k]][i] /\ nodes[b].ttl = order[k]
    BY <1>5
  <2>3. a = b
    BY <1>10, <2>1, <2>2 DEF Structure, MapsAgree, NodesMapped
  <2>4. PICK k \in 1 .. n : \E i \in DOMAIN timeout_queues[order[k]] :
          r = <<k, i>> /\ a = timeout_queues[order[k]][i] /\ nodes[a].ttl = order[k]
    BY <2>1
  <2>5. PICK l \in 1 .. n : \E j \in DOMAIN timeout_queues[order[l]] :
          s = <<l, j>> /\ b = timeout_queues[order[l]][j] /\ nodes[b].ttl = order[l]
    BY <2>2
  <2>6. k = l
    BY <1>2, <1>3, <2>3, <2>4, <2>5 DEF IsInjective
  <2>7. order[k] \in DOMAIN timeout_queues
    BY <1>3
  <2>8. PICK i \in DOMAIN timeout_queues[order[k]] : r = <<k, i>> /\ a = timeout_queues[order[k]][i]
    BY <2>4
  <2>9. PICK j \in DOMAIN timeout_queues[order[k]] : s = <<k, j>> /\ a = timeout_queues[order[k]][j]
    BY <2>3, <2>5, <2>6
  <2>10. i = j
    BY <2>7, <2>8, <2>9 DEF Structure, MapsAgree, LinkedOnce, IsInjective
  <2>11. QED
    BY <2>8, <2>9, <2>10
<1>11. WellFormed(st)
  BY <1>3, <1>4, <1>7, <1>8, <1>9, <1>10 DEF WellFormed
<1>12. Pending = [id \in DOMAIN Pending |-> Pending[id]]
  BY DEF Pending
<1>13. \A id : id \in DOMAIN Pending <=> \E a \in DOMAIN nodes : id = nodes[a].element_id
  BY DEF Pending
<1>14. \A a \in DOMAIN nodes :
         Pending[nodes[a].element_id] = [element    |-> nodes[a].element,
                                         expiration |-> nodes[a].expiration]
  <2>1. ASSUME NEW a \in DOMAIN nodes
        PROVE  NodeFor(nodes[a].element_id) = a
    BY DEF Structure, MapsAgree, NodesMapped, NodeFor
  <2>2. QED
    BY <2>1 DEF Pending
<1>15. StandsFor(st, Pending)
  <2> DEFINE P == Pending
  <2>1. P = [id \in DOMAIN P |-> P[id]]
    BY <1>12
  <2> HIDE DEF P
  <2>2. \A id : id \in DOMAIN P <=> \E s \in Slots(st) : id = LoadNode(st, s).element_id
    BY <1>5, <1>6, <1>13 DEF P
  <2>3. \A s \in Slots(st) :
          P[LoadNode(st, s).element_id] = [element    |-> LoadNode(st, s).element,
                                           expiration |-> LoadNode(st, s).expiration]
    BY <1>5, <1>14 DEF P
  <2>4. StandsFor(st, P)
    BY <2>1, <2>2, <2>3 DEF StandsFor
  <2>5. QED
    BY <2>4 DEF P
<1>16. QED
  BY <1>11, <1>15 DEF Loadable

----------------------------------------------------------------------------
(* A load. *)

(* No two pairs have the same first part. *)
Functional(pairs) == \A p, q \in pairs : p[1] = q[1] => p = q

(* f takes the first part of each pair to the second. *)
Applies(f, pairs) ==
  /\ \A x : x \in DOMAIN f <=> \E p \in pairs : x = p[1]
  /\ \A p \in pairs : f[p[1]] = p[2]

(* A set of pairs with different first parts, as a function.               *)
LEMMA PairsApply ==
  ASSUME NEW pairs, Functional(pairs)
  PROVE  Applies(AsFunction(pairs), pairs)
<1> DEFINE f == AsFunction(pairs)
<1>1. f = [key \in {p[1] : p \in pairs} |-> (CHOOSE p \in pairs : p[1] = key)[2]]
  BY DEF AsFunction
<1> HIDE DEF f
<1>2. \A x : x \in DOMAIN f <=> \E p \in pairs : x = p[1]
  BY <1>1
<1>3. ASSUME NEW p \in pairs
      PROVE  f[p[1]] = p[2]
  <2>1. (CHOOSE q \in pairs : q[1] = p[1]) = p
    BY <1>3 DEF Functional
  <2>2. p[1] \in {q[1] : q \in pairs}
    OBVIOUS
  <2>3. f[p[1]] = (CHOOSE q \in pairs : q[1] = p[1])[2]
    BY <1>1, <2>2
  <2>4. QED
    BY <2>1, <2>3
<1>4. Applies(f, pairs)
  BY <1>2, <1>3 DEF Applies
<1>5. QED
  BY <1>4 DEF f

(* What the load has built when the node of a slot is at its place. *)
Built(stream, place) ==
  /\ keyType' = "DEHYDRATOR"
  /\ \A s \in Slots(stream) : place[s] \in Addr
  /\ \A r, s \in Slots(stream) : place[r] = place[s] => r = s
  /\ \A a : a \in DOMAIN nodes' <=> \E s \in Slots(stream) : a = place[s]
  /\ \A s \in Slots(stream) : nodes'[place[s]] = LoadNode(stream, s)
  /\ \A t : t \in DOMAIN timeout_queues' <=> \E k \in 1 .. stream[1] : t = LoadKey(stream, k)
  /\ \A k \in 1 .. stream[1] : timeout_queues'[LoadKey(stream, k)] = LoadQueue(stream, k, place)
  /\ \A c : c \in DOMAIN element_nodes' <=>
              \E s \in Slots(stream) : c = CStr[LoadNode(stream, s).element_id]
  /\ \A s \in Slots(stream) : element_nodes'[CStr[LoadNode(stream, s).element_id]] = place[s]

(* DehydratorTypeRdbLoad, module.c:552-587, enters each node in one queue  *)
(* and under one id.                                                       *)
LEMMA LoadBuilds ==
  ASSUME NEW stream, WellFormed(stream), RdbLoad(stream)
  PROVE  \E place : Built(stream, place)
<1> DEFINE S == Slots(stream)
           Ks == 1 .. stream[1]
           Node1(s) == LoadNode(stream, s)
<1>1. PICK place \in Injection(S, Addr) :
        /\ keyType' = "DEHYDRATOR"
        /\ nodes' = AsFunction({<<place[slot], Node1(slot)>> : slot \in S})
        /\ timeout_queues' = AsFunction({<<LoadKey(stream, k), LoadQueue(stream, k, place)>> : k \in Ks})
        /\ element_nodes' = AsFunction(LoadMapping(stream, place))
  BY DEF RdbLoad
<1>2. (\A s \in S : place[s] \in Addr) /\ \A r, s \in S : place[r] = place[s] => r = s
  BY DEF Injection, IsInjective
<1>3. /\ \A a : a \in DOMAIN nodes' <=> \E s \in S : a = place[s]
      /\ \A s \in S : nodes'[place[s]] = Node1(s)
  <2> DEFINE P == {<<place[slot], Node1(slot)>> : slot \in S}
  <2>1. \A p : p \in P <=> \E s \in S : p = <<place[s], Node1(s)>>
    OBVIOUS
  <2>2. nodes' = AsFunction(P)
    BY <1>1
  <2> HIDE DEF P, Node1, S
  <2>3. Functional(P)
    BY <1>2, <2>1 DEF Functional
  <2>4. Applies(AsFunction(P), P)
    BY <2>3, PairsApply
  <2>5. Applies(nodes', P)
    BY <2>2, <2>4
  <2>6. ASSUME NEW s \in S
        PROVE  place[s] \in DOMAIN nodes' /\ nodes'[place[s]] = Node1(s)
    <3> DEFINE p == <<place[s], Node1(s)>>
    <3>1. p \in P
      BY <2>1
    <3>2. p[1] = place[s] /\ p[2] = Node1(s)
      OBVIOUS
    <3> HIDE DEF p
    <3>3. p[1] \in DOMAIN nodes' /\ nodes'[p[1]] = p[2]
      BY <2>5, <3>1 DEF Applies
    <3>4. QED
      BY <3>2, <3>3
  <2>7. ASSUME NEW x \in DOMAIN nodes'
        PROVE  \E s \in S : x = place[s]
    <3>1. PICK p \in P : x = p[1]
      BY <2>5 DEF Applies
    <3>2. PICK s \in S : p = <<place[s], Node1(s)>>
      BY <2>1, <3>1
    <3>3. x = place[s]
      BY <3>1, <3>2
    <3>4. QED
      BY <3>3
  <2>8. QED
    BY <2>6, <2>7
<1>4. /\ \A t : t \in DOMAIN timeout_queues' <=> \E k \in Ks : t = LoadKey(stream, k)
      /\ \A k \in Ks : timeout_queues'[LoadKey(stream, k)] = LoadQueue(stream, k, place)
  <2> DEFINE P == {<<LoadKey(stream, k), LoadQueue(stream, k, place)>> : k \in Ks}
  <2>1. \A p : p \in P <=> \E k \in Ks : p = <<LoadKey(stream, k), LoadQueue(stream, k, place)>>
    OBVIOUS
  <2>2. timeout_queues' = AsFunction(P)
    BY <1>1
  <2>3. \A j, k \in Ks : LoadKey(stream, j) = LoadKey(stream, k) => j = k
    BY DEF WellFormed
  <2> HIDE DEF P, Ks
  <2>4. Functional(P)
    BY <2>1, <2>3 DEF Functional
  <2>5. Applies(AsFunction(P), P)
    BY <2>4, PairsApply
  <2>6. Applies(timeout_queues', P)
    BY <2>2, <2>5
  <2>7. ASSUME NEW k \in Ks
        PROVE  LoadKey(stream, k) \in DOMAIN timeout_queues' /\ timeout_queues'[LoadKey(stream, k)] = LoadQueue(stream, k, place)
    <3> DEFINE p == <<LoadKey(stream, k), LoadQueue(stream, k, place)>>
    <3>1. p \in P
      BY <2>1
    <3>2. p[1] = LoadKey(stream, k) /\ p[2] = LoadQueue(stream, k, place)
      OBVIOUS
    <3> HIDE DEF p
    <3>3. p[1] \in DOMAIN timeout_queues' /\ timeout_queues'[p[1]] = p[2]
      BY <2>6, <3>1 DEF Applies
    <3>4. QED
      BY <3>2, <3>3
  <2>8. ASSUME NEW x \in DOMAIN timeout_queues'
        PROVE  \E k \in Ks : x = LoadKey(stream, k)
    <3>1. PICK p \in P : x = p[1]
      BY <2>6 DEF Applies
    <3>2. PICK k \in Ks : p = <<LoadKey(stream, k), LoadQueue(stream, k, place)>>
      BY <2>1, <3>1
    <3>3. x = LoadKey(stream, k)
      BY <3>1, <3>2
    <3>4. QED
      BY <3>3
  <2>9. QED
    BY <2>7, <2>8
<1>5. /\ \A c : c \in DOMAIN element_nodes' <=> \E s \in S : c = CStr[Node1(s).element_id]
      /\ \A s \in S : element_nodes'[CStr[Node1(s).element_id]] = place[s]
  <2> DEFINE P == LoadMapping(stream, place)
  <2>1. \A p : p \in P <=> \E s \in S : p = <<CStr[Node1(s).element_id], place[s]>>
    BY DEF LoadMapping
  <2>2. element_nodes' = AsFunction(P)
    BY <1>1
  <2>3. \A r, s \in S : CStr[Node1(r).element_id] = CStr[Node1(s).element_id] => r = s
    BY DEF WellFormed
  <2> HIDE DEF P, Node1, S
  <2>4. Functional(P)
    BY <2>1, <2>3 DEF Functional
  <2>5. Applies(AsFunction(P), P)
    BY <2>4, PairsApply
  <2>6. Applies(element_nodes', P)
    BY <2>2, <2>5
  <2>7. ASSUME NEW s \in S
        PROVE  CStr[Node1(s).element_id] \in DOMAIN element_nodes' /\ element_nodes'[CStr[Node1(s).element_id]] = place[s]
    <3> DEFINE p == <<CStr[Node1(s).element_id], place[s]>>
    <3>1. p \in P
      BY <2>1
    <3>2. p[1] = CStr[Node1(s).element_id] /\ p[2] = place[s]
      OBVIOUS
    <3> HIDE DEF p
    <3>3. p[1] \in DOMAIN element_nodes' /\ element_nodes'[p[1]] = p[2]
      BY <2>6, <3>1 DEF Applies
    <3>4. QED
      BY <3>2, <3>3
  <2>8. ASSUME NEW x \in DOMAIN element_nodes'
        PROVE  \E s \in S : x = CStr[Node1(s).element_id]
    <3>1. PICK p \in P : x = p[1]
      BY <2>6 DEF Applies
    <3>2. PICK s \in S : p = <<CStr[Node1(s).element_id], place[s]>>
      BY <2>1, <3>1
    <3>3. x = CStr[Node1(s).element_id]
      BY <3>1, <3>2
    <3>4. QED
      BY <3>3
  <2>9. QED
    BY <2>7, <2>8
<1>6. Built(stream, place)
  BY <1>1, <1>2, <1>3, <1>4, <1>5 DEF Built
<1>7. QED
  BY <1>6

(* A loaded queue holds the nodes of its slots, from the head.             *)
LEMMA BuiltQueues ==
  ASSUME NEW stream, WellFormed(stream), NEW place, Built(stream, place),
         NEW k \in 1 .. stream[1], NEW q, q = timeout_queues'[LoadKey(stream, k)]
  PROVE  /\ q \in Seq(Addr) /\ q # <<>> /\ DOMAIN q = 1 .. QueueLen(stream, k)
         /\ \A i \in DOMAIN q : <<k, i>> \in Slots(stream) /\ q[i] = place[<<k, i>>]
<1> DEFINE n == QueueLen(stream, k)
<1>1. q = [i \in 1 .. n |-> place[<<k, i>>]]
  BY DEF Built, LoadQueue, QueueLen
<1>2. n \in Nat \ {0}
  BY DEF WellFormed
<1>3. \A i \in 1 .. n : <<k, i>> \in Slots(stream)
  BY SlotIs
<1> HIDE DEF n
<1>4. \A i \in 1 .. n : place[<<k, i>>] \in Addr
  BY <1>3 DEF Built
<1>5. q \in Seq(Addr) /\ DOMAIN q = 1 .. n
  BY <1>1, <1>2, <1>4
<1>6. q # <<>>
  BY <1>2, <1>5
<1>7. QED
  BY <1>1, <1>3, <1>5, <1>6 DEF n

(* A loaded dehydrator has the structure every command relies on.          *)
LEMMA BuiltStructure ==
  ASSUME NEW stream, WellFormed(stream), NEW place, Built(stream, place), clock' \in 0 .. MaxClock
  PROVE  Structure' /\ LongDeadlines'
<1> DEFINE S == Slots(stream)
           N == 1 .. stream[1]
<1>1. \A a : a \in DOMAIN nodes' <=> \E s \in S : a = place[s]
  BY DEF Built
<1>2. \A s \in S : nodes'[place[s]] = LoadNode(stream, s) /\ place[s] \in Addr
  BY DEF Built
<1>3. \A t : t \in DOMAIN timeout_queues' <=> \E k \in N : t = LoadKey(stream, k)
  BY DEF Built
<1>4. \A k \in N : LoadKey(stream, k) \in 0 .. IntMod - 1
  BY DEF WellFormed
<1>5. \A s \in S : /\ LoadNode(stream, s) \in Node /\ LoadNode(stream, s).expiration \in Longs
                   /\ LoadNode(stream, s).ttl = LoadKey(stream, s[1])
  BY DEF WellFormed
<1>6. \A c : c \in DOMAIN element_nodes' <=> \E s \in S : c = CStr[LoadNode(stream, s).element_id]
  BY DEF Built
<1>7. \A s \in S : element_nodes'[CStr[LoadNode(stream, s).element_id]] = place[s]
  BY DEF Built
<1>8. \A r, s \in S : place[r] = place[s] => r = s
  BY DEF Built
<1>9. \A t \in DOMAIN timeout_queues' : timeout_queues'[t] \in Seq(Addr) /\ timeout_queues'[t] # <<>>
  BY <1>3, BuiltQueues
<1>10. ASSUME NEW t \in DOMAIN timeout_queues', NEW i \in DOMAIN timeout_queues'[t]
       PROVE  \E k \in N : /\ t = LoadKey(stream, k) /\ <<k, i>> \in S
                           /\ timeout_queues'[t][i] = place[<<k, i>>]
  <2>1. PICK k \in N : t = LoadKey(stream, k)
    BY <1>3
  <2>2. <<k, i>> \in S /\ timeout_queues'[t][i] = place[<<k, i>>]
    BY <2>1, BuiltQueues
  <2>3. QED
    BY <2>1, <2>2
<1>11. ASSUME NEW s \in S
       PROVE  /\ LoadKey(stream, s[1]) \in DOMAIN timeout_queues'
              /\ \E i \in DOMAIN timeout_queues'[LoadKey(stream, s[1])] :
                   timeout_queues'[LoadKey(stream, s[1])][i] = place[s]
  <2>1. PICK k \in N : \E i \in 1 .. QueueLen(stream, k) : s = <<k, i>>
    BY SlotIs
  <2>2. PICK i \in 1 .. QueueLen(stream, k) : s = <<k, i>>
    BY <2>1
  <2>3. s[1] = k
    BY <2>2
  <2> DEFINE q == timeout_queues'[LoadKey(stream, k)]
  <2>4. DOMAIN q = 1 .. QueueLen(stream, k) /\ \A j \in DOMAIN q : q[j] = place[<<k, j>>]
    BY BuiltQueues
  <2>5. i \in DOMAIN q /\ q[i] = place[s]
    BY <2>2, <2>4
  <2>6. QED
    BY <1>3, <2>3, <2>5
<1> HIDE DEF S, N
<1>12. TypeOK'
  <2>1. keyType' = "DEHYDRATOR"
    BY DEF Built
  <2>2. DOMAIN nodes' \subseteq Addr /\ \A a \in DOMAIN nodes' : nodes'[a] \in Node
    BY <1>1, <1>2, <1>5
  <2>3. DOMAIN timeout_queues' \subseteq 0 .. IntMod - 1
    BY <1>3, <1>4
  <2>4. \A t \in DOMAIN timeout_queues' : timeout_queues'[t] \in Seq(Addr)
    BY <1>9
  <2>5. \A c \in DOMAIN element_nodes' : element_nodes'[c] \in Addr
    BY <1>2, <1>6, <1>7
  <2>6. QED
    BY <2>1, <2>2, <2>3, <2>4, <2>5 DEF TypeOK, Node
<1>13. QueuesHoldNodes'
  <2>1. ASSUME NEW t \in DOMAIN timeout_queues', NEW i \in DOMAIN timeout_queues'[t]
        PROVE  timeout_queues'[t][i] \in DOMAIN nodes' /\ nodes'[timeout_queues'[t][i]].ttl = t
    <3>1. PICK k \in N : /\ t = LoadKey(stream, k) /\ <<k, i>> \in S
                         /\ timeout_queues'[t][i] = place[<<k, i>>]
      BY <1>10
    <3>2. nodes'[place[<<k, i>>]].ttl = LoadKey(stream, <<k, i>>[1])
      BY <1>2, <1>5, <3>1
    <3>3. QED
      BY <1>1, <3>1, <3>2
  <2>2. QED
    BY <2>1 DEF QueuesHoldNodes
<1>14. LinkedOnce'
  <2>1. ASSUME NEW t \in DOMAIN timeout_queues', NEW i \in DOMAIN timeout_queues'[t],
               NEW j \in DOMAIN timeout_queues'[t], timeout_queues'[t][i] = timeout_queues'[t][j]
        PROVE  i = j
    <3>1. PICK k \in N : t = LoadKey(stream, k)
      BY <1>3
    <3>2. /\ <<k, i>> \in S /\ timeout_queues'[t][i] = place[<<k, i>>]
          /\ <<k, j>> \in S /\ timeout_queues'[t][j] = place[<<k, j>>]
      BY <3>1, BuiltQueues DEF S, N
    <3>3. <<k, i>> = <<k, j>>
      BY <1>8, <2>1, <3>2
    <3>4. QED
      BY <3>3
  <2>2. QED
    BY <2>1 DEF LinkedOnce, IsInjective
<1>15. NodesQueued'
  <2>1. ASSUME NEW a \in DOMAIN nodes'
        PROVE  /\ nodes'[a].ttl \in DOMAIN timeout_queues'
               /\ \E i \in DOMAIN timeout_queues'[nodes'[a].ttl] : timeout_queues'[nodes'[a].ttl][i] = a
    <3>1. PICK s \in S : a = place[s]
      BY <1>1
    <3>2. nodes'[a].ttl = LoadKey(stream, s[1])
      BY <1>2, <1>5, <3>1
    <3>3. QED
      BY <1>11, <3>1, <3>2
  <2>2. QED
    BY <2>1 DEF NodesQueued
<1>16. NodesMapped'
  <2>1. ASSUME NEW a \in DOMAIN nodes'
        PROVE  /\ CStr[nodes'[a].element_id] \in DOMAIN element_nodes'
               /\ element_nodes'[CStr[nodes'[a].element_id]] = a
    <3>1. PICK s \in S : a = place[s]
      BY <1>1
    <3>2. nodes'[a] = LoadNode(stream, s)
      BY <1>2, <3>1
    <3>3. QED
      BY <1>6, <1>7, <3>1, <3>2
  <2>2. QED
    BY <2>1 DEF NodesMapped
<1>17. MappingLive'
  <2>1. ASSUME NEW c \in DOMAIN element_nodes'
        PROVE  /\ element_nodes'[c] \in DOMAIN nodes'
               /\ CStr[nodes'[element_nodes'[c]].element_id] = c
    <3>1. PICK s \in S : c = CStr[LoadNode(stream, s).element_id]
      BY <1>6
    <3>2. element_nodes'[c] = place[s] /\ nodes'[place[s]] = LoadNode(stream, s)
      BY <1>2, <1>7, <3>1
    <3>3. QED
      BY <1>1, <3>1, <3>2
  <2>2. QED
    BY <2>1 DEF MappingLive
<1>18. MapsAgree'
  <2>1. keyType' = "DEHYDRATOR"
    BY DEF Built
  <2>2. QED
    BY <1>13, <1>14, <1>15, <1>16, <1>17, <2>1 DEF MapsAgree
<1>19. NoEmptyQueue'
  BY <1>9 DEF NoEmptyQueue
<1>20. LongDeadlines'
  BY <1>1, <1>2, <1>5 DEF LongDeadlines
<1>21. QED
  BY <1>12, <1>18, <1>19, <1>20 DEF Structure

(* It holds the elements the stream stands for.                            *)
LEMMA BuiltPending ==
  ASSUME NEW stream, NEW of, StandsFor(stream, of), NEW place, Built(stream, place), Structure'
  PROVE  Pending' = of
<1> DEFINE S == Slots(stream)
           P == Pending'
<1>1. \A a \in DOMAIN nodes' :
        P[nodes'[a].element_id] = [element    |-> nodes'[a].element,
                                   expiration |-> nodes'[a].expiration]
  <2>1. ASSUME NEW a \in DOMAIN nodes'
        PROVE  element_nodes'[CStr[nodes'[a].element_id]] = a
    BY DEF Structure, MapsAgree, NodesMapped
  <2>2. P = [id \in {nodes'[a].element_id : a \in DOMAIN nodes'} |->
               [element    |-> nodes'[element_nodes'[CStr[id]]].element,
                expiration |-> nodes'[element_nodes'[CStr[id]]].expiration]]
    BY DEF Pending, NodeFor
  <2> HIDE DEF P
  <2>3. QED
    BY <2>1, <2>2
<1>2. \A id : id \in DOMAIN P <=> \E a \in DOMAIN nodes' : id = nodes'[a].element_id
  BY DEF Pending
<1>3. P = [id \in DOMAIN P |-> P[id]]
  BY DEF Pending
<1> HIDE DEF P
<1>4. /\ \A a : a \in DOMAIN nodes' <=> \E s \in S : a = place[s]
      /\ \A s \in S : nodes'[place[s]] = LoadNode(stream, s)
  BY DEF Built
<1>5. \A id : id \in DOMAIN P <=> \E s \in S : id = LoadNode(stream, s).element_id
  BY <1>2, <1>4
<1>6. \A s \in S : P[LoadNode(stream, s).element_id] = [element    |-> LoadNode(stream, s).element,
                                                       expiration |-> LoadNode(stream, s).expiration]
  BY <1>1, <1>4
<1>7. \A id : id \in DOMAIN P <=> id \in DOMAIN of
  BY <1>5 DEF StandsFor
<1>8. ASSUME NEW id \in DOMAIN P
      PROVE  P[id] = of[id]
  <2>1. PICK s \in S : id = LoadNode(stream, s).element_id
    BY <1>5
  <2>2. P[LoadNode(stream, s).element_id] = [element    |-> LoadNode(stream, s).element,
                                             expiration |-> LoadNode(stream, s).expiration]
    BY <1>6
  <2>3. of[LoadNode(stream, s).element_id] = [element    |-> LoadNode(stream, s).element,
                                              expiration |-> LoadNode(stream, s).expiration]
    BY DEF StandsFor
  <2>4. QED
    BY <2>1, <2>2, <2>3
<1>9. of = [id \in DOMAIN of |-> of[id]]
  BY DEF StandsFor
<1>10. DOMAIN P = DOMAIN of
  BY <1>7
<1>11. P = of
  BY <1>3, <1>8, <1>9, <1>10
<1>12. QED
  BY <1>11 DEF P

----------------------------------------------------------------------------
(* A saved stream, and the clock.  The deadlines in it are absolute: it    *)
(* ages while the server is down.                                          *)

(* What Timed says of the queues, of the queues of a stream. *)
Timely(stream, now) ==
  /\ \A k \in 1 .. stream[1] : \A i, j \in 1 .. QueueLen(stream, k) :
       i < j => LoadNode(stream, <<k, i>>).expiration <= LoadNode(stream, <<k, j>>).expiration
  /\ \A s \in Slots(stream) : \A t \in Ttl :
       ToUint(t) = LoadNode(stream, s).ttl => LoadNode(stream, s).expiration <= now + t
  /\ \A s \in Slots(stream) : \E t \in Ttl, c \in 0 .. now :
       LoadNode(stream, s).expiration = c + t

(* The queues are saved head first.                                        *)
LEMMA SavedTimely ==
  ASSUME Structure, LongDeadlines, Timed, NEW order \in SetToSeqs(DOMAIN timeout_queues),
         NEW st, st = SaveStream(order)
  PROVE  Timely(st, clock)
<1>1. Reads(st, order)
  BY StreamReads
<1>2. \A s \in Slots(st) : \E a \in DOMAIN nodes : LoadNode(st, s) = nodes[a]
  BY <1>1, SlotsAreNodes
<1>3. ASSUME NEW k \in 1 .. st[1], NEW i \in 1 .. QueueLen(st, k), NEW j \in 1 .. QueueLen(st, k), i < j
      PROVE  LoadNode(st, <<k, i>>).expiration <= LoadNode(st, <<k, j>>).expiration
  <2> DEFINE q == timeout_queues[order[k]]
  <2>1. order \in Seq(DOMAIN timeout_queues)
    BY OrderIsFull
  <2>2. k \in 1 .. Len(order)
    BY <1>1, <1>3 DEF Reads
  <2>3. order[k] \in DOMAIN timeout_queues
    BY <2>1, <2>2
  <2>4. q \in Seq(Addr)
    BY <2>3 DEF Structure, TypeOK
  <2>5. QueueLen(st, k) = Len(q) /\ DOMAIN q = 1 .. Len(q)
    BY <1>1, <2>2, <2>4 DEF Reads
  <2>6. i \in DOMAIN q /\ j \in DOMAIN q
    BY <1>3, <2>5
  <2>7. nodes[q[i]].expiration <= nodes[q[j]].expiration
    BY <1>3, <2>3, <2>6 DEF Timed, QueuesSorted
  <2>8. LoadNode(st, <<k, i>>) = nodes[q[i]] /\ LoadNode(st, <<k, j>>) = nodes[q[j]]
    BY <1>1, <2>2, <2>5, <2>6 DEF Reads
  <2>9. QED
    BY <2>7, <2>8
<1>4. ASSUME NEW s \in Slots(st), NEW t \in Ttl, ToUint(t) = LoadNode(st, s).ttl
      PROVE  LoadNode(st, s).expiration <= clock + t
  BY <1>2, <1>4 DEF Timed, DeadlineBound
<1>5. ASSUME NEW s \in Slots(st)
      PROVE  \E t \in Ttl, c \in 0 .. clock : LoadNode(st, s).expiration = c + t
  BY <1>2 DEF Timed, Dated
<1>6. QED
  BY <1>3, <1>4, <1>5 DEF Timely

(* A snapshot stays in time while it ages.                                 *)
LEMMA StaysTimely ==
  ASSUME NEW stream, WellFormed(stream), NEW now \in Int, NEW later \in Int, now <= later,
         Timely(stream, now)
  PROVE  Timely(stream, later)
<1>1. \A s \in Slots(stream) : LoadNode(stream, s).expiration \in Int
  BY DEF WellFormed, Node
<1>2. \A s \in Slots(stream) : \A t \in Ttl :
        ToUint(t) = LoadNode(stream, s).ttl => LoadNode(stream, s).expiration <= later + t
  BY <1>1, TtlAssumption DEF Timely
<1>3. 0 .. now \subseteq 0 .. later
  OBVIOUS
<1>4. \A s \in Slots(stream) : \E t \in Ttl, c \in 0 .. later :
        LoadNode(stream, s).expiration = c + t
  BY <1>3 DEF Timely
<1>5. QED
  BY <1>2, <1>4 DEF Timely

(* What is loaded from it is in order.                                     *)
LEMMA BuiltTimed ==
  ASSUME NEW stream, WellFormed(stream), NEW place, Built(stream, place), Timely(stream, clock')
  PROVE  Timed'
<1> DEFINE S == Slots(stream)
<1>1. \A a \in DOMAIN nodes' : \E s \in S : nodes'[a] = LoadNode(stream, s)
  BY DEF Built
<1>2. DeadlineBound'
  BY <1>1 DEF DeadlineBound, Timely
<1>3. Dated'
  BY <1>1 DEF Dated, Timely
<1>4. ASSUME NEW t \in DOMAIN timeout_queues',
             NEW i \in DOMAIN timeout_queues'[t], NEW j \in DOMAIN timeout_queues'[t], i < j
      PROVE  nodes'[timeout_queues'[t][i]].expiration <= nodes'[timeout_queues'[t][j]].expiration
  <2>1. PICK k \in 1 .. stream[1] : t = LoadKey(stream, k)
    BY DEF Built
  <2>2. /\ DOMAIN timeout_queues'[t] = 1 .. QueueLen(stream, k)
        /\ <<k, i>> \in S /\ timeout_queues'[t][i] = place[<<k, i>>]
        /\ <<k, j>> \in S /\ timeout_queues'[t][j] = place[<<k, j>>]
    BY <2>1, BuiltQueues
  <2>3. /\ nodes'[timeout_queues'[t][i]] = LoadNode(stream, <<k, i>>)
        /\ nodes'[timeout_queues'[t][j]] = LoadNode(stream, <<k, j>>)
    BY <2>2 DEF Built
  <2>4. i \in 1 .. QueueLen(stream, k) /\ j \in 1 .. QueueLen(stream, k)
    BY <2>2
  <2>5. LoadNode(stream, <<k, i>>).expiration <= LoadNode(stream, <<k, j>>).expiration
    BY <1>4, <2>4 DEF Timely
  <2>6. QED
    BY <2>3, <2>5
<1>5. QueuesSorted'
  BY <1>4 DEF QueuesSorted
<1>6. QED
  BY <1>2, <1>3, <1>5 DEF Timed

----------------------------------------------------------------------------
(* The commands between a save and a crash. *)

(* Only a push writes a deadline, and it writes a long long.               *)
LEMMA NextKeepsLong ==
  ASSUME Structure, LongDeadlines, [Next]_vars
  PROVE  LongDeadlines'
<1>1. CASE UNCHANGED vars
  BY <1>1 DEF vars, LongDeadlines
<1>2. CASE Next
  <2>1. \/ (Adds \/ Removes \/ Updates \/ Keeps \/ Deletes) /\ UNCHANGED clock
        \/ UNCHANGED store /\ (Tick \/ StepBack)
    BY <1>2, StoreSteps DEF Structure, MapsAgree
  <2>2. CASE Adds /\ UNCHANGED clock
    <3>1. PICK a \in Addr \ DOMAIN nodes, ttl \in Ttl, e \in Element, id \in Id :
            AddNode(a, ttl, e, id)
      BY <2>2 DEF Adds
    <3>2. clock + ttl \in Int
      BY ClockAssumption, TtlAssumption DEF Structure, TypeOK
    <3>3. NewNode(ttl, e, id).expiration \in Longs
      BY <3>2 DEF NewNode, Longs
    <3>4. nodes' = Put(nodes, a, NewNode(ttl, e, id))
      BY <3>1 DEF AddNode
    <3>5. /\ DOMAIN nodes' = DOMAIN nodes \cup {a}
          /\ nodes'[a] = NewNode(ttl, e, id)
          /\ \A b \in DOMAIN nodes : nodes'[b] = nodes[b]
      BY <3>4 DEF Put
    <3>6. QED
      BY <3>3, <3>5 DEF LongDeadlines
  <2>3. CASE Removes /\ UNCHANGED clock
    <3>1. PICK R \in SUBSET DOMAIN nodes : RemoveNodes(R)
      BY <2>3 DEF Removes
    <3>2. DOMAIN nodes' = DOMAIN nodes \ R /\ \A a \in DOMAIN nodes' : nodes'[a] = nodes[a]
      BY <3>1 DEF RemoveNodes, Restrict
    <3>3. QED
      BY <3>2 DEF LongDeadlines
  <2>4. CASE Updates /\ UNCHANGED clock
    <3>1. PICK a \in DOMAIN nodes, e \in Element : nodes' = [nodes EXCEPT ![a].element = e]
      BY <2>4 DEF Updates
    <3>2. \A b \in DOMAIN nodes : nodes[b] \in Node
      BY DEF Structure, TypeOK
    <3>3. /\ DOMAIN nodes' = DOMAIN nodes
          /\ \A b \in DOMAIN nodes : nodes'[b].expiration = nodes[b].expiration
      BY <3>1, <3>2 DEF Node
    <3>4. QED
      BY <3>3 DEF LongDeadlines
  <2>5. CASE Keeps
    BY <2>5 DEF Keeps, LongDeadlines
  <2>6. CASE Deletes
    <3>1. DOMAIN nodes \subseteq Queued
      BY DEF Structure, MapsAgree, NodesQueued, Queued, Range
    <3>2. DOMAIN nodes' = {}
      BY <2>6, <3>1 DEF Deletes, deleteDehydrator, Restrict
    <3>3. QED
      BY <3>2 DEF LongDeadlines
  <2>7. CASE UNCHANGED store
    BY <2>7 DEF store, LongDeadlines
  <2>8. QED
    BY <2>1, <2>2, <2>3, <2>4, <2>5, <2>6, <2>7
<1>3. QED
  BY <1>1, <1>2

----------------------------------------------------------------------------
(* Saves and crashes. *)

(* A complete save: if of a dehydrator it can be loaded.                   *)
Snapshot(save) ==
  /\ save.type \in {"EMPTY", "DEHYDRATOR"} \cup Foreign
  /\ save.type = "DEHYDRATOR" => Loadable(save.stream, save.of)
  /\ save.type # "DEHYDRATOR" => save.of = <<>>

(* RestoredAsSaved is not inductive: the save has to be loadable, which    *)
(* takes a sound dehydrator with 64-bit deadlines when Redis forks.        *)
Persistent ==
  /\ Structure
  /\ LongDeadlines
  /\ image # NoImage => Snapshot(image)
  /\ Snapshot(disk)

(* A restart from a snapshot without a dehydrator leaves nothing behind.   *)
LEMMA NothingPending ==
  ASSUME nodes' = <<>>, timeout_queues' = <<>>, element_nodes' = <<>>,
         keyType' \in {"EMPTY"} \cup Foreign, clock' \in 0 .. MaxClock
  PROVE  Pending' = <<>> /\ Structure' /\ LongDeadlines' /\ Timed'
<1>1. DOMAIN nodes' = {} /\ DOMAIN timeout_queues' = {} /\ DOMAIN element_nodes' = {}
  OBVIOUS
<1>2. Pending' = <<>>
  BY <1>1 DEF Pending
<1>3. TypeOK'
  BY <1>1 DEF TypeOK
<1>4. MapsAgree'
  <2>1. keyType' # "DEHYDRATOR"
    BY ForeignAssumption
  <2>2. QED
    BY <1>1, <2>1 DEF MapsAgree, QueuesHoldNodes, LinkedOnce, NodesQueued, NodesMapped, MappingLive
<1>5. NoEmptyQueue' /\ LongDeadlines' /\ Timed'
  BY <1>1 DEF NoEmptyQueue, LongDeadlines, Timed, QueuesSorted, DeadlineBound, Dated
<1>6. QED
  BY <1>2, <1>3, <1>4, <1>5 DEF Structure

(* The server starts without a snapshot.                                   *)
LEMMA PInitPersistent ==
  ASSUME PInit
  PROVE  Persistent
<1>1. Structure
  BY InitStructure DEF PInit
<1>2. LongDeadlines
  BY DEF PInit, Init, LongDeadlines
<1>3. Snapshot(disk)
  BY DEF PInit, Empty, Snapshot
<1>4. QED
  BY <1>1, <1>2, <1>3 DEF PInit, Persistent

(* BGSAVE takes a snapshot that can be loaded.                             *)
LEMMA ForkTakesSnapshot ==
  ASSUME Structure, LongDeadlines, Fork
  PROVE  Snapshot(image')
<1>1. CASE keyType = "DEHYDRATOR"
  <2>1. PICK order \in SetToSeqs(DOMAIN timeout_queues) :
          image' = [type |-> keyType, stream |-> SaveStream(order), of |-> Pending]
    BY <1>1 DEF Fork
  <2>2. Loadable(SaveStream(order), Pending)
    BY SavedLoadable
  <2>3. image'.type = "DEHYDRATOR" /\ image'.stream = SaveStream(order) /\ image'.of = Pending
    BY <1>1, <2>1
  <2>4. QED
    BY <2>2, <2>3 DEF Snapshot
<1>2. CASE keyType # "DEHYDRATOR"
  <2>1. image'.type = keyType /\ image'.of = <<>>
    BY <1>2 DEF Fork, Empty
  <2>2. keyType \in {"EMPTY", "DEHYDRATOR"} \cup Foreign
    BY DEF Structure, TypeOK
  <2>3. QED
    BY <1>2, <2>1, <2>2 DEF Snapshot
<1>3. QED
  BY <1>1, <1>2

(* A restart builds a sound dehydrator with the elements of the snapshot.  *)
LEMMA RestartRestores ==
  ASSUME Persistent, CrashRestart
  PROVE  Structure' /\ LongDeadlines' /\ Pending' = disk.of
<1>1. clock' \in 0 .. MaxClock
  BY DEF CrashRestart, Persistent, Structure, TypeOK
<1>2. CASE disk.type = "DEHYDRATOR"
  <2>1. RdbLoad(disk.stream)
    BY <1>2 DEF CrashRestart
  <2>2. WellFormed(disk.stream) /\ StandsFor(disk.stream, disk.of)
    BY <1>2 DEF Persistent, Snapshot, Loadable
  <2>3. PICK place : Built(disk.stream, place)
    BY <2>1, <2>2, LoadBuilds
  <2>4. Structure' /\ LongDeadlines'
    BY <1>1, <2>2, <2>3, BuiltStructure
  <2>5. Pending' = disk.of
    BY <2>2, <2>3, <2>4, BuiltPending
  <2>6. QED
    BY <2>4, <2>5
<1>3. CASE disk.type # "DEHYDRATOR"
  <2>1. /\ keyType' \in {"EMPTY"} \cup Foreign
        /\ nodes' = <<>> /\ timeout_queues' = <<>> /\ element_nodes' = <<>>
        /\ disk.of = <<>>
    BY <1>3 DEF CrashRestart, Persistent, Snapshot
  <2>2. QED
    BY <1>1, <2>1, NothingPending
<1>4. QED
  BY <1>2, <1>3

(* Every step of the server keeps the snapshots loadable.                  *)
LEMMA PersistentStep ==
  ASSUME Persistent, [PNext]_pvars
  PROVE  Persistent'
<1>1. Structure /\ LongDeadlines
  BY DEF Persistent
<1>2. CASE [Next]_vars /\ UNCHANGED <<image, disk>>
  <2>1. Structure' /\ LongDeadlines'
    BY <1>1, <1>2, StructureStep, NextKeepsLong
  <2>2. QED
    BY <1>2, <2>1 DEF Persistent, Snapshot
<1>3. CASE Fork
  <2>1. Structure' /\ LongDeadlines'
    <3>1. UNCHANGED vars
      BY <1>3 DEF Fork
    <3>2. QED
      BY <1>1, <3>1, StructureStep, NextKeepsLong
  <2>2. Snapshot(image')
    BY <1>1, <1>3, ForkTakesSnapshot
  <2>3. disk' = disk
    BY <1>3 DEF Fork
  <2>4. QED
    BY <2>1, <2>2, <2>3 DEF Persistent
<1>4. CASE Saved
  <2>1. Structure' /\ LongDeadlines'
    <3>1. UNCHANGED vars
      BY <1>4 DEF Saved
    <3>2. QED
      BY <1>1, <3>1, StructureStep, NextKeepsLong
  <2>2. QED
    BY <1>4, <2>1 DEF Persistent, Saved
<1>5. CASE CrashRestart
  <2>1. Structure' /\ LongDeadlines'
    BY <1>5, RestartRestores
  <2>2. disk' = disk /\ image' = NoImage
    BY <1>5 DEF CrashRestart
  <2>3. QED
    BY <2>1, <2>2 DEF Persistent
<1>6. QED
  BY <1>2, <1>3, <1>4, <1>5 DEF PNext, pvars

(* So they are in every state.                                             *)
LEMMA PersistentInvariant == PSpec => []Persistent
<1>1. PInit => Persistent
  BY PInitPersistent
<1>2. Persistent /\ [PNext]_pvars => Persistent'
  BY PersistentStep
<1>3. QED
  BY <1>1, <1>2, PTL DEF PSpec

(* What DehydratorTypeRdbSave writes, DehydratorTypeRdbLoad reads back: a  *)
(* restart brings back the elements of the last complete snapshot, each    *)
(* with its payload, its id and its deadline, for any number of queues in  *)
(* any order, and for deadlines and queue keys that are negative as signed *)
(* numbers and unsigned in the file.                                       *)
THEOREM SnapshotsAreFaithful == PSpec => RestoredAsSaved
<1>1. Persistent /\ [PNext]_pvars => [CrashRestart => Pending' = disk.of]_pvars
  BY RestartRestores
<1>2. QED
  BY <1>1, PersistentInvariant, PTL DEF PSpec, RestoredAsSaved

(* What RdbLoad builds is linked and mapped like what the commands build,  *)
(* and stays so: no crash leaves an element that is queued and not mapped, *)
(* or mapped and not queued.                                               *)
THEOREM RestartsKeepMapsAgreed == PSpec => []MapsAgree
<1>1. Persistent => MapsAgree
  BY DEF Persistent, Structure
<1>2. QED
  BY <1>1, PersistentInvariant, PTL

----------------------------------------------------------------------------
(* The order of the queues, through restarts. *)

(* The snapshots were taken at some moment up to now.                      *)
TimelySnapshot(save) == save.type = "DEHYDRATOR" => Timely(save.stream, clock)

TimedPersistent ==
  /\ Timed
  /\ image # NoImage => TimelySnapshot(image)
  /\ TimelySnapshot(disk)

(* The clock may move on while a snapshot lies on disk.                    *)
LEMMA ClockKeepsSnapshots ==
  ASSUME NEW save, Snapshot(save), TimelySnapshot(save), clock \in Int, clock' \in Int, clock <= clock'
  PROVE  save.type = "DEHYDRATOR" => Timely(save.stream, clock')
  BY StaysTimely DEF Snapshot, Loadable, TimelySnapshot

(* Every step keeps the queues, and those of the snapshots, in order.      *)
LEMMA TimedPersistentStep ==
  ASSUME DistinctQueues, DeadlinesFit, SteadyClock, Persistent, TimedPersistent, [PNext]_pvars
  PROVE  TimedPersistent'
<1>1. Structure /\ LongDeadlines /\ Timed
  BY DEF Persistent, TimedPersistent
<1>2. clock \in Int
  BY <1>1, ClockAssumption DEF Structure, TypeOK
<1>3. CASE [Next]_vars /\ UNCHANGED <<image, disk>>
  <2>1. Timed'
    BY <1>1, <1>3, NextKeepsTimed
  <2>2. clock' \in Int /\ clock <= clock'
    <3>1. CASE UNCHANGED vars
      BY <1>2, <3>1 DEF vars
    <3>2. CASE Next
      <4>1. UNCHANGED clock \/ Tick \/ StepBack
        BY <1>1, <3>2, StoreSteps DEF Structure, MapsAgree
      <4>2. ~ StepBack
        BY DEF SteadyClock, StepBack
      <4>3. QED
        BY <1>2, <4>1, <4>2 DEF Tick
    <3>3. QED
      BY <1>3, <3>1, <3>2
  <2>3. image # NoImage => (image.type = "DEHYDRATOR" => Timely(image.stream, clock'))
    BY <1>2, <2>2, ClockKeepsSnapshots DEF Persistent, TimedPersistent
  <2>4. disk.type = "DEHYDRATOR" => Timely(disk.stream, clock')
    BY <1>2, <2>2, ClockKeepsSnapshots DEF Persistent, TimedPersistent
  <2>5. QED
    BY <1>3, <2>1, <2>3, <2>4 DEF TimedPersistent, TimelySnapshot
<1>4. CASE Fork
  <2>1. Timed' /\ clock' = clock /\ disk' = disk
    BY <1>1, <1>2, <1>4, ClockKeepsTimed DEF Fork, vars
  <2>2. image'.type = "DEHYDRATOR" => Timely(image'.stream, clock)
    <3>1. CASE keyType = "DEHYDRATOR"
      <4>1. PICK order \in SetToSeqs(DOMAIN timeout_queues) :
              image' = [type |-> keyType, stream |-> SaveStream(order), of |-> Pending]
        BY <1>4, <3>1 DEF Fork
      <4>2. Timely(SaveStream(order), clock)
        BY <1>1, SavedTimely
      <4>3. QED
        BY <4>1, <4>2
    <3>2. CASE keyType # "DEHYDRATOR"
      BY <1>4, <3>2 DEF Fork, Empty
    <3>3. QED
      BY <3>1, <3>2
  <2>3. QED
    BY <2>1, <2>2 DEF TimedPersistent, TimelySnapshot
<1>5. CASE Saved
  <2>1. Timed' /\ clock' = clock
    BY <1>1, <1>2, <1>5, ClockKeepsTimed DEF Saved, vars
  <2>2. QED
    BY <1>5, <2>1 DEF TimedPersistent, TimelySnapshot, Saved
<1>6. CASE CrashRestart
  <2>1. clock' = clock /\ disk' = disk /\ image' = NoImage
    BY <1>6 DEF CrashRestart
  <2>2. CASE disk.type = "DEHYDRATOR"
    <3>1. WellFormed(disk.stream) /\ Timely(disk.stream, clock)
      BY <2>2 DEF Persistent, Snapshot, Loadable, TimedPersistent, TimelySnapshot
    <3>2. PICK place : Built(disk.stream, place)
      BY <1>6, <2>2, <3>1, LoadBuilds DEF CrashRestart
    <3>3. Timed'
      BY <2>1, <3>1, <3>2, BuiltTimed
    <3>4. QED
      BY <2>1, <3>3 DEF TimedPersistent, TimelySnapshot
  <2>3. CASE disk.type # "DEHYDRATOR"
    <3>1. DOMAIN nodes' = {} /\ DOMAIN timeout_queues' = {}
      BY <1>6, <2>3 DEF CrashRestart
    <3>2. Timed'
      BY <3>1 DEF Timed, QueuesSorted, DeadlineBound, Dated
    <3>3. QED
      BY <2>1, <2>3, <3>2 DEF TimedPersistent, TimelySnapshot
  <2>4. QED
    BY <2>2, <2>3
<1>7. QED
  BY <1>3, <1>4, <1>5, <1>6 DEF PNext, pvars

(* A restart keeps each queue sorted by deadline: the nodes come back head *)
(* first, and what is pushed after a restart is due no earlier, however    *)
(* long the server was down.                                               *)
THEOREM RestartsKeepQueuesSorted ==
  ASSUME DistinctQueues, DeadlinesFit, SteadyClock
  PROVE  PSpec => []QueuesSorted
<1>1. PInit => TimedPersistent
  BY DEF PInit, Init, Empty, TimedPersistent, TimelySnapshot, Timed, QueuesSorted,
         DeadlineBound, Dated
<1>2. Persistent /\ TimedPersistent /\ [PNext]_pvars => TimedPersistent'
  BY TimedPersistentStep
<1>3. TimedPersistent => QueuesSorted
  BY DEF TimedPersistent, Timed
<1>4. QED
  BY <1>1, <1>2, <1>3, PersistentInvariant, PTL DEF PSpec
============================================================================
