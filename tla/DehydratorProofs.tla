-------------------------- MODULE DehydratorProofs -------------------------
(***************************************************************************)
(* The data structures of Dehydrator, proved sound for all values of its   *)
(* constants.  First what the recursive function Without returns, by       *)
(* induction; then the five ways a step changes the store; then that each  *)
(* of them keeps the inductive invariant Structure; then what the commands *)
(* that take elements out answer: an element that leaves is handed over,   *)
(* once and to one caller; then when the queues are sorted and what POLL,  *)
(* XPOLL and TTN find; last the refinement of DelayQueue, on commands that *)
(* do not meet what DelayQueue leaves out.                                 *)
(***************************************************************************)
EXTENDS Dehydrator, BasicLemmas

----------------------------------------------------------------------------
(* What Without returns. *)

(* The recursion of Without, read as an equation for f. *)
KeptStep(q, R, f) ==
  [i \in 0 .. Len(q) |->
     IF i = 0 THEN <<>>
     ELSE IF q[i] \in R THEN f[i - 1]
     ELSE Append(f[i - 1], q[i])]

Kept(q, R) == CHOOSE f : f = KeptStep(q, R, f)

(* Without, with its recursive function named.                             *)
LEMMA WithoutIsKept ==
  ASSUME NEW q, NEW R
  PROVE  Without(q, R) = Kept(q, R)[Len(q)]
  BY Zenon DEF Without, Kept, KeptStep

(* The recursion has a solution. *)
LEMMA KeptExists ==
  ASSUME NEW X, NEW q \in Seq(X), NEW R
  PROVE  Kept(q, R) = KeptStep(q, R, Kept(q, R))
<1> DEFINE Val(f, i) == IF i = 0 THEN <<>>
                        ELSE IF q[i] \in R THEN f[i - 1]
                        ELSE Append(f[i - 1], q[i])
<1> DEFINE Sol(n, f) == f = [i \in 0 .. n |-> Val(f, i)]
<1> DEFINE S == {n \in Nat : \E f : Sol(n, f)}
<1>1. 0 \in S
  <2>1. Sol(0, [i \in 0 .. 0 |-> <<>>])
    OBVIOUS
  <2>2. QED
    BY <2>1
<1>2. ASSUME NEW n \in Nat, n \in S
      PROVE  n + 1 \in S
  <2>1. PICK f : Sol(n, f)
    BY <1>2
  <2>2. \A i \in 0 .. n : f[i] = Val(f, i)
    BY <2>1
  <2> DEFINE g == [i \in 0 .. n + 1 |-> IF i <= n THEN f[i] ELSE Val(f, i)]
  <2>3. ASSUME NEW i \in 0 .. n + 1
        PROVE  g[i] = Val(g, i)
    <3>1. CASE i = 0
      BY <2>2, <3>1
    <3>2. CASE i \in 1 .. n + 1
      <4>1. g[i - 1] = f[i - 1]
        BY <3>2
      <4>2. g[i] = Val(f, i)
        BY <2>2, <3>2
      <4>3. QED
        BY <3>2, <4>1, <4>2
    <3>3. QED
      BY <3>1, <3>2
  <2>4. g = [i \in 0 .. n + 1 |-> g[i]]
    OBVIOUS
  <2> HIDE DEF g
  <2>5. Sol(n + 1, g)
    BY <2>3, <2>4
  <2> HIDE DEF Sol
  <2>6. \E h : Sol(n + 1, h)
    BY <2>5, Zenon
  <2>7. QED
    BY <2>6
<1>3. Nat \subseteq S
  <2> HIDE DEF S
  <2> QED
    BY <1>1, <1>2, SetInduction
<1>4. \E f : Sol(Len(q), f)
  <2>1. Len(q) \in Nat
    OBVIOUS
  <2> HIDE DEF Sol
  <2>2. Len(q) \in S
    BY <2>1, <1>3, Zenon
  <2>3. QED
    BY <2>2, Zenon
<1>5. QED
  BY <1>4, Zenon DEF Kept, KeptStep

(* One step of the recursion. *)
LEMMA KeptEquation ==
  ASSUME NEW X, NEW q \in Seq(X), NEW R
  PROVE  /\ Kept(q, R)[0] = <<>>
         /\ \A i \in 1 .. Len(q) :
              Kept(q, R)[i] = IF q[i] \in R THEN Kept(q, R)[i - 1]
                              ELSE Append(Kept(q, R)[i - 1], q[i])
<1>1. Len(q) \in Nat
  OBVIOUS
<1> DEFINE f == Kept(q, R)
<1>2. f = KeptStep(q, R, f)
  BY KeptExists
<1> HIDE DEF f
<1> DEFINE g == KeptStep(q, R, f)
<1>3. g[0] = <<>> /\ \A i \in 1 .. Len(q) :
              g[i] = IF q[i] \in R THEN f[i - 1] ELSE Append(f[i - 1], q[i])
  BY <1>1 DEF KeptStep
<1> HIDE DEF g
<1>4. f = g
  BY <1>2 DEF g
<1>5. QED
  BY <1>3, <1>4 DEF f

(* at lists the positions of the first n members of q that are not in R:   *)
(* s is what is left of these n members, in their order.                   *)
Thins(q, R, n, s, at) ==
  /\ at \in [DOMAIN s -> 1 .. n]
  /\ \A i \in DOMAIN s : s[i] = q[at[i]] /\ q[at[i]] \notin R
  /\ \A i, j \in DOMAIN s : i < j => at[i] < at[j]
  /\ \A m \in 1 .. n : q[m] \notin R => \E i \in DOMAIN s : at[i] = m

(* Without keeps the members that are not in R, and their order. *)
LEMMA WithoutThins ==
  ASSUME NEW X, NEW q \in Seq(X), NEW R
  PROVE  /\ Without(q, R) \in Seq(X)
         /\ \E at : Thins(q, R, Len(q), Without(q, R), at)
<1> DEFINE f == Kept(q, R)
<1> DEFINE P(n) == f[n] \in Seq(X) /\ \E at : Thins(q, R, n, f[n], at)
<1> DEFINE S == {n \in Nat : n <= Len(q) => P(n)}
<1>1. /\ f[0] = <<>>
      /\ \A i \in 1 .. Len(q) :
           f[i] = IF q[i] \in R THEN f[i - 1] ELSE Append(f[i - 1], q[i])
  BY KeptEquation
<1>2. Len(q) \in Nat /\ \A i \in 1 .. Len(q) : q[i] \in X
  OBVIOUS
<1> HIDE DEF f
<1>3. 0 \in S
  <2>1. Thins(q, R, 0, <<>>, <<>>)
    BY DEF Thins
  <2>2. P(0)
    BY <1>1, <2>1
  <2>3. QED
    BY <2>2
<1>4. ASSUME NEW n \in Nat, n \in S
      PROVE  n + 1 \in S
  <2>1. SUFFICES ASSUME n + 1 <= Len(q)
                 PROVE  P(n + 1)
    OBVIOUS
  <2>2. P(n)
    BY <1>2, <1>4, <2>1
  <2>3. PICK at : Thins(q, R, n, f[n], at)
    BY <2>2
  <2>4. f[n] \in Seq(X) /\ q[n + 1] \in X
    BY <1>2, <2>1, <2>2
  <2>5. f[n + 1] = IF q[n + 1] \in R THEN f[n] ELSE Append(f[n], q[n + 1])
    BY <1>1, <1>2, <2>1
  <2>6. CASE q[n + 1] \in R
    <3>1. Thins(q, R, n + 1, f[n], at)
      BY <2>3, <2>6 DEF Thins
    <3>2. QED
      BY <2>4, <2>5, <2>6, <3>1
  <2>7. CASE q[n + 1] \notin R
    <3> DEFINE s == f[n]
               t == Append(s, q[n + 1])
               bt == [i \in DOMAIN t |-> IF i \in DOMAIN s THEN at[i] ELSE n + 1]
    <3>1. /\ t \in Seq(X)
          /\ Len(s) \in Nat
          /\ DOMAIN s = 1 .. Len(s)
          /\ DOMAIN t = 1 .. Len(s) + 1
          /\ \A i \in DOMAIN s : t[i] = s[i]
          /\ t[Len(s) + 1] = q[n + 1]
      BY <2>4
    <3> HIDE DEF t, s
    <3>2. /\ \A i \in DOMAIN s : bt[i] = at[i]
          /\ bt[Len(s) + 1] = n + 1
          /\ DOMAIN bt = DOMAIN t
      BY <3>1
    <3>3. at \in [DOMAIN s -> 1 .. n]
      BY <2>3 DEF Thins, s
    <3>4. bt \in [DOMAIN t -> 1 .. n + 1]
      BY <3>1, <3>3
    <3> HIDE DEF bt
    <3>5. \A i \in DOMAIN t : t[i] = q[bt[i]] /\ q[bt[i]] \notin R
      <4>1. \A i \in DOMAIN s : s[i] = q[at[i]] /\ q[at[i]] \notin R
        BY <2>3 DEF Thins, s
      <4>2. QED
        BY <2>7, <3>1, <3>2, <4>1
    <3>6. \A i, j \in DOMAIN t : i < j => bt[i] < bt[j]
      <4>1. \A i, j \in DOMAIN s : i < j => at[i] < at[j]
        BY <2>3 DEF Thins, s
      <4>2. QED
        BY <3>1, <3>2, <3>3, <4>1
    <3>7. \A m \in 1 .. n + 1 : q[m] \notin R => \E i \in DOMAIN t : bt[i] = m
      <4>1. \A m \in 1 .. n : q[m] \notin R => \E i \in DOMAIN s : at[i] = m
        BY <2>3 DEF Thins, s
      <4>2. QED
        BY <3>1, <3>2, <4>1
    <3>8. Thins(q, R, n + 1, t, bt)
      BY <3>4, <3>5, <3>6, <3>7 DEF Thins
    <3>9. f[n + 1] = t
      BY <2>5, <2>7 DEF t, s
    <3>10. QED
      BY <3>1, <3>8, <3>9
  <2>8. QED
    BY <2>6, <2>7
<1>5. Nat \subseteq S
  <2> HIDE DEF S
  <2> QED
    BY <1>3, <1>4, SetInduction
<1>6. P(Len(q))
  BY <1>2, <1>5
<1>7. QED
  BY <1>6, WithoutIsKept DEF f

(* What is left are the nodes not taken out.                               *)
LEMMA WithoutRange ==
  ASSUME NEW X, NEW q \in Seq(X), NEW R
  PROVE  Range(Without(q, R)) = Range(q) \ R
<1> DEFINE w == Without(q, R)
<1>1. PICK at : Thins(q, R, Len(q), w, at)
  BY WithoutThins
<1>2. DOMAIN q = 1 .. Len(q)
  OBVIOUS
<1> HIDE DEF w
<1>3. /\ \A i \in DOMAIN w : at[i] \in DOMAIN q /\ w[i] = q[at[i]] /\ q[at[i]] \notin R
      /\ \A m \in DOMAIN q : q[m] \notin R => \E i \in DOMAIN w : at[i] = m
  BY <1>1, <1>2 DEF Thins
<1>4. Range(w) = Range(q) \ R
  BY <1>3 DEF Range
<1>5. QED
  BY <1>4 DEF w

(* None of them is there twice.                                            *)
LEMMA WithoutInjective ==
  ASSUME NEW X, NEW q \in Seq(X), NEW R, IsInjective(q)
  PROVE  IsInjective(Without(q, R))
<1> DEFINE w == Without(q, R)
<1>1. PICK at : Thins(q, R, Len(q), w, at)
  BY WithoutThins
<1>2. DOMAIN q = 1 .. Len(q)
  OBVIOUS
<1>3. DOMAIN w \subseteq Int
  BY WithoutThins
<1> HIDE DEF w
<1>4. ASSUME NEW i \in DOMAIN w, NEW j \in DOMAIN w, w[i] = w[j]
      PROVE  i = j
  <2>1. /\ at[i] \in 1 .. Len(q) /\ at[j] \in 1 .. Len(q)
        /\ q[at[i]] = q[at[j]]
    BY <1>1, <1>4 DEF Thins
  <2>2. at[i] = at[j]
    BY <1>2, <2>1 DEF IsInjective
  <2>3. ~ (i < j) /\ ~ (j < i)
    BY <1>1, <2>1, <2>2 DEF Thins
  <2>4. QED
    BY <1>3, <2>3
<1>5. IsInjective(w)
  BY <1>4 DEF IsInjective
<1>6. QED
  BY <1>5 DEF w

----------------------------------------------------------------------------
(* The ways a step changes the store. *)

(* A node is added for an id that has none. *)
Adds ==
  \E a \in Addr \ DOMAIN nodes, ttl \in Ttl, e \in Element, id \in Id :
    /\ ~ HasNode(id)
    /\ AddNode(a, ttl, e, id)
    /\ keyType' = "DEHYDRATOR"

(* The commands that take elements out. *)
Takes ==
  \/ \E id \in Id : PullCommand(id)
  \/ PollCommand
  \/ \E n \in 1 .. MaxAcks : \E ids \in [1 .. n -> Id] : XAckCommand(ids)

(* Allocated nodes are taken out and freed. *)
Removes ==
  /\ Takes
  /\ \E R \in SUBSET DOMAIN nodes : RemoveNodes(R) /\ keyType = "DEHYDRATOR"

(* A node gets another payload. *)
Updates ==
  \E a \in DOMAIN nodes, e \in Element :
    /\ nodes' = [nodes EXCEPT ![a].element = e]
    /\ UNCHANGED <<keyType, timeout_queues, element_nodes>>

(* The dehydrator is created empty, or nothing happens to it. *)
Keeps ==
  /\ keyType' \in {keyType, "DEHYDRATOR"}
  /\ UNCHANGED <<nodes, timeout_queues, element_nodes>>

(* The dehydrator is deleted. *)
Deletes == deleteDehydrator /\ keyType' \in {"EMPTY"} \cup Foreign

(* The scan meets allocated nodes.                                         *)
LEMMA DueAreNodes ==
  ASSUME QueuesHoldNodes
  PROVE  Due \subseteq DOMAIN nodes
  BY DEF Due, DueIn, QueuesHoldNodes

(* Every step of Next changes the store in one of these ways.              *)
LEMMA StoreSteps ==
  ASSUME QueuesHoldNodes, MappingLive, Next
  PROVE  \/ (Adds \/ Removes \/ Updates \/ Keeps \/ Deletes) /\ UNCHANGED clock
         \/ UNCHANGED store /\ (Tick \/ StepBack)
<1>1. ASSUME NEW t \in Ttl \cup BadTimeout, NEW e \in Element, NEW id \in Id,
             PushCommand(t, e, id)
      PROVE  (Adds \/ Keeps) /\ UNCHANGED clock
  BY <1>1 DEF PushCommand, PushRefused, OpenOrCreate, push_impl, Absent, Adds, Keeps, store
<1>2. ASSUME NEW t \in Ttl \cup BadTimeout, NEW e \in Element, GIDPushCommand(t, e)
      PROVE  (Adds \/ Keeps) /\ UNCHANGED clock
  BY <1>2, GidAssumption
     DEF GIDPushCommand, PushRefused, OpenOrCreate, push_impl, Absent, Adds, Keeps, store
<1>3. ASSUME NEW id \in Id, PullCommand(id)
      PROVE  (Removes \/ Keeps) /\ UNCHANGED clock
  <2>1. HasNode(id) => NodeFor(id) \in DOMAIN nodes
    BY DEF MappingLive, HasNode, NodeFor
  <2>2. HasNode(id) => {NodeFor(id)} \in SUBSET DOMAIN nodes
    BY <2>1
  <2>3. Takes
    BY <1>3 DEF Takes
  <2>4. QED
    BY <1>3, <2>2, <2>3 DEF PullCommand, Absent, Removes, Keeps, store
<1>4. ASSUME PollCommand
      PROVE  (Removes \/ Keeps) /\ UNCHANGED clock
  <2>1. Takes
    BY <1>4 DEF Takes
  <2>2. QED
    BY <1>4, <2>1, DueAreNodes DEF PollCommand, Absent, Removes, Keeps, store
<1>5. ASSUME XPollCommand
      PROVE  Keeps /\ UNCHANGED clock
  BY <1>5 DEF XPollCommand, Absent, Keeps, store
<1>6. ASSUME NEW n \in 1 .. MaxAcks, NEW ids \in [1 .. n -> Id], XAckCommand(ids)
      PROVE  (Removes \/ Keeps) /\ UNCHANGED clock
  <2>1. {NodeFor(ids[i]) : i \in Acked(ids)} \in SUBSET DOMAIN nodes
    BY DEF MappingLive, HasNode, NodeFor, Acked
  <2>2. Takes
    BY <1>6 DEF Takes
  <2>3. QED
    BY <1>6, <2>1, <2>2 DEF XAckCommand, Absent, Removes, Keeps, store
<1>7. ASSUME NEW id \in Id, LookCommand(id)
      PROVE  Keeps /\ UNCHANGED clock
  BY <1>7 DEF LookCommand, Absent, Keeps, store
<1>8. ASSUME NEW id \in Id, NEW e \in Element, UpdateCommand(id, e)
      PROVE  (Updates \/ Keeps) /\ UNCHANGED clock
  <2>1. HasNode(id) => NodeFor(id) \in DOMAIN nodes
    BY DEF MappingLive, HasNode, NodeFor
  <2>2. QED
    BY <1>8, <2>1 DEF UpdateCommand, Absent, Updates, Keeps, store
<1>9. ASSUME TimeToNextCommand \/ PrintCommand \/ BadArity
      PROVE  Keeps /\ UNCHANGED clock
  BY <1>9 DEF TimeToNextCommand, PrintCommand, BadArity, Absent, Keeps, store
<1>10. ASSUME DelKey \/ OverwriteKey
       PROVE  Deletes /\ UNCHANGED clock
  BY <1>10 DEF DelKey, OverwriteKey, Deletes
<1>11. ASSUME Tick \/ StepBack
       PROVE  UNCHANGED store
  BY <1>11 DEF Tick, StepBack
<1>12. QED
  BY <1>1, <1>2, <1>3, <1>4, <1>5, <1>6, <1>7, <1>8, <1>9, <1>10, <1>11
     DEF Next, Command

----------------------------------------------------------------------------
(* The inductive invariant.  None of its parts is inductive by itself: a   *)
(* node leaves the queue of its ttl only if it is filed there, and leaves  *)
(* the mapping only if the mapping has no other node under its id.         *)

Structure == TypeOK /\ MapsAgree /\ NoEmptyQueue

(* An empty key is sound.                                                  *)
LEMMA InitStructure == Init => Structure
  BY ClockAssumption
     DEF Init, Structure, TypeOK, MapsAgree, NoEmptyQueue, QueuesHoldNodes, LinkedOnce,
         NodesQueued, NodesMapped, MappingLive

(* A push links and maps its node.                                         *)
LEMMA AddsKeepStructure ==
  ASSUME Structure, Adds, UNCHANGED clock
  PROVE  Structure'
<1>1. PICK a \in Addr \ DOMAIN nodes, ttl \in Ttl, e \in Element, id \in Id :
        ~ HasNode(id) /\ AddNode(a, ttl, e, id) /\ keyType' = "DEHYDRATOR"
  BY DEF Adds
<1> DEFINE q == ToUint(ttl)
           key == CStr[id]
           old == QueueOf(q)
           new == Append(old, a)
<1>2. /\ DOMAIN nodes' = DOMAIN nodes \cup {a}
      /\ nodes'[a] = NewNode(ttl, e, id)
      /\ \A b \in DOMAIN nodes : nodes'[b] = nodes[b]
  <2>1. nodes' = Put(nodes, a, NewNode(ttl, e, id))
    BY <1>1 DEF AddNode
  <2>2. QED
    BY <2>1 DEF Put
<1>3. /\ DOMAIN timeout_queues' = DOMAIN timeout_queues \cup {q}
      /\ timeout_queues'[q] = new
      /\ \A t \in DOMAIN timeout_queues \ {q} : timeout_queues'[t] = timeout_queues[t]
  <2>1. timeout_queues' = Put(timeout_queues, q, new)
    BY <1>1 DEF AddNode
  <2> HIDE DEF new, q
  <2>2. QED
    BY <2>1 DEF Put
<1>4. /\ DOMAIN element_nodes' = DOMAIN element_nodes \cup {key}
      /\ element_nodes'[key] = a
      /\ \A k \in DOMAIN element_nodes : element_nodes'[k] = element_nodes[k]
      /\ key \notin DOMAIN element_nodes
  <2>1. element_nodes' = Put(element_nodes, key, a) /\ key \notin DOMAIN element_nodes
    BY <1>1 DEF AddNode, HasNode
  <2> HIDE DEF key
  <2>2. QED
    BY <2>1 DEF Put
<1>5. NewNode(ttl, e, id) \in Node /\ q \in 0 .. IntMod - 1
  <2>1. ttl \in Int /\ clock \in Int /\ ToUint(ttl) \in 0 .. IntMod - 1
    BY TtlAssumption, WidthAssumption, ClockAssumption DEF Structure, TypeOK, ToUint
  <2>2. ToLong(clock + ttl) \in Int
    BY <2>1, WidthAssumption DEF ToLong
  <2>3. QED
    BY <2>1, <2>2 DEF NewNode, Node
<1>6. NewNode(ttl, e, id).ttl = q /\ NewNode(ttl, e, id).element_id = id
  BY DEF NewNode
<1>7. /\ old \in Seq(Addr)
      /\ IsInjective(old)
      /\ \A i \in DOMAIN old : old[i] \in DOMAIN nodes /\ nodes[old[i]].ttl = q
      /\ \A t \in DOMAIN timeout_queues : t = q => timeout_queues[t] = old
  <2>1. CASE q \in DOMAIN timeout_queues
    BY <2>1 DEF QueueOf, Structure, TypeOK, MapsAgree, QueuesHoldNodes, LinkedOnce
  <2>2. CASE q \notin DOMAIN timeout_queues
    BY <2>2 DEF QueueOf, IsInjective
  <2>3. QED
    BY <2>1, <2>2
<1>8. a \notin Range(old)
  BY <1>7 DEF Range
<1> HIDE DEF old, q, key
<1>9. /\ new \in Seq(Addr)
      /\ new # <<>>
      /\ DOMAIN old \subseteq DOMAIN new
      /\ \A i \in DOMAIN old : new[i] = old[i]
      /\ \A i \in DOMAIN new : new[i] = a \/ i \in DOMAIN old
      /\ \E i \in DOMAIN new : new[i] = a
  <2>1. /\ Len(old) \in Nat /\ DOMAIN old = 1 .. Len(old)
        /\ DOMAIN new = 1 .. Len(old) + 1
        /\ \A i \in 1 .. Len(old) : new[i] = old[i]
        /\ new[Len(old) + 1] = a
        /\ new \in Seq(Addr)
    BY <1>7
  <2> HIDE DEF new
  <2>2. new # <<>>
    BY <2>1
  <2>3. QED
    BY <2>1, <2>2
<1>10. IsInjective(new)
  BY <1>7, <1>8, AppendKeepsInjective
<1> HIDE DEF new
<1>11. TypeOK'
  BY <1>1, <1>2, <1>3, <1>4, <1>5, <1>9 DEF Structure, TypeOK, Node
<1>12. QueuesHoldNodes'
  <2>1. QueuesHoldNodes
    BY DEF Structure, MapsAgree
  <2>2. ASSUME NEW t \in DOMAIN timeout_queues', NEW i \in DOMAIN timeout_queues'[t]
        PROVE  /\ timeout_queues'[t][i] \in DOMAIN nodes'
               /\ nodes'[timeout_queues'[t][i]].ttl = t
    <3>1. CASE t = q
      BY <3>1, <1>2, <1>3, <1>6, <1>7, <1>9
    <3>2. CASE t # q
      BY <3>2, <2>1, <1>2, <1>3 DEF QueuesHoldNodes
    <3>3. QED
      BY <3>1, <3>2
  <2>3. QED
    BY <2>2 DEF QueuesHoldNodes
<1>13. LinkedOnce'
  BY <1>3, <1>10 DEF Structure, MapsAgree, LinkedOnce
<1>14. NodesQueued'
  <2>1. NodesQueued
    BY DEF Structure, MapsAgree
  <2>2. ASSUME NEW b \in DOMAIN nodes'
        PROVE  /\ nodes'[b].ttl \in DOMAIN timeout_queues'
               /\ \E i \in DOMAIN timeout_queues'[nodes'[b].ttl] :
                    timeout_queues'[nodes'[b].ttl][i] = b
    <3>1. CASE b = a
      BY <3>1, <1>2, <1>3, <1>6, <1>9
    <3>2. CASE b # a
      <4>1. /\ b \in DOMAIN nodes
            /\ nodes'[b] = nodes[b]
        BY <3>2, <1>2
      <4>2. PICK i \in DOMAIN timeout_queues[nodes[b].ttl] :
              timeout_queues[nodes[b].ttl][i] = b
        BY <2>1, <4>1 DEF NodesQueued
      <4>3. nodes[b].ttl \in DOMAIN timeout_queues
        BY <2>1, <4>1 DEF NodesQueued
      <4>4. CASE nodes[b].ttl = q
        BY <4>1, <4>2, <4>3, <4>4, <1>3, <1>7, <1>9
      <4>5. CASE nodes[b].ttl # q
        BY <4>1, <4>2, <4>3, <4>5, <1>3
      <4>6. QED
        BY <4>4, <4>5
    <3>3. QED
      BY <3>1, <3>2
  <2>3. QED
    BY <2>2 DEF NodesQueued
<1>15. NodesMapped'
  <2>1. NodesMapped
    BY DEF Structure, MapsAgree
  <2>2. key = CStr[id]
    BY DEF key
  <2>3. QED
    BY <1>2, <1>4, <1>6, <2>1, <2>2 DEF NodesMapped
<1>16. MappingLive'
  <2>1. MappingLive
    BY DEF Structure, MapsAgree
  <2>2. key = CStr[id]
    BY DEF key
  <2>3. QED
    BY <1>2, <1>4, <1>6, <2>1, <2>2 DEF MappingLive
<1>17. NoEmptyQueue'
  BY <1>3, <1>9 DEF Structure, NoEmptyQueue
<1>18. QED
  BY <1>1, <1>11, <1>12, <1>13, <1>14, <1>15, <1>16, <1>17 DEF Structure, MapsAgree

(* A sequence is empty exactly when it has no members. *)
LEMMA EmptyRange ==
  ASSUME NEW X, NEW q \in Seq(X)
  PROVE  q # <<>> <=> \E x : x \in Range(q)
<1>1. Len(q) \in Nat /\ DOMAIN q = 1 .. Len(q) /\ (q # <<>> <=> Len(q) # 0)
  OBVIOUS
<1>2. CASE q = <<>>
  BY <1>2 DEF Range
<1>3. CASE q # <<>>
  <2>1. 1 \in DOMAIN q
    BY <1>1, <1>3
  <2>2. q[1] \in Range(q)
    BY <2>1 DEF Range
  <2>3. QED
    BY <1>3, <2>2
<1>4. QED
  BY <1>2, <1>3

(* Whatever set of nodes is taken out, the rest stay linked and mapped.    *)
LEMMA RemovesKeepStructure ==
  ASSUME Structure, Removes, UNCHANGED clock
  PROVE  Structure'
<1>1. PICK R \in SUBSET DOMAIN nodes : RemoveNodes(R) /\ keyType = "DEHYDRATOR"
  BY DEF Removes
<1> DEFINE left(t) == Without(timeout_queues[t], {a \in R : nodes[a].ttl = t})
<1>2. /\ DOMAIN nodes' = DOMAIN nodes \ R
      /\ \A a \in DOMAIN nodes' : nodes'[a] = nodes[a]
  BY <1>1 DEF RemoveNodes, Restrict
<1>3. /\ DOMAIN timeout_queues' = {t \in DOMAIN timeout_queues : left(t) # <<>>}
      /\ \A t \in DOMAIN timeout_queues' : timeout_queues'[t] = left(t)
  BY <1>1 DEF RemoveNodes, Unlinked, Restrict
<1>4. /\ DOMAIN element_nodes' =
           DOMAIN element_nodes \ {CStr[nodes[a].element_id] : a \in R}
      /\ \A k \in DOMAIN element_nodes' : element_nodes'[k] = element_nodes[k]
  BY <1>1 DEF RemoveNodes, Unmapped, Restrict
<1>5. ASSUME NEW t \in DOMAIN timeout_queues
      PROVE  /\ left(t) \in Seq(Addr)
             /\ IsInjective(left(t))
             /\ Range(left(t)) = Range(timeout_queues[t]) \ R
             /\ left(t) # <<>> <=> \E a : a \in Range(left(t))
  <2>1. timeout_queues[t] \in Seq(Addr) /\ IsInjective(timeout_queues[t])
    BY DEF Structure, TypeOK, MapsAgree, LinkedOnce
  <2>2. \A a \in Range(timeout_queues[t]) : nodes[a].ttl = t
    BY DEF Structure, MapsAgree, QueuesHoldNodes, Range
  <2>3. Range(left(t)) = Range(timeout_queues[t]) \ {a \in R : nodes[a].ttl = t}
    BY <2>1, WithoutRange
  <2>4. left(t) \in Seq(Addr) /\ IsInjective(left(t))
    BY <2>1, WithoutThins, WithoutInjective
  <2> HIDE DEF left
  <2>5. QED
    BY <2>2, <2>3, <2>4, EmptyRange
<1> HIDE DEF left
<1>6. TypeOK'
  BY <1>1, <1>2, <1>3, <1>4, <1>5 DEF Structure, TypeOK, RemoveNodes
<1>7. \A t \in DOMAIN timeout_queues' :
        t \in DOMAIN timeout_queues /\ Range(timeout_queues'[t]) = Range(timeout_queues[t]) \ R
  BY <1>3, <1>5
<1>8. \A t \in DOMAIN timeout_queues : \A a \in Range(timeout_queues[t]) :
        a \in DOMAIN nodes /\ nodes[a].ttl = t
  BY DEF Structure, MapsAgree, QueuesHoldNodes, Range
<1>9. QueuesHoldNodes'
  <2>1. \A t \in DOMAIN timeout_queues' : \A a \in Range(timeout_queues'[t]) :
          a \in DOMAIN nodes' /\ nodes'[a].ttl = t
    BY <1>2, <1>7, <1>8
  <2>2. QED
    BY <2>1 DEF QueuesHoldNodes, Range
<1>10. LinkedOnce'
  BY <1>3, <1>5 DEF LinkedOnce
<1>11. NodesQueued'
  <2>1. ASSUME NEW a \in DOMAIN nodes'
        PROVE  /\ nodes'[a].ttl \in DOMAIN timeout_queues'
               /\ a \in Range(timeout_queues'[nodes'[a].ttl])
    <3>1. a \in DOMAIN nodes \ R /\ nodes'[a] = nodes[a]
      BY <1>2
    <3>2. /\ nodes[a].ttl \in DOMAIN timeout_queues
          /\ a \in Range(timeout_queues[nodes[a].ttl])
      BY <3>1 DEF Structure, MapsAgree, NodesQueued, Range
    <3>3. a \in Range(left(nodes[a].ttl))
      BY <3>1, <3>2, <1>5
    <3>4. nodes[a].ttl \in DOMAIN timeout_queues'
      BY <3>2, <3>3, <1>3, <1>5
    <3>5. QED
      BY <3>1, <3>3, <3>4, <1>3
  <2>2. QED
    BY <2>1 DEF NodesQueued, Range
<1>12. NodesMapped'
  <2>1. NodesMapped
    BY DEF Structure, MapsAgree
  <2>2. ASSUME NEW a \in DOMAIN nodes'
        PROVE  CStr[nodes[a].element_id] \notin {CStr[nodes[b].element_id] : b \in R}
    BY <1>2, <2>1 DEF NodesMapped
  <2>3. QED
    BY <1>2, <1>4, <2>1, <2>2 DEF NodesMapped
<1>13. MappingLive'
  <2>1. MappingLive
    BY DEF Structure, MapsAgree
  <2>2. QED
    BY <1>2, <1>4, <2>1 DEF MappingLive
<1>14. NoEmptyQueue'
  BY <1>3 DEF NoEmptyQueue
<1>15. keyType' = "DEHYDRATOR"
  BY <1>1 DEF RemoveNodes
<1>16. QED
  BY <1>6, <1>9, <1>10, <1>11, <1>12, <1>13, <1>14, <1>15 DEF Structure, MapsAgree

(* UPDATE leaves id and ttl alone.                                         *)
LEMMA UpdatesKeepStructure ==
  ASSUME Structure, Updates, UNCHANGED clock
  PROVE  Structure'
<1>1. PICK a \in DOMAIN nodes, e \in Element :
        /\ nodes' = [nodes EXCEPT ![a].element = e]
        /\ UNCHANGED <<keyType, timeout_queues, element_nodes>>
  BY DEF Updates
<1>2. DOMAIN nodes' = DOMAIN nodes
  BY <1>1
<1>3. \A b \in DOMAIN nodes : nodes[b] \in Node
  BY DEF Structure, TypeOK
<1>4. \A b \in DOMAIN nodes : /\ nodes'[b] \in Node
                              /\ nodes'[b].ttl = nodes[b].ttl
                              /\ nodes'[b].element_id = nodes[b].element_id
  BY <1>1, <1>3 DEF Node
<1>5. TypeOK'
  BY <1>1, <1>2, <1>4 DEF Structure, TypeOK
<1>6. MapsAgree'
  BY <1>1, <1>2, <1>4
     DEF Structure, MapsAgree, QueuesHoldNodes, LinkedOnce, NodesQueued, NodesMapped, MappingLive
<1>7. NoEmptyQueue'
  BY <1>1 DEF Structure, NoEmptyQueue
<1>8. QED
  BY <1>5, <1>6, <1>7 DEF Structure

(* A step on the clock or the replies breaks nothing.                      *)
LEMMA KeepsKeepStructure ==
  ASSUME Structure, Keeps, clock' \in 0 .. MaxClock
  PROVE  Structure'
<1>1. TypeOK'
  BY DEF Keeps, Structure, TypeOK, Node
<1>2. MapsAgree'
  BY DEF Keeps, Structure, MapsAgree, QueuesHoldNodes, LinkedOnce, NodesQueued,
         NodesMapped, MappingLive
<1>3. NoEmptyQueue'
  BY DEF Keeps, Structure, NoEmptyQueue
<1>4. QED
  BY <1>1, <1>2, <1>3 DEF Structure

(* DEL frees every node, since every node is queued.                       *)
LEMMA DeletesKeepStructure ==
  ASSUME Structure, Deletes, UNCHANGED clock
  PROVE  Structure'
<1>1. DOMAIN nodes \subseteq Queued
  BY DEF Structure, MapsAgree, NodesQueued, Queued, Range
<1>2. DOMAIN nodes' = {} /\ DOMAIN timeout_queues' = {} /\ DOMAIN element_nodes' = {}
  BY <1>1 DEF Deletes, deleteDehydrator, Restrict
<1>3. keyType' \in {"EMPTY"} \cup Foreign
  BY DEF Deletes
<1>4. TypeOK'
  BY <1>2, <1>3 DEF Structure, TypeOK
<1>5. MapsAgree' /\ NoEmptyQueue'
  BY <1>2 DEF MapsAgree, QueuesHoldNodes, LinkedOnce, NodesQueued, NodesMapped,
              MappingLive, NoEmptyQueue
<1>6. QED
  BY <1>4, <1>5 DEF Structure

(* Every step keeps the dehydrator sound.                                  *)
LEMMA StructureStep ==
  ASSUME Structure, [Next]_vars
  PROVE  Structure'
<1>1. CASE UNCHANGED vars
  <2>1. Keeps /\ clock' \in 0 .. MaxClock
    BY <1>1 DEF vars, Keeps, Structure, TypeOK
  <2>2. QED
    BY <2>1, KeepsKeepStructure
<1>2. CASE Next
  <2>1. \/ (Adds \/ Removes \/ Updates \/ Keeps \/ Deletes) /\ UNCHANGED clock
        \/ UNCHANGED store /\ (Tick \/ StepBack)
    BY <1>2, StoreSteps DEF Structure, MapsAgree
  <2>2. CASE Adds /\ UNCHANGED clock
    BY <2>2, AddsKeepStructure
  <2>3. CASE Removes /\ UNCHANGED clock
    BY <2>3, RemovesKeepStructure
  <2>4. CASE Updates /\ UNCHANGED clock
    BY <2>4, UpdatesKeepStructure
  <2>5. CASE Keeps /\ UNCHANGED clock
    <3>1. clock' \in 0 .. MaxClock
      BY <2>5 DEF Structure, TypeOK
    <3>2. QED
      BY <2>5, <3>1, KeepsKeepStructure
  <2>6. CASE Deletes /\ UNCHANGED clock
    BY <2>6, DeletesKeepStructure
  <2>7. CASE UNCHANGED store /\ (Tick \/ StepBack)
    <3>1. clock' \in 0 .. MaxClock
      BY <2>7, ClockAssumption DEF Structure, TypeOK, Tick, StepBack
    <3>2. Keeps
      BY <2>7 DEF Keeps, store
    <3>3. QED
      BY <3>1, <3>2, KeepsKeepStructure
  <2>8. QED
    BY <2>1, <2>2, <2>3, <2>4, <2>5, <2>6, <2>7
<1>3. QED
  BY <1>1, <1>2

(* The data structures of a dehydrator are sound in every reachable state, *)
(* whatever timeouts and ids clients send, whatever the wall clock does    *)
(* and whatever else happens to the key.                                   *)
THEOREM StructureInvariant == Spec => []Structure
<1>1. Init => Structure
  BY InitStructure
<1>2. Structure /\ [Next]_vars => Structure'
  BY StructureStep
<1>3. QED
  BY <1>1, <1>2, PTL DEF Spec

(* The maps of the Dehydrator struct keep their types: a timeout is filed  *)
(* under 32 bits and every stored pointer is a node address.               *)
THEOREM TypeCorrect == Spec => []TypeOK
<1>1. Structure => TypeOK
  BY DEF Structure
<1>2. QED
  BY <1>1, StructureInvariant, PTL

(* timeout_queues, element_nodes and the allocated nodes describe the same *)
(* elements: no command leaves a pointer to a freed node, links a node     *)
(* twice, or loses one.                                                    *)
THEOREM MapsAlwaysAgree == Spec => []MapsAgree
<1>1. Structure => MapsAgree
  BY DEF Structure
<1>2. QED
  BY <1>1, StructureInvariant, PTL

(* PULL, XACK and POLL all drop a queue together with its last node.       *)
THEOREM NeverAnEmptyQueue == Spec => []NoEmptyQueue
<1>1. Structure => NoEmptyQueue
  BY DEF Structure
<1>2. QED
  BY <1>1, StructureInvariant, PTL

----------------------------------------------------------------------------
(* What a scan returns. *)

(* Whatever the order of the buckets, a scan meets the due nodes, each     *)
(* once.                                                                   *)
LEMMA ScanIsDue ==
  ASSUME Structure, NEW order \in SetToSeqs(DOMAIN timeout_queues)
  PROVE  /\ Scan(order) \in Seq(Addr)
         /\ IsInjective(Scan(order))
         /\ Range(Scan(order)) = Due
<1> DEFINE T == DOMAIN timeout_queues
           late == DOMAIN nodes \ Due
           part(t) == Without(timeout_queues[t], late)
           seqs == [i \in DOMAIN order |-> part(order[i])]
<1>1. order \in Seq(T) /\ IsInjective(order) /\ Range(order) = T
  <2>1. T \subseteq 0 .. IntMod - 1 /\ IsFiniteSet(0 .. IntMod - 1)
    BY WidthAssumption, FS_Interval DEF Structure, TypeOK
  <2>2. IsFiniteSet(T)
    BY <2>1, FS_Subset
  <2>3. QED
    BY <2>2, ArrangementIsFull
<1>2. ASSUME NEW t \in T
      PROVE  /\ part(t) \in Seq(Addr)
             /\ IsInjective(part(t))
             /\ Range(part(t)) = Range(timeout_queues[t]) \ late
             /\ \A a \in Range(timeout_queues[t]) : a \in DOMAIN nodes /\ nodes[a].ttl = t
  <2>1. timeout_queues[t] \in Seq(Addr) /\ IsInjective(timeout_queues[t])
    BY DEF Structure, TypeOK, MapsAgree, LinkedOnce
  <2>2. \A a \in Range(timeout_queues[t]) : a \in DOMAIN nodes /\ nodes[a].ttl = t
    BY DEF Structure, MapsAgree, QueuesHoldNodes, Range
  <2>3. QED
    BY <2>1, <2>2, WithoutThins, WithoutRange, WithoutInjective
<1> HIDE DEF part
<1>3. DOMAIN order = 1 .. Len(order) /\ Len(order) \in Nat /\ \A i \in DOMAIN order : order[i] \in T
  BY <1>1
<1>4. /\ seqs \in Seq(Seq(Addr))
      /\ DOMAIN seqs = DOMAIN order
      /\ \A i \in DOMAIN seqs : seqs[i] = part(order[i])
  BY <1>2, <1>3
<1>5. \A i \in DOMAIN seqs : IsInjective(seqs[i])
  BY <1>2, <1>3, <1>4
<1>6. ASSUME NEW i \in DOMAIN seqs, NEW j \in DOMAIN seqs, i # j
      PROVE  Range(seqs[i]) \cap Range(seqs[j]) = {}
  <2>1. order[i] # order[j]
    BY <1>1, <1>4, <1>6 DEF IsInjective
  <2>2. \A a \in Range(seqs[i]) : nodes[a].ttl = order[i]
    BY <1>2, <1>3, <1>4
  <2>3. \A a \in Range(seqs[j]) : nodes[a].ttl = order[j]
    BY <1>2, <1>3, <1>4
  <2>4. QED
    BY <2>1, <2>2, <2>3
<1>7. Scan(order) = FlattenSeq(seqs)
  BY DEF Scan, part
<1> HIDE DEF seqs
<1>8. /\ Scan(order) \in Seq(Addr)
      /\ IsInjective(Scan(order))
      /\ Range(Scan(order)) = UNION {Range(seqs[i]) : i \in DOMAIN seqs}
  BY <1>4, <1>5, <1>6, <1>7, FlattenInjective
<1>9. ASSUME NEW a
      PROVE  a \in Range(Scan(order)) <=> a \in Due
  <2>1. ASSUME a \in Range(Scan(order))
        PROVE  a \in Due
    <3>1. PICK i \in DOMAIN seqs : a \in Range(seqs[i])
      BY <1>8, <2>1
    <3>2. order[i] \in T /\ a \in Range(timeout_queues[order[i]]) \ late
      BY <1>2, <1>3, <1>4, <3>1
    <3>3. QED
      BY <1>2, <3>2
  <2>2. ASSUME a \in Due
        PROVE  a \in Range(Scan(order))
    <3>1. PICK t \in T : a \in DueIn(timeout_queues[t])
      BY <2>2 DEF Due
    <3>2. a \in Range(timeout_queues[t])
      BY <3>1 DEF DueIn, Range
    <3>3. PICK i \in DOMAIN order : order[i] = t
      BY <1>1 DEF Range
    <3>4. a \in Range(seqs[i]) /\ i \in DOMAIN seqs
      BY <1>2, <1>4, <2>2, <3>2, <3>3
    <3>5. QED
      BY <1>8, <3>4
  <2>3. QED
    BY <2>1, <2>2
<1>10. QED
  BY <1>8, <1>9

(* An array answers the nodes f[i], i \in P, when its positions in P hold   *)
(* the elements of these nodes, which are all different, and the others    *)
(* are null.                                                               *)
Answers(array, n, P, f) ==
  /\ n \in Nat /\ P \subseteq 1 .. n
  /\ \A i, j \in P : f[i] = f[j] => i = j
  /\ \A i \in P : array[i] = BulkReply(nodes[f[i]].element)
  /\ \A i \in (1 .. n) \ P : array[i] = NullReply

(* The answered nodes with an element, and the positions that hold it. *)
NodesWith(P, f, e) == {a \in {f[i] : i \in P} : nodes[a].element = e}
PositionsOf(array, n, e) == {i \in 1 .. n : array[i] = BulkReply(e)}

(* An array that answers each node once counts the payloads right.         *)
LEMMA ArrayCounts ==
  ASSUME NEW array, NEW n, NEW P, NEW f, Answers(array, n, P, f), NEW e
  PROVE  Cardinality(NodesWith(P, f, e)) = Cardinality(PositionsOf(array, n, e))
<1> DEFINE S == PositionsOf(array, n, e)
           T == NodesWith(P, f, e)
           g == [i \in S |-> f[i]]
<1>1. /\ \A d : BulkReply(d) = BulkReply(e) <=> d = e
      /\ NullReply # BulkReply(e)
  BY DEF BulkReply, NullReply
<1>2. \A i : i \in S <=> i \in P /\ nodes[f[i]].element = e
  BY <1>1 DEF Answers, PositionsOf
<1>3. \A a : a \in T <=> \E i \in P : a = f[i] /\ nodes[a].element = e
  BY DEF NodesWith
<1>4. IsFiniteSet(S)
  <2>1. S \in SUBSET (1 .. n) /\ IsFiniteSet(1 .. n)
    BY FS_Interval DEF PositionsOf, Answers
  <2>2. QED
    BY <2>1, FS_Subset
<1> HIDE DEF S, T
<1>5. g \in [S -> T]
  BY <1>2, <1>3
<1>6. \A i, j \in S : g[i] = g[j] => i = j
  BY <1>2 DEF Answers
<1>7. \A a \in T : \E i \in S : g[i] = a
  BY <1>2, <1>3
<1> HIDE DEF g
<1>8. Cardinality(T) = Cardinality(S)
  BY <1>4, <1>5, <1>6, <1>7, BijectionCounts
<1>9. QED
  BY <1>8 DEF S, T

(* The scan stops before a node that has not expired.                      *)
LEMMA DueExpired ==
  ASSUME Structure
  PROVE  \A a \in Due : Expired(a)
<1>1. ASSUME NEW t \in DOMAIN timeout_queues, NEW a \in DueIn(timeout_queues[t])
      PROVE  Expired(a)
  <2>1. PICK i \in DOMAIN timeout_queues[t] :
          a = timeout_queues[t][i] /\ \A j \in 1 .. i : Expired(timeout_queues[t][j])
    BY <1>1 DEF DueIn
  <2>2. i \in 1 .. i
    BY DEF Structure, TypeOK
  <2>3. QED
    BY <2>1, <2>2
<1>2. QED
  BY <1>1 DEF Due

(* PULL answers the one element it takes.                                  *)
LEMMA PullDelivers ==
  ASSUME Structure, NEW id \in Id, PullCommand(id), Gone # {}
  PROVE  Delivers
<1>1. /\ HasNode(id)
      /\ RemoveNodes({NodeFor(id)})
      /\ replies' = <<BulkReply(nodes[NodeFor(id)].element)>>
  BY DEF PullCommand, Absent, Gone, store, Answer
<1>2. NodeFor(id) \in DOMAIN nodes
  BY <1>1 DEF Structure, MapsAgree, MappingLive, HasNode, NodeFor
<1>3. Gone = {NodeFor(id)}
  BY <1>1, <1>2 DEF RemoveNodes, Restrict, Gone
<1>4. Len(replies') = 1
  BY <1>1
<1>5. QED
  BY <1>1, <1>3, <1>4 DEF Delivers

(* POLL answers the elements it takes, all expired.                        *)
LEMMA PollDelivers ==
  ASSUME Structure, PollCommand, Gone # {}
  PROVE  Delivers
<1>1. /\ RemoveNodes(Due)
      /\ \E order \in SetToSeqs(DOMAIN timeout_queues) :
           replies' = <<ArrayReply([i \in DOMAIN Scan(order) |->
                                     BulkReply(nodes[Scan(order)[i]].element)])>>
  BY DEF PollCommand, Absent, Gone, store, Answer
<1>2. PICK order \in SetToSeqs(DOMAIN timeout_queues) :
        replies' = <<ArrayReply([i \in DOMAIN Scan(order) |->
                                  BulkReply(nodes[Scan(order)[i]].element)])>>
  BY <1>1
<1> DEFINE due == Scan(order)
           array == [i \in DOMAIN due |-> BulkReply(nodes[due[i]].element)]
<1>3. due \in Seq(Addr) /\ IsInjective(due) /\ Range(due) = Due
  BY ScanIsDue
<1>4. Due \subseteq DOMAIN nodes
  BY DueAreNodes DEF Structure, MapsAgree
<1>5. Gone = Due
  BY <1>1, <1>4 DEF RemoveNodes, Restrict, Gone
<1>6. replies' = <<[array |-> array]>>
  BY <1>2 DEF ArrayReply
<1> HIDE DEF due
<1>7. Len(due) \in Nat /\ DOMAIN due = 1 .. Len(due)
  BY <1>3
<1>8. DOMAIN array = 1 .. Len(due)
  BY <1>7
<1>9. \A i \in 1 .. Len(due) : array[i] = BulkReply(nodes[due[i]].element)
  BY <1>7
<1>10. \A i, j \in 1 .. Len(due) : due[i] = due[j] => i = j
  BY <1>3, <1>7 DEF IsInjective
<1>11. \A a : a \in Due <=> \E i \in 1 .. Len(due) : a = due[i]
  BY <1>3, <1>7 DEF Range
<1> HIDE DEF array
<1>12. ASSUME NEW e \in Element
       PROVE  Cardinality({a \in Due : nodes[a].element = e})
                = Cardinality({i \in DOMAIN array : array[i] = BulkReply(e)})
  <2> DEFINE P == 1 .. Len(due)
  <2>1. Answers(array, Len(due), P, due)
    BY <1>7, <1>9, <1>10 DEF Answers
  <2>2. Cardinality(NodesWith(P, due, e)) = Cardinality(PositionsOf(array, Len(due), e))
    BY <2>1, ArrayCounts
  <2>3. NodesWith(P, due, e) = {a \in Due : nodes[a].element = e}
    BY <1>11 DEF NodesWith
  <2>4. PositionsOf(array, Len(due), e) = {i \in DOMAIN array : array[i] = BulkReply(e)}
    BY <1>8 DEF PositionsOf
  <2>5. QED
    BY <2>2, <2>3, <2>4
<1>13. /\ Len(replies') = 1
       /\ replies'[1].array = array
       /\ "array" \in DOMAIN replies'[1]
  BY <1>6
<1>14. QED
  BY <1>5, <1>12, <1>13, DueExpired DEF Delivers

(* XACK does, even when its ids repeat.                                    *)
LEMMA XAckDelivers ==
  ASSUME Structure, NEW n \in 1 .. MaxAcks, NEW ids \in [1 .. n -> Id],
         XAckCommand(ids), Gone # {}
  PROVE  Delivers
<1> DEFINE P == Acked(ids)
           f == [i \in P |-> NodeFor(ids[i])]
           array == [i \in DOMAIN ids |-> IF i \in P THEN BulkReply(nodes[NodeFor(ids[i])].element)
                                          ELSE NullReply]
<1>1. /\ RemoveNodes({NodeFor(ids[i]) : i \in P})
      /\ replies' = <<[array |-> array]>>
  BY DEF XAckCommand, Absent, Gone, store, Answer, ArrayReply
<1>2. /\ P \subseteq 1 .. n
      /\ \A i \in P : HasNode(ids[i]) /\ Expired(NodeFor(ids[i]))
      /\ \A i \in P : \A j \in 1 .. i - 1 : CStr[ids[j]] # CStr[ids[i]]
  BY DEF Acked
<1> HIDE DEF P
<1>3. \A i \in P : /\ NodeFor(ids[i]) \in DOMAIN nodes
                   /\ CStr[nodes[NodeFor(ids[i])].element_id] = CStr[ids[i]]
  BY <1>2 DEF Structure, MapsAgree, MappingLive, HasNode, NodeFor
<1>4. ASSUME NEW i \in P, NEW j \in P, f[i] = f[j]
      PROVE  i = j
  <2>1. CStr[ids[i]] = CStr[ids[j]]
    BY <1>3, <1>4
  <2>2. i \in 1 .. n /\ j \in 1 .. n
    BY <1>2
  <2>3. ~ (i < j) /\ ~ (j < i)
    <3>1. i < j => i \in 1 .. j - 1
      BY <2>2
    <3>2. j < i => j \in 1 .. i - 1
      BY <2>2
    <3>3. QED
      BY <1>2, <2>1, <3>1, <3>2
  <2>4. QED
    BY <2>2, <2>3
<1>5. \A i \in P : f[i] = NodeFor(ids[i])
  OBVIOUS
<1>6. \A a : a \in Gone <=> \E i \in P : a = f[i]
  BY <1>1, <1>3, <1>5 DEF RemoveNodes, Restrict, Gone
<1>7. /\ DOMAIN array = 1 .. n
      /\ \A i \in P : array[i] = BulkReply(nodes[f[i]].element)
      /\ \A i \in (1 .. n) \ P : array[i] = NullReply
  BY <1>2, <1>5
<1> HIDE DEF f, array
<1>8. ASSUME NEW e \in Element
      PROVE  Cardinality({a \in Gone : nodes[a].element = e})
               = Cardinality({i \in DOMAIN array : array[i] = BulkReply(e)})
  <2>1. n \in Nat /\ P \subseteq 1 .. n
    BY <1>2
  <2>2. Answers(array, n, P, f)
    BY <1>4, <1>7, <2>1 DEF Answers
  <2>3. Cardinality(NodesWith(P, f, e)) = Cardinality(PositionsOf(array, n, e))
    BY <2>2, ArrayCounts
  <2>4. NodesWith(P, f, e) = {a \in Gone : nodes[a].element = e}
    BY <1>6 DEF NodesWith
  <2>5. PositionsOf(array, n, e) = {i \in DOMAIN array : array[i] = BulkReply(e)}
    BY <1>7 DEF PositionsOf
  <2>6. QED
    BY <2>3, <2>4, <2>5
<1>9. /\ Len(replies') = 1
      /\ replies'[1].array = array
      /\ "array" \in DOMAIN replies'[1]
  BY <1>1
<1>10. \A a \in Gone : Expired(a)
  BY <1>2, <1>5, <1>6
<1>11. QED
  BY <1>8, <1>9, <1>10 DEF Delivers

(* No other step takes an element while the dehydrator stands.             *)
LEMMA StepDelivers ==
  ASSUME Structure, Next, Gone # {}, keyType' = "DEHYDRATOR"
  PROVE  Delivers
<1>1. CASE Takes
  BY <1>1, PullDelivers, PollDelivers, XAckDelivers DEF Takes
<1>2. CASE ~ Takes
  <2>1. \/ Adds \/ Updates \/ Keeps \/ Deletes
        \/ UNCHANGED store
    BY <1>2, StoreSteps DEF Structure, MapsAgree, Removes
  <2>2. ~ Adds
    BY DEF Adds, AddNode, Put, Gone
  <2>3. ~ Updates
    BY DEF Updates, Gone
  <2>4. ~ Keeps /\ ~ UNCHANGED store
    BY DEF Keeps, store, Gone
  <2>5. ~ Deletes
    BY ForeignAssumption DEF Deletes
  <2>6. QED
    BY <2>1, <2>2, <2>3, <2>4, <2>5
<1>3. QED
  BY <1>1, <1>2

(* Delivery, at most once and never lost: while a dehydrator stands, what  *)
(* leaves it in a step is what the answer hands over, and only PULL takes  *)
(* an element that has not expired (PullCommand, PollCommand, XAckCommand).*)
THEOREM ElementsAreHandedOver == Spec => HandedOver
<1>1. Structure /\ [Next]_vars =>
        [Gone # {} /\ keyType' = "DEHYDRATOR" => Delivers]_vars
  BY StepDelivers
<1>2. QED
  BY <1>1, StructureInvariant, PTL DEF Spec, HandedOver

----------------------------------------------------------------------------
(* When the queues of a dehydrator are sorted by deadline, and what POLL,  *)
(* XPOLL and TTN owe to it.  The four assumptions are those the code       *)
(* leaves to its users; three of them are dropped in one of the runs that  *)
(* find a counterexample (aliased_ttls, clock_set_back, wide_ttl).         *)

(* No two timeouts in use are equal in their low 32 bits. *)
DistinctQueues == \A s, t \in Ttl : ToUint(s) = ToUint(t) => s = t

(* No deadline leaves the range of a long long. *)
DeadlinesFit == \A t \in Ttl, c \in 0 .. MaxClock : ToLong(c + t) = c + t

SteadyClock == StepsBack = {}

(* The time left until a deadline fits an int, as does the time since. *)
TimesLeftFit ==
  \A t \in Ttl, d \in 0 .. MaxClock : \A c \in 0 .. d : ToInt(c + t - d) = c + t - d

(* A node cannot be due later than one pushed now with its timeout. *)
DeadlineBound ==
  \A a \in DOMAIN nodes : \A t \in Ttl :
    ToUint(t) = nodes[a].ttl => nodes[a].expiration <= clock + t

(* Every deadline is a timeout after a moment that has been. *)
Dated ==
  \A a \in DOMAIN nodes : \E t \in Ttl, c \in 0 .. clock : nodes[a].expiration = c + t

(* QueuesSorted is not inductive alone: a push needs DeadlineBound. *)
Timed == QueuesSorted /\ DeadlineBound /\ Dated

(* A push goes to the tail and is due last there.                          *)
LEMMA AddsKeepTimed ==
  ASSUME DistinctQueues, DeadlinesFit, Structure, Timed, Adds, UNCHANGED clock
  PROVE  Timed'
<1>1. PICK a \in Addr \ DOMAIN nodes, ttl \in Ttl, e \in Element, id \in Id :
        AddNode(a, ttl, e, id)
  BY DEF Adds
<1> DEFINE q == ToUint(ttl)
           old == QueueOf(q)
           new == Append(old, a)
           node == NewNode(ttl, e, id)
<1>2. ttl \in Int /\ clock \in 0 .. MaxClock /\ clock \in Int
  BY TtlAssumption, ClockAssumption DEF Structure, TypeOK
<1>3. node.ttl = q /\ node.expiration = clock + ttl
  BY <1>2 DEF NewNode, DeadlinesFit
<1>4. nodes' = Put(nodes, a, node) /\ timeout_queues' = Put(timeout_queues, q, new)
  BY <1>1 DEF AddNode
<1>5. /\ old \in Seq(Addr)
      /\ q \in DOMAIN timeout_queues => old = timeout_queues[q]
      /\ q \notin DOMAIN timeout_queues => DOMAIN old = {}
  BY DEF QueueOf, Structure, TypeOK
<1> HIDE DEF node, q, old
<1>6. /\ Len(old) \in Nat
      /\ DOMAIN old = 1 .. Len(old)
      /\ DOMAIN new = 1 .. Len(old) + 1
      /\ \A i \in DOMAIN old : new[i] = old[i]
      /\ new[Len(old) + 1] = a
  BY <1>5
<1> HIDE DEF new
<1>7. /\ DOMAIN nodes' = DOMAIN nodes \cup {a}
      /\ nodes'[a] = node
      /\ \A b \in DOMAIN nodes : nodes'[b] = nodes[b] /\ nodes[b].expiration \in Int
  BY <1>4 DEF Put, Structure, TypeOK, Node
<1>8. /\ DOMAIN timeout_queues' = DOMAIN timeout_queues \cup {q}
      /\ timeout_queues'[q] = new
      /\ \A t \in DOMAIN timeout_queues \ {q} : timeout_queues'[t] = timeout_queues[t]
  BY <1>4 DEF Put
<1>9. /\ \A t \in DOMAIN timeout_queues : \A i \in DOMAIN timeout_queues[t] :
           /\ timeout_queues[t][i] \in DOMAIN nodes
           /\ nodes[timeout_queues[t][i]].ttl = t
      /\ \A i \in DOMAIN old : old[i] \in DOMAIN nodes /\ nodes[old[i]].ttl = q
  BY <1>5 DEF Structure, MapsAgree, QueuesHoldNodes
<1>10. \A i \in DOMAIN old : nodes[old[i]].expiration <= clock + ttl
  BY <1>9 DEF Timed, DeadlineBound, q
<1>11. \A i, j \in DOMAIN old : i < j => nodes[old[i]].expiration <= nodes[old[j]].expiration
  BY <1>5 DEF Timed, QueuesSorted
<1>12. ASSUME NEW t \in DOMAIN timeout_queues',
              NEW i \in DOMAIN timeout_queues'[t], NEW j \in DOMAIN timeout_queues'[t], i < j
       PROVE  nodes'[timeout_queues'[t][i]].expiration
                <= nodes'[timeout_queues'[t][j]].expiration
  <2>1. CASE t # q
    BY <2>1, <1>7, <1>8, <1>9, <1>12 DEF Timed, QueuesSorted
  <2>2. CASE t = q /\ j \in DOMAIN old
    <3>1. i \in DOMAIN old
      BY <2>2, <1>6, <1>8, <1>12
    <3>2. QED
      BY <2>2, <3>1, <1>6, <1>7, <1>8, <1>9, <1>11, <1>12
  <2>3. CASE t = q /\ j \notin DOMAIN old
    <3>1. i \in DOMAIN old /\ j = Len(old) + 1
      BY <2>3, <1>6, <1>8, <1>12
    <3>2. nodes'[new[j]].expiration = clock + ttl
      BY <3>1, <1>3, <1>6, <1>7
    <3>3. nodes'[new[i]].expiration <= clock + ttl
      BY <3>1, <1>6, <1>7, <1>9, <1>10
    <3>4. QED
      BY <2>3, <3>2, <3>3, <1>8
  <2>4. QED
    BY <2>1, <2>2, <2>3
<1>13. QueuesSorted'
  BY <1>12 DEF QueuesSorted
<1>14. DeadlineBound'
  <2>1. ASSUME NEW b \in DOMAIN nodes', NEW t \in Ttl, ToUint(t) = nodes'[b].ttl
        PROVE  nodes'[b].expiration <= clock' + t
    <3>1. CASE b = a
      <4>1. t = ttl
        BY <2>1, <3>1, <1>3, <1>7 DEF DistinctQueues, q
      <4>2. QED
        BY <3>1, <4>1, <1>2, <1>3, <1>7
    <3>2. CASE b # a
      BY <2>1, <3>2, <1>7 DEF Timed, DeadlineBound
    <3>3. QED
      BY <3>1, <3>2
  <2>2. QED
    BY <2>1 DEF DeadlineBound
<1>15. Dated'
  <2>1. ASSUME NEW b \in DOMAIN nodes'
        PROVE  \E t \in Ttl, c \in 0 .. clock' : nodes'[b].expiration = c + t
    <3>1. CASE b = a
      <4>1. clock \in 0 .. clock'
        BY <1>2
      <4>2. QED
        BY <3>1, <4>1, <1>3, <1>7
    <3>2. CASE b # a
      BY <3>2, <1>7 DEF Timed, Dated
    <3>3. QED
      BY <3>1, <3>2
  <2>2. QED
    BY <2>1 DEF Dated
<1>16. QED
  BY <1>13, <1>14, <1>15 DEF Timed

(* Nodes taken out leave the others in order.                              *)
LEMMA RemovesKeepTimed ==
  ASSUME Structure, Timed, Removes, UNCHANGED clock
  PROVE  Timed'
<1>1. PICK R \in SUBSET DOMAIN nodes : RemoveNodes(R)
  BY DEF Removes
<1> DEFINE left(t) == Without(timeout_queues[t], {a \in R : nodes[a].ttl = t})
<1>2. /\ DOMAIN nodes' = DOMAIN nodes \ R
      /\ \A a \in DOMAIN nodes' : nodes'[a] = nodes[a]
  BY <1>1 DEF RemoveNodes, Restrict
<1>3. /\ DOMAIN timeout_queues' \subseteq DOMAIN timeout_queues
      /\ \A t \in DOMAIN timeout_queues' : timeout_queues'[t] = left(t)
  BY <1>1 DEF RemoveNodes, Unlinked, Restrict
<1>4. ASSUME NEW t \in DOMAIN timeout_queues', NEW i \in DOMAIN left(t),
             NEW j \in DOMAIN left(t), i < j
      PROVE  nodes'[left(t)[i]].expiration <= nodes'[left(t)[j]].expiration
  <2> DEFINE q == timeout_queues[t]
             T == {a \in R : nodes[a].ttl = t}
             w == Without(q, T)
  <2>1. q \in Seq(Addr)
    BY <1>3 DEF Structure, TypeOK
  <2>2. PICK at : Thins(q, T, Len(q), w, at)
    BY <2>1, WithoutThins
  <2>3. DOMAIN q = 1 .. Len(q)
    BY <2>1
  <2>4. i \in DOMAIN w /\ j \in DOMAIN w
    BY <1>4
  <2> HIDE DEF w
  <2>5. /\ at[i] \in DOMAIN q /\ at[j] \in DOMAIN q
        /\ at[i] < at[j]
        /\ w[i] = q[at[i]] /\ q[at[i]] \notin T
        /\ w[j] = q[at[j]] /\ q[at[j]] \notin T
    BY <1>4, <2>2, <2>3, <2>4 DEF Thins
  <2>6. \A m \in DOMAIN q : q[m] \in DOMAIN nodes /\ nodes[q[m]].ttl = t
    BY <1>3 DEF Structure, MapsAgree, QueuesHoldNodes
  <2>7. nodes[q[at[i]]].expiration <= nodes[q[at[j]]].expiration
    BY <1>3, <2>5 DEF Timed, QueuesSorted
  <2>8. w[i] \in DOMAIN nodes' /\ w[j] \in DOMAIN nodes'
    BY <1>2, <2>5, <2>6
  <2>9. nodes'[w[i]].expiration <= nodes'[w[j]].expiration
    BY <1>2, <2>5, <2>7, <2>8
  <2>10. QED
    BY <2>9 DEF w
<1> HIDE DEF left
<1>5. QueuesSorted'
  BY <1>3, <1>4 DEF QueuesSorted
<1>6. DeadlineBound' /\ Dated'
  BY <1>2 DEF Timed, DeadlineBound, Dated
<1>7. QED
  BY <1>5, <1>6 DEF Timed

(* UPDATE leaves the deadline alone.                                       *)
LEMMA UpdatesKeepTimed ==
  ASSUME Structure, Timed, Updates, UNCHANGED clock
  PROVE  Timed'
<1>1. PICK a \in DOMAIN nodes, e \in Element :
        /\ nodes' = [nodes EXCEPT ![a].element = e]
        /\ UNCHANGED timeout_queues
  BY DEF Updates
<1>2. \A b \in DOMAIN nodes : nodes[b] \in Node
  BY DEF Structure, TypeOK
<1>3. /\ DOMAIN nodes' = DOMAIN nodes
      /\ \A b \in DOMAIN nodes : /\ nodes'[b].ttl = nodes[b].ttl
                                 /\ nodes'[b].expiration = nodes[b].expiration
  BY <1>1, <1>2 DEF Node
<1>4. \A t \in DOMAIN timeout_queues : \A i \in DOMAIN timeout_queues[t] :
        timeout_queues[t][i] \in DOMAIN nodes
  BY DEF Structure, MapsAgree, QueuesHoldNodes
<1>5. QueuesSorted'
  BY <1>1, <1>3, <1>4 DEF Timed, QueuesSorted
<1>6. DeadlineBound' /\ Dated'
  BY <1>3 DEF Timed, DeadlineBound, Dated
<1>7. QED
  BY <1>5, <1>6 DEF Timed

(* No nodes, nothing out of order.                                         *)
LEMMA DeletesKeepTimed ==
  ASSUME Structure, Deletes
  PROVE  Timed'
<1>1. DOMAIN nodes \subseteq Queued
  BY DEF Structure, MapsAgree, NodesQueued, Queued, Range
<1>2. DOMAIN nodes' = {} /\ DOMAIN timeout_queues' = {}
  BY <1>1 DEF Deletes, deleteDehydrator, Restrict
<1>3. QED
  BY <1>2 DEF Timed, QueuesSorted, DeadlineBound, Dated

(* Deadlines are absolute: time may pass.                                  *)
LEMMA ClockKeepsTimed ==
  ASSUME Structure, Timed, UNCHANGED <<nodes, timeout_queues>>,
         clock' \in Int, clock <= clock'
  PROVE  Timed'
<1>1. QueuesSorted'
  BY DEF Timed, QueuesSorted
<1>2. \A a \in DOMAIN nodes : nodes[a].expiration \in Int
  BY DEF Structure, TypeOK, Node
<1>3. clock \in Int /\ Ttl \subseteq Int
  BY ClockAssumption, TtlAssumption DEF Structure, TypeOK
<1>4. DeadlineBound'
  BY <1>2, <1>3 DEF Timed, DeadlineBound
<1>5. Dated'
  <2>1. 0 .. clock \subseteq 0 .. clock'
    BY <1>3
  <2>2. QED
    BY <2>1 DEF Timed, Dated
<1>6. QED
  BY <1>1, <1>4, <1>5 DEF Timed

(* Every step keeps the queues in order.                                   *)
LEMMA NextKeepsTimed ==
  ASSUME DistinctQueues, DeadlinesFit, SteadyClock, Structure, Timed, [Next]_vars
  PROVE  Timed'
<1>1. clock \in Int
  BY ClockAssumption DEF Structure, TypeOK
<1>2. CASE UNCHANGED vars
  BY <1>1, <1>2, ClockKeepsTimed DEF vars
<1>3. CASE Next
  <2>1. \/ (Adds \/ Removes \/ Updates \/ Keeps \/ Deletes) /\ UNCHANGED clock
        \/ UNCHANGED store /\ (Tick \/ StepBack)
    BY <1>3, StoreSteps DEF Structure, MapsAgree
  <2>2. CASE Adds /\ UNCHANGED clock
    BY <2>2, AddsKeepTimed
  <2>3. CASE Removes /\ UNCHANGED clock
    BY <2>3, RemovesKeepTimed
  <2>4. CASE Updates /\ UNCHANGED clock
    BY <2>4, UpdatesKeepTimed
  <2>5. CASE Keeps /\ UNCHANGED clock
    BY <1>1, <2>5, ClockKeepsTimed DEF Keeps
  <2>6. CASE Deletes
    BY <2>6, DeletesKeepTimed
  <2>7. CASE UNCHANGED store /\ (Tick \/ StepBack)
    <3>1. ~ StepBack
      BY DEF SteadyClock, StepBack
    <3>2. clock' = clock + 1
      BY <2>7, <3>1 DEF Tick
    <3>3. QED
      BY <1>1, <2>7, <3>2, ClockKeepsTimed DEF store
  <2>8. QED
    BY <2>1, <2>2, <2>3, <2>4, <2>5, <2>6, <2>7
<1>4. QED
  BY <1>2, <1>3

(* So they are in every state.                                             *)
LEMMA TimedInvariant ==
  ASSUME DistinctQueues, DeadlinesFit, SteadyClock
  PROVE  Spec => [](Structure /\ Timed)
<1>1. Init => Structure /\ Timed
  BY InitStructure DEF Init, Timed, QueuesSorted, DeadlineBound, Dated
<1>2. Structure /\ [Next]_vars => Structure'
  BY StructureStep
<1>3. Structure /\ Timed /\ [Next]_vars => Timed'
  BY NextKeepsTimed
<1>4. QED
  BY <1>1, <1>2, <1>3, PTL DEF Spec

(* Each queue stays sorted by deadline although nothing ever sorts it: a   *)
(* queue holds one timeout and the clock does not go back                  *)
(* (docs/Algorithm.md:36).                                                 *)
THEOREM QueuesStaySorted ==
  ASSUME DistinctQueues, DeadlinesFit, SteadyClock
  PROVE  Spec => []QueuesSorted
<1>1. Structure /\ Timed => QueuesSorted
  BY DEF Timed
<1>2. QED
  BY <1>1, TimedInvariant, PTL

(* In a sorted queue the expired nodes come first.                         *)
LEMMA TimedScansReachAll ==
  ASSUME Structure, Timed
  PROVE  AllExpiredAreDue
<1>1. SUFFICES ASSUME NEW a \in DOMAIN nodes, Expired(a)
               PROVE  a \in Due
  BY DEF AllExpiredAreDue
<1> DEFINE t == nodes[a].ttl
<1>2. t \in DOMAIN timeout_queues
  BY DEF Structure, MapsAgree, NodesQueued
<1>3. PICK i \in DOMAIN timeout_queues[t] : timeout_queues[t][i] = a
  BY DEF Structure, MapsAgree, NodesQueued
<1>4. /\ timeout_queues[t] \in Seq(Addr)
      /\ \A j \in DOMAIN timeout_queues[t] : nodes[timeout_queues[t][j]].expiration \in Int
      /\ clock \in Int
  BY <1>2, ClockAssumption
     DEF Structure, TypeOK, MapsAgree, QueuesHoldNodes, Node
<1>5. \A j \in 1 .. i : j \in DOMAIN timeout_queues[t]
  BY <1>3, <1>4
<1>6. \A j \in 1 .. i : Expired(timeout_queues[t][j])
  <2>1. SUFFICES ASSUME NEW j \in 1 .. i
                 PROVE  nodes[timeout_queues[t][j]].expiration <= clock
    BY DEF Expired
  <2>2. nodes[timeout_queues[t][j]].expiration <= nodes[a].expiration
    BY <1>2, <1>3, <1>4, <1>5 DEF Timed, QueuesSorted
  <2>3. QED
    BY <1>1, <1>3, <1>4, <1>5, <2>2 DEF Expired
<1>7. a \in DueIn(timeout_queues[t])
  BY <1>3, <1>6 DEF DueIn
<1>8. QED
  BY <1>2, <1>7 DEF Due

(* So the scan of POLL and XPOLL, which stops in each queue at the first   *)
(* node not yet expired, misses no expired element.                        *)
THEOREM PollMissesNothing ==
  ASSUME DistinctQueues, DeadlinesFit, SteadyClock
  PROVE  Spec => []AllExpiredAreDue
<1>1. Structure /\ Timed => AllExpiredAreDue
  BY TimedScansReachAll
<1>2. QED
  BY <1>1, TimedInvariant, PTL

(* Min, without its CHOOSE.                                                *)
LEMMA MinIsLeast ==
  ASSUME NEW S \in SUBSET Int, NEW n \in S, \A m \in S : n <= m
  PROVE  Min(S) = n
<1>1. Min(S) \in S /\ \A m \in S : Min(S) <= m
  BY Zenon DEF Min
<1>2. Min(S) <= n /\ n <= Min(S)
  BY <1>1
<1>3. Min(S) \in Int /\ n \in Int
  BY <1>1
<1>4. QED
  BY <1>2, <1>3

(* In sorted queues the earliest deadline is at a head.                    *)
LEMMA TimedTtnIsExact ==
  ASSUME TimesLeftFit, Structure, Timed
  PROVE  TtnExact
<1> SUFFICES ASSUME keyType = "DEHYDRATOR"
             PROVE  LET left == {nodes[a].expiration - clock : a \in DOMAIN nodes}
                    IN  TimeToNext = IF left = {} THEN -1 ELSE Max({0, Min(left)})
  BY DEF TtnExact
<1> DEFINE left == {nodes[a].expiration - clock : a \in DOMAIN nodes}
           head(t) == Head(timeout_queues[t])
           heads == {ToInt(nodes[head(t)].expiration - clock) : t \in DOMAIN timeout_queues}
<1>1. clock \in 0 .. MaxClock /\ clock \in Int
  BY ClockAssumption DEF Structure, TypeOK
<1>2. ASSUME NEW a \in DOMAIN nodes
      PROVE  /\ nodes[a].expiration - clock \in Int
             /\ ToInt(nodes[a].expiration - clock) = nodes[a].expiration - clock
  <2>1. PICK t \in Ttl, c \in 0 .. clock : nodes[a].expiration = c + t
    BY DEF Timed, Dated
  <2>2. QED
    BY <1>1, <2>1, TtlAssumption DEF TimesLeftFit
<1>3. ASSUME NEW t \in DOMAIN timeout_queues
      PROVE  /\ head(t) \in DOMAIN nodes
             /\ \A i \in DOMAIN timeout_queues[t] :
                  nodes[head(t)].expiration <= nodes[timeout_queues[t][i]].expiration
  <2>1. timeout_queues[t] \in Seq(Addr) /\ timeout_queues[t] # <<>>
    BY DEF Structure, TypeOK, NoEmptyQueue
  <2>2. 1 \in DOMAIN timeout_queues[t] /\ head(t) = timeout_queues[t][1]
    BY <2>1
  <2>3. head(t) \in DOMAIN nodes /\ nodes[head(t)].expiration \in Int
    BY <2>2 DEF Structure, TypeOK, Node, MapsAgree, QueuesHoldNodes
  <2>4. ASSUME NEW i \in DOMAIN timeout_queues[t]
        PROVE  nodes[head(t)].expiration <= nodes[timeout_queues[t][i]].expiration
    <3>1. i = 1 \/ 1 < i
      BY <2>1
    <3>2. QED
      BY <2>2, <2>3, <3>1 DEF Timed, QueuesSorted
  <2>5. QED
    BY <2>3, <2>4
<1>4. heads = {nodes[head(t)].expiration - clock : t \in DOMAIN timeout_queues}
  BY <1>2, <1>3
<1>5. heads \subseteq left
  BY <1>3, <1>4
<1>6. \A n \in left : \E m \in heads : m <= n
  <2>1. SUFFICES ASSUME NEW a \in DOMAIN nodes
                 PROVE  \E m \in heads : m <= nodes[a].expiration - clock
    OBVIOUS
  <2> DEFINE t == nodes[a].ttl
  <2>2. t \in DOMAIN timeout_queues
    BY DEF Structure, MapsAgree, NodesQueued
  <2>3. PICK i \in DOMAIN timeout_queues[t] : timeout_queues[t][i] = a
    BY DEF Structure, MapsAgree, NodesQueued
  <2>4. nodes[head(t)].expiration <= nodes[a].expiration
    BY <1>3, <2>2, <2>3
  <2>5. nodes[head(t)].expiration \in Int /\ nodes[a].expiration \in Int
    BY <1>3, <2>2 DEF Structure, TypeOK, Node
  <2>6. nodes[head(t)].expiration - clock <= nodes[a].expiration - clock
    BY <1>1, <2>4, <2>5
  <2>7. QED
    BY <1>4, <2>2, <2>6
<1>7. left \subseteq Int /\ \A n \in left : - (IntMod \div 2) <= n
  <2>1. ASSUME NEW n \in Int
        PROVE  - (IntMod \div 2) <= ToInt(n)
    BY WidthAssumption DEF ToInt
  <2>2. QED
    BY <1>2, <2>1
<1> HIDE DEF left, heads
<1>8. CASE left = {}
  BY <1>5, <1>8 DEF TimeToNext, left, heads
<1>9. CASE left # {}
  <2>1. PICK least \in left : \A n \in left : least <= n
    <3>1. - (IntMod \div 2) \in Int
      BY WidthAssumption
    <3>2. QED
      BY <1>7, <1>9, <3>1, LeastInteger
  <2>2. least \in Int
    BY <1>7
  <2>3. least \in heads /\ \A n \in heads : least <= n
    <3>1. PICK m \in heads : m <= least
      BY <1>6
    <3>2. m = least
      BY <1>5, <1>7, <2>1, <3>1
    <3>3. QED
      BY <1>5, <2>1, <3>1, <3>2
  <2>4. Min(left) = least
    BY <1>7, <2>1, MinIsLeast
  <2>5. Min(heads) = least
    BY <1>5, <1>7, <2>3, MinIsLeast
  <2>6. Max({0, least}) = IF least <= 0 THEN 0 ELSE least
    <3>1. \E x \in {0, least} : \A y \in {0, least} : x >= y
      BY <2>2
    <3>2. Max({0, least}) \in {0, least} /\ \A y \in {0, least} : Max({0, least}) >= y
      BY <3>1, Zenon DEF Max
    <3>3. QED
      BY <2>2, <3>2
  <2>7. TimeToNext = IF \E n \in heads : n <= 0 THEN 0 ELSE Min(heads)
    BY <2>3 DEF TimeToNext, heads
  <2>8. (\E n \in heads : n <= 0) <=> least <= 0
    BY <1>5, <1>7, <2>2, <2>3
  <2>9. QED
    BY <1>9, <2>4, <2>5, <2>6, <2>7, <2>8 DEF left
<1>10. QED
  BY <1>8, <1>9 DEF left

(* TTN is exact: 0 when a deadline has passed, -1 without elements, else   *)
(* the time left to the earliest deadline (docs/Commands.md:260), although *)
(* the scan reads only the head of each queue, and into an int.            *)
THEOREM TtnIsExact ==
  ASSUME DistinctQueues, DeadlinesFit, SteadyClock, TimesLeftFit
  PROVE  Spec => []TtnExact
<1>1. Structure /\ Timed => TtnExact
  BY TimedTtnIsExact
<1>2. QED
  BY <1>1, TimedInvariant, PTL

----------------------------------------------------------------------------
(* Dehydrator implements DelayQueue: every command, on queues, maps and    *)
(* fixed-width numbers, does to the pending elements, and answers, what    *)
(* DelayQueue says of a set of elements with deadlines.                    *)

(* No two ids are equal up to their first NUL byte. *)
DistinctIds == \A i, j \in Id : CStr[i] = CStr[j] => i = j

(* What DelayQueue leaves out, and the code does not protect: ids, timeouts *)
(* and deadlines that a conversion confuses, a clock that is set back, a   *)
(* timeout that does not parse, and keys of another type.                  *)
ProperUse ==
  /\ DistinctIds /\ DistinctQueues /\ DeadlinesFit /\ TimesLeftFit /\ SteadyClock
  /\ BadTimeout = {} /\ Foreign = {}

----------------------------------------------------------------------------
(* The pending elements a store stands for. *)

(* An element is pending for each node, under the id of the node. *)
PendingAreNodes ==
  /\ \A id \in Id : id \in DOMAIN Pending <=> HasNode(id)
  /\ \A id \in DOMAIN Pending : /\ id \in Id
                                /\ NodeFor(id) \in DOMAIN nodes
                                /\ nodes[NodeFor(id)].element_id = id
  /\ \A a \in DOMAIN nodes :
       /\ nodes[a].element_id \in DOMAIN Pending
       /\ NodeFor(nodes[a].element_id) = a
       /\ Pending[nodes[a].element_id] = [element    |-> nodes[a].element,
                                          expiration |-> nodes[a].expiration]
  /\ Pending = [id \in DOMAIN Pending |-> Pending[id]]

(* In a sound dehydrator Pending is the nodes, by id.                      *)
LEMMA StructurePends ==
  ASSUME DistinctIds, Structure
  PROVE  PendingAreNodes
<1>1. \A a \in DOMAIN nodes : /\ nodes[a].element_id \in Id
                              /\ HasNode(nodes[a].element_id)
                              /\ NodeFor(nodes[a].element_id) = a
  BY DEF Structure, TypeOK, Node, MapsAgree, NodesMapped, HasNode, NodeFor
<1>2. ASSUME NEW id \in Id, HasNode(id)
      PROVE  NodeFor(id) \in DOMAIN nodes /\ nodes[NodeFor(id)].element_id = id
  <2>1. NodeFor(id) \in DOMAIN nodes /\ CStr[nodes[NodeFor(id)].element_id] = CStr[id]
    BY <1>2 DEF Structure, MapsAgree, MappingLive, HasNode, NodeFor
  <2>2. QED
    BY <1>1, <2>1 DEF DistinctIds
<1>3. \A id : id \in DOMAIN Pending <=> \E a \in DOMAIN nodes : id = nodes[a].element_id
  BY DEF Pending
<1>4. \A a \in DOMAIN nodes :
        Pending[nodes[a].element_id] =
          [element    |-> nodes[NodeFor(nodes[a].element_id)].element,
           expiration |-> nodes[NodeFor(nodes[a].element_id)].expiration]
  BY DEF Pending
<1>5. Pending = [id \in DOMAIN Pending |-> Pending[id]]
  BY DEF Pending
<1>6. QED
  BY <1>1, <1>2, <1>3, <1>4, <1>5 DEF PendingAreNodes

(* So it is after a step.                                                  *)
LEMMA StructurePendsNext ==
  ASSUME DistinctIds
  PROVE  Structure' => PendingAreNodes'
<1>1. Structure => PendingAreNodes
  BY StructurePends
<1>2. QED
  BY <1>1, PTL

(* A key that is no dehydrator has nothing pending.                        *)
LEMMA NoNodesNonePending ==
  ASSUME Structure, keyType # "DEHYDRATOR"
  PROVE  Pending = <<>> /\ \A id \in Id : ~ HasNode(id)
<1>1. DOMAIN nodes = {}
  BY DEF Structure, MapsAgree
<1>2. QED
  BY <1>1 DEF Pending, Structure, MapsAgree, MappingLive, HasNode

(* The pending elements after a step, from the nodes after it. *)
LEMMA PendingNext ==
  ASSUME PendingAreNodes', NEW D, NEW F, F = [id \in D |-> F[id]],
         \A id : id \in D <=> \E a \in DOMAIN nodes' : id = nodes'[a].element_id,
         \A a \in DOMAIN nodes' :
           F[nodes'[a].element_id] = [element    |-> nodes'[a].element,
                                      expiration |-> nodes'[a].expiration]
  PROVE  Pending' = F
<1> DEFINE P == Pending'
<1>1. \A id : id \in DOMAIN P <=> \E a \in DOMAIN nodes' : id = nodes'[a].element_id
  BY DEF Pending
<1>2. /\ P = [id \in DOMAIN P |-> P[id]]
      /\ \A a \in DOMAIN nodes' :
           P[nodes'[a].element_id] = [element    |-> nodes'[a].element,
                                      expiration |-> nodes'[a].expiration]
  BY DEF PendingAreNodes
<1> HIDE DEF P
<1>3. DOMAIN P = D
  BY <1>1
<1>4. ASSUME NEW id \in D
      PROVE  P[id] = F[id]
  <2>1. PICK a \in DOMAIN nodes' : id = nodes'[a].element_id
    OBVIOUS
  <2>2. QED
    BY <1>2, <2>1
<1>5. QED
  BY <1>2, <1>3, <1>4 DEF P

(* What the ways a step changes the store do to the pending elements. *)

(* The ids of the nodes in R. *)
IdsOf(R) == {nodes[a].element_id : a \in R}

(* Nodes taken out of queues and map are elements released.                *)
LEMMA RemovalReleases ==
  ASSUME PendingAreNodes, PendingAreNodes', NEW R \in SUBSET DOMAIN nodes, RemoveNodes(R)
  PROVE  DQ!Release(IdsOf(R)) <=> UNCHANGED clock
<1> DEFINE D == DOMAIN Pending \ IdsOf(R)
           F == [id \in D |-> Pending[id]]
<1>1. /\ DOMAIN nodes' = DOMAIN nodes \ R
      /\ \A a \in DOMAIN nodes' : nodes'[a] = nodes[a]
      /\ keyType' = keyType
  BY DEF RemoveNodes, Restrict
<1>2. ASSUME NEW a \in DOMAIN nodes, nodes[a].element_id \in IdsOf(R)
      PROVE  a \in R
  BY <1>2 DEF IdsOf, PendingAreNodes
<1>3. ASSUME NEW a \in DOMAIN nodes'
      PROVE  nodes'[a].element_id \in D /\ a \in DOMAIN nodes /\ nodes'[a] = nodes[a]
  BY <1>1, <1>2 DEF PendingAreNodes
<1>4. ASSUME NEW id \in D
      PROVE  \E a \in DOMAIN nodes' : id = nodes'[a].element_id
  <2>1. NodeFor(id) \in DOMAIN nodes /\ nodes[NodeFor(id)].element_id = id
    BY DEF PendingAreNodes
  <2>2. NodeFor(id) \notin R
    BY <2>1 DEF IdsOf
  <2>3. QED
    BY <1>1, <2>1, <2>2
<1> HIDE DEF D
<1>5. \A a \in DOMAIN nodes' : F[nodes'[a].element_id] =
           [element |-> nodes'[a].element, expiration |-> nodes'[a].expiration]
  BY <1>3 DEF PendingAreNodes
<1>6. F = [id \in D |-> F[id]]
  OBVIOUS
<1> HIDE DEF F
<1>7. Pending' = F
  BY <1>3, <1>4, <1>5, <1>6, PendingNext
<1>8. F = DQ!Restrict(Pending, DOMAIN Pending \ IdsOf(R))
  BY DEF F, D, DQ!Restrict
<1>9. QED
  BY <1>1, <1>7, <1>8 DEF DQ!Release

(* A node added is an element held.                                        *)
LEMMA AdditionHolds ==
  ASSUME ProperUse, Structure, PendingAreNodes, PendingAreNodes',
         NEW ttl \in Ttl, NEW e \in Element, NEW id \in Id, ~ HasNode(id),
         NEW a \in Addr \ DOMAIN nodes, AddNode(a, ttl, e, id),
         keyType' = "DEHYDRATOR", UNCHANGED clock
  PROVE  DQ!Hold(ttl, e, id)
<1> DEFINE D == DOMAIN Pending \cup {id}
           new == [element |-> e, expiration |-> clock + ttl]
           F == [i \in D |-> IF i = id THEN new ELSE Pending[i]]
<1>1. /\ DOMAIN nodes' = DOMAIN nodes \cup {a}
      /\ nodes'[a] = NewNode(ttl, e, id)
      /\ \A b \in DOMAIN nodes : nodes'[b] = nodes[b]
  BY DEF AddNode, Put
<1>2. /\ nodes'[a].element_id = id
      /\ nodes'[a].element = e
      /\ nodes'[a].expiration = clock + ttl
  <2>1. ToLong(clock + ttl) = clock + ttl
    BY DEF ProperUse, DeadlinesFit, Structure, TypeOK
  <2>2. QED
    BY <1>1, <2>1 DEF NewNode
<1>3. id \notin DOMAIN Pending
  BY DEF PendingAreNodes
<1>4. \A i \in DOMAIN Pending : NodeFor(i) \in DOMAIN nodes /\ nodes[NodeFor(i)].element_id = i
  BY DEF PendingAreNodes
<1>5. \A i : i \in D <=> \E b \in DOMAIN nodes' : i = nodes'[b].element_id
  <2>1. \A b \in DOMAIN nodes : nodes[b].element_id \in DOMAIN Pending
    BY DEF PendingAreNodes
  <2>2. QED
    BY <1>1, <1>2, <1>4, <2>1
<1>6. ASSUME NEW b \in DOMAIN nodes'
      PROVE  F[nodes'[b].element_id] =
               [element |-> nodes'[b].element, expiration |-> nodes'[b].expiration]
  <2>1. CASE b = a
    BY <2>1, <1>2
  <2>2. CASE b \in DOMAIN nodes
    <3>1. /\ nodes'[b] = nodes[b]
          /\ nodes[b].element_id \in DOMAIN Pending
          /\ Pending[nodes[b].element_id] = [element    |-> nodes[b].element,
                                             expiration |-> nodes[b].expiration]
      BY <1>1, <2>2 DEF PendingAreNodes
    <3>2. nodes[b].element_id # id
      BY <1>3, <3>1
    <3>3. QED
      BY <3>1, <3>2
  <2>3. QED
    BY <1>1, <2>1, <2>2
<1>7. F = [i \in D |-> F[i]]
  OBVIOUS
<1> HIDE DEF F, D
<1>8. Pending' = F
  BY <1>5, <1>6, <1>7, PendingNext
<1>9. QED
  BY <1>3, <1>8 DEF DQ!Hold, F, D

(* A payload replaced in a node is replaced in the element.                *)
LEMMA UpdateReplaces ==
  ASSUME Structure, PendingAreNodes, PendingAreNodes', NEW id \in DOMAIN Pending, NEW e,
         nodes' = [nodes EXCEPT ![NodeFor(id)].element = e]
  PROVE  Pending' = [Pending EXCEPT ![id].element = e]
<1> DEFINE F == [Pending EXCEPT ![id].element = e]
           n == NodeFor(id)
<1>1. n \in DOMAIN nodes /\ nodes[n].element_id = id
  BY DEF PendingAreNodes
<1>2. /\ DOMAIN nodes' = DOMAIN nodes
      /\ \A b \in DOMAIN nodes \ {n} : nodes'[b] = nodes[b]
      /\ nodes'[n] = [nodes[n] EXCEPT !.element = e]
  BY <1>1
<1>3. /\ \A b \in DOMAIN nodes : Pending[nodes[b].element_id] =
              [element |-> nodes[b].element, expiration |-> nodes[b].expiration]
      /\ \A b \in DOMAIN nodes : nodes[b].element_id = id => b = n
      /\ \A b \in DOMAIN nodes : nodes[b].element_id \in DOMAIN Pending
  BY DEF PendingAreNodes
<1>4. \A i \in DOMAIN Pending : NodeFor(i) \in DOMAIN nodes /\ nodes[NodeFor(i)].element_id = i
  BY DEF PendingAreNodes
<1>5. DOMAIN F = DOMAIN Pending /\ F = [i \in DOMAIN F |-> F[i]]
  OBVIOUS
<1>6. F[id] = [Pending[id] EXCEPT !.element = e] /\ \A i \in DOMAIN Pending \ {id} : F[i] = Pending[i]
  OBVIOUS
<1> HIDE DEF F
<1>7. ASSUME NEW b \in DOMAIN nodes'
      PROVE  /\ nodes'[b].element_id = nodes[b].element_id
             /\ F[nodes'[b].element_id] =
                  [element |-> nodes'[b].element, expiration |-> nodes'[b].expiration]
  <2>1. CASE b = n
    <3>1. /\ nodes'[b].element_id = id
          /\ nodes'[b].expiration = nodes[b].expiration
          /\ nodes'[b].element = e
      <4>1. nodes[n] \in Node
        BY <1>1 DEF Structure, TypeOK
      <4>2. QED
        BY <1>1, <1>2, <2>1, <4>1 DEF Node
    <3>2. QED
      <4>1. Pending[id] = [element |-> nodes[n].element, expiration |-> nodes[n].expiration]
        BY <1>1, <1>3
      <4>2. F[id] = [element |-> e, expiration |-> nodes[n].expiration]
        BY <1>6, <4>1
      <4>3. /\ nodes'[b].expiration = nodes[n].expiration
            /\ nodes'[b].element = e
            /\ nodes'[b].element_id = id
        BY <2>1, <3>1
      <4>4. QED
        BY <4>2, <4>3
  <2>2. CASE b # n
    BY <1>2, <1>3, <1>6, <2>2
  <2>3. QED
    BY <2>1, <2>2
<1>8. \A i : i \in DOMAIN F <=> \E b \in DOMAIN nodes' : i = nodes'[b].element_id
  BY <1>2, <1>3, <1>4, <1>5, <1>7
<1>9. QED
  BY <1>5, <1>7, <1>8, PendingNext DEF F

(* A step that leaves the store alone keeps the elements.                  *)
LEMMA KeepsKeep ==
  ASSUME UNCHANGED store
  PROVE  UNCHANGED clock => DQ!Keep
<1>1. Pending' = Pending
  BY DEF Pending, NodeFor, store
<1>2. QED
  BY <1>1 DEF DQ!Keep, store

(* A dehydrator that is deleted, and a key of no dehydrator, hold nothing. *)
LEMMA DeletionDrops ==
  ASSUME Structure, deleteDehydrator
  PROVE  Pending' = <<>>
<1>1. DOMAIN nodes \subseteq Queued
  BY DEF Structure, MapsAgree, NodesQueued, Queued, Range
<1>2. DOMAIN nodes' = {}
  BY <1>1 DEF deleteDehydrator, Restrict
<1>3. QED
  BY <1>2 DEF Pending

(* DelayQueue finds due the elements of the nodes a scan reaches. *)
LEMMA DueIds ==
  ASSUME Structure, AllExpiredAreDue, PendingAreNodes
  PROVE  /\ DQ!Due = IdsOf(Due)
         /\ \A a \in DOMAIN nodes : nodes[a].element_id \in DQ!Due <=> a \in Due
         /\ \A a \in DOMAIN nodes : Expired(a) <=> a \in Due
<1>1. \A a \in DOMAIN nodes : Expired(a) <=> a \in Due
  BY DueExpired DEF AllExpiredAreDue
<1>2. \A id : id \in DQ!Due <=> id \in DOMAIN Pending /\ Pending[id].expiration <= clock
  BY DEF DQ!Due
<1>3. \A a \in DOMAIN nodes : /\ nodes[a].element_id \in DOMAIN Pending
                              /\ Pending[nodes[a].element_id].expiration = nodes[a].expiration
  <2>1. ASSUME NEW a \in DOMAIN nodes
        PROVE  /\ nodes[a].element_id \in DOMAIN Pending
               /\ Pending[nodes[a].element_id] = [element    |-> nodes[a].element,
                                                  expiration |-> nodes[a].expiration]
    BY DEF PendingAreNodes
  <2>2. \A a \in DOMAIN nodes :
          [element |-> nodes[a].element, expiration |-> nodes[a].expiration].expiration
            = nodes[a].expiration
    OBVIOUS
  <2>3. QED
    BY <2>1, <2>2, Zenon
<1>4. \A a \in DOMAIN nodes : nodes[a].element_id \in DQ!Due <=> a \in Due
  BY <1>1, <1>2, <1>3 DEF Expired
<1>5. Due \subseteq DOMAIN nodes
  BY DueAreNodes DEF Structure, MapsAgree
<1>6. \A id \in DQ!Due : NodeFor(id) \in DOMAIN nodes /\ nodes[NodeFor(id)].element_id = id
  BY <1>2 DEF PendingAreNodes
<1>7. \A id : id \in DQ!Due <=> id \in IdsOf(Due)
  BY <1>4, <1>5, <1>6 DEF IdsOf
<1>8. QED
  BY <1>1, <1>4, <1>7

----------------------------------------------------------------------------
(* Each command is a step of DelayQueue. *)

(* What every step below may assume. *)
Refining ==
  /\ ProperUse
  /\ Structure /\ PendingAreNodes /\ PendingAreNodes'
  /\ AllExpiredAreDue /\ TtnExact

(* PUSH,                                                                   *)
LEMMA PushRefines ==
  ASSUME Refining, NEW ttl \in Ttl, NEW e \in Element, NEW id \in Id,
         PushCommand(ttl, e, id)
  PROVE  DQ!Push(ttl, e, id)
<1>1. keyType \notin Foreign /\ ttl \notin BadTimeout
  BY DEF Refining, ProperUse
<1>2. keyType' = "DEHYDRATOR"
  BY <1>1 DEF PushCommand, PushRefused, OpenOrCreate
<1>3. CASE HasNode(id)
  <2>1. keyType = "DEHYDRATOR"
    BY <1>3, NoNodesNonePending DEF Refining
  <2>2. replies' = <<Duplicate>> /\ UNCHANGED <<nodes, timeout_queues, element_nodes, clock>>
    BY <1>1, <1>3 DEF PushCommand, PushRefused, Answer
  <2>3. DQ!Keep
    BY <1>2, <2>1, <2>2, KeepsKeep DEF store
  <2>4. id \in DOMAIN Pending
    BY <1>3 DEF Refining, PendingAreNodes
  <2>5. QED
    BY <2>2, <2>3, <2>4
       DEF DQ!Push, DQ!Answer, DQ!Duplicate, Duplicate, DQ!ErrorReply, ErrorReply
<1>4. CASE ~ HasNode(id)
  <2>1. push_impl(ttl, e, id, StatusReply("OK"))
    BY <1>1, <1>4 DEF PushCommand, PushRefused
  <2>2. PICK a \in Addr \ DOMAIN nodes : AddNode(a, ttl, e, id)
    BY <1>1, <2>1 DEF push_impl
  <2>3. replies' = <<StatusReply("OK")>> /\ UNCHANGED clock
    BY <1>1, <2>1 DEF push_impl, Answer
  <2>4. DQ!Hold(ttl, e, id)
    BY <1>2, <1>4, <2>2, <2>3, AdditionHolds DEF Refining
  <2>5. QED
    BY <2>3, <2>4 DEF DQ!Push, DQ!Answer, DQ!StatusReply, StatusReply
<1>5. QED
  BY <1>3, <1>4

(* GIDPUSH,                                                                *)
LEMMA GidPushRefines ==
  ASSUME Refining, NEW ttl \in Ttl, NEW e \in Element, GIDPushCommand(ttl, e)
  PROVE  DQ!GidPush(ttl, e)
<1>1. keyType \notin Foreign /\ ttl \notin BadTimeout
  BY DEF Refining, ProperUse
<1>2. keyType' = "DEHYDRATOR"
  BY <1>1 DEF GIDPushCommand, PushRefused, OpenOrCreate
<1>3. PICK id \in Gid : ~ HasNode(id) /\ push_impl(ttl, e, id, BulkReply(id))
  BY <1>1 DEF GIDPushCommand, PushRefused
<1>4. PICK a \in Addr \ DOMAIN nodes : AddNode(a, ttl, e, id)
  BY <1>1, <1>3 DEF push_impl
<1>5. replies' = <<BulkReply(id)>> /\ UNCHANGED clock
  BY <1>1, <1>3 DEF push_impl, Answer
<1>6. DQ!Hold(ttl, e, id)
  BY <1>2, <1>3, <1>4, <1>5, AdditionHolds, GidAssumption DEF Refining
<1>7. QED
  BY <1>5, <1>6 DEF DQ!GidPush, DQ!Answer, DQ!BulkReply, BulkReply

(* PULL,                                                                   *)
LEMMA PullRefines ==
  ASSUME Refining, NEW id \in Id, PullCommand(id)
  PROVE  DQ!Pull(id)
<1>1. CASE HasNode(id)
  <2>1. keyType = "DEHYDRATOR"
    BY <1>1, NoNodesNonePending DEF Refining
  <2> DEFINE n == NodeFor(id)
  <2>2. /\ RemoveNodes({n})
        /\ replies' = <<BulkReply(nodes[n].element)>>
        /\ UNCHANGED clock
    BY <1>1, <2>1 DEF PullCommand, Absent, Answer
  <2>3. id \in DOMAIN Pending /\ n \in DOMAIN nodes /\ nodes[n].element_id = id
    BY <1>1 DEF Refining, PendingAreNodes
  <2>4. Pending[id] = [element |-> nodes[n].element, expiration |-> nodes[n].expiration]
    BY <2>3 DEF Refining, PendingAreNodes
  <2>5. Pending[id].element = nodes[n].element
    BY <2>4
  <2> HIDE DEF n
  <2>6. IdsOf({n}) = {id}
    BY <2>3 DEF IdsOf
  <2>7. DQ!Release({id})
    BY <2>2, <2>3, <2>6, RemovalReleases DEF Refining
  <2>8. QED
    BY <2>2, <2>3, <2>5, <2>7 DEF DQ!Pull, DQ!Answer, DQ!BulkReply, BulkReply
<1>2. CASE ~ HasNode(id)
  <2>1. replies' = <<NullReply>> /\ UNCHANGED <<store, clock>>
    BY <1>2 DEF PullCommand, Absent, Answer, Refining, ProperUse,
       Structure, TypeOK
  <2>2. DQ!Keep
    BY <2>1, KeepsKeep
  <2>3. id \notin DOMAIN Pending
    BY <1>2 DEF Refining, PendingAreNodes
  <2>4. QED
    BY <2>1, <2>2, <2>3 DEF DQ!Pull, DQ!Answer, DQ!NullReply, NullReply
<1>3. QED
  BY <1>1, <1>2

(* On a key without a dehydrator a command answers and does nothing. *)
LEMMA AbsentKeeps ==
  ASSUME Refining, NEW reply, Absent(reply)
  PROVE  /\ replies' = <<reply>>
         /\ DQ!Keep
         /\ keyType # "DEHYDRATOR"
         /\ Pending = <<>>
         /\ DQ!Due = {}
<1>1. replies' = <<reply>> /\ UNCHANGED <<store, clock>> /\ keyType # "DEHYDRATOR"
  BY DEF Absent, Refining, ProperUse, Structure, TypeOK
<1>2. Pending = <<>>
  BY <1>1, NoNodesNonePending DEF Refining
<1>3. DQ!Due = {}
  BY <1>2 DEF DQ!Due
<1>4. QED
  BY <1>1, <1>2, <1>3, KeepsKeep

(* An order in which a scan meets the nodes is an order of the due ids. *)
LEMMA ScanOrdersIds ==
  ASSUME Refining, NEW order \in SetToSeqs(DOMAIN timeout_queues)
  PROVE  LET due == Scan(order)
             ids == [i \in DOMAIN due |-> nodes[due[i]].element_id]
         IN  /\ ids \in DQ!SetToSeqs(DQ!Due)
             /\ \A i \in DOMAIN due : /\ due[i] \in DOMAIN nodes
                                      /\ ids[i] = nodes[due[i]].element_id
                                      /\ Pending[ids[i]].element = nodes[due[i]].element
             /\ DOMAIN ids = DOMAIN due
<1> DEFINE due == Scan(order)
           ids == [i \in DOMAIN due |-> nodes[due[i]].element_id]
<1>1. due \in Seq(Addr) /\ IsInjective(due) /\ Range(due) = Due
  BY ScanIsDue DEF Refining
<1>2. Due \subseteq DOMAIN nodes
  BY DueAreNodes DEF Refining, Structure, MapsAgree
<1> HIDE DEF due
<1>3. DOMAIN due = 1 .. Len(due) /\ Len(due) \in Nat
  BY <1>1
<1>4. \A i \in DOMAIN due : due[i] \in DOMAIN nodes
  BY <1>1, <1>2 DEF Range
<1>5. \A a \in DOMAIN nodes : /\ nodes[a].element_id \in Id
                              /\ NodeFor(nodes[a].element_id) = a
  BY DEF Refining, PendingAreNodes, Structure, TypeOK, Node
<1>6. ids \in Seq(Id)
  BY <1>3, <1>4, <1>5
<1>7. /\ DOMAIN ids = DOMAIN due
      /\ \A i \in DOMAIN due : ids[i] = nodes[due[i]].element_id
  OBVIOUS
<1> HIDE DEF ids
<1>8. IsInjective(ids)
  BY <1>1, <1>4, <1>5, <1>7 DEF IsInjective
<1>9. \A id : id \in Range(ids) <=> id \in IdsOf(Due)
  <2>1. \A a : a \in Due <=> \E i \in DOMAIN due : a = due[i]
    BY <1>1 DEF Range
  <2>2. \A id : id \in Range(ids) <=> \E i \in DOMAIN due : id = nodes[due[i]].element_id
    BY <1>7 DEF Range
  <2>3. \A id : id \in IdsOf(Due) <=> \E a \in Due : id = nodes[a].element_id
    BY DEF IdsOf
  <2>4. QED
    BY <2>1, <2>2, <2>3
<1>10. Range(ids) = DQ!Due
  BY <1>9, DueIds DEF Refining
<1>11. ids \in SetToSeqs(DQ!Due)
  BY <1>6, <1>8, <1>10, FullIsArrangement
<1>12. ids \in DQ!SetToSeqs(DQ!Due)
  BY <1>11 DEF DQ!SetToSeqs, SetToSeqs, DQ!Cardinality, Cardinality
<1>13. ASSUME NEW i \in DOMAIN due
       PROVE  Pending[ids[i]].element = nodes[due[i]].element
  <2>1. Pending[ids[i]] = [element    |-> nodes[due[i]].element,
                           expiration |-> nodes[due[i]].expiration]
    BY <1>4, <1>7 DEF Refining, PendingAreNodes
  <2>2. QED
    BY <2>1
<1>14. QED
  BY <1>4, <1>7, <1>12, <1>13 DEF ids, due

(* Without due elements there is one order, the empty one. *)
LEMMA EmptyOrder == <<>> \in DQ!SetToSeqs({})
<1>1. <<>> \in Seq({}) /\ IsInjective(<<>>) /\ Range(<<>>) = {}
  BY DEF IsInjective, Range
<1>2. <<>> \in SetToSeqs({})
  BY <1>1, FullIsArrangement
<1>3. QED
  BY <1>2 DEF DQ!SetToSeqs, SetToSeqs, DQ!Cardinality, Cardinality

(* POLL,                                                                   *)
LEMMA PollRefines ==
  ASSUME Refining, PollCommand
  PROVE  DQ!Poll
<1>1. CASE Absent(ArrayReply(<<>>))
  <2>1. /\ replies' = <<ArrayReply(<<>>)>>
        /\ DQ!Keep /\ Pending = <<>> /\ DQ!Due = {}
    BY <1>1, AbsentKeeps
  <2>2. DQ!Restrict(Pending, DOMAIN Pending \ {}) = Pending
    BY <2>1 DEF DQ!Restrict
  <2>3. DQ!Release({})
    BY <2>1, <2>2 DEF DQ!Keep, DQ!Release
  <2>4. [i \in DOMAIN <<>> |-> DQ!BulkReply(Pending[<<>>[i]].element)] = <<>>
    OBVIOUS
  <2>5. DQ!Answer(DQ!ArrayReply(<<>>))
    BY <2>1 DEF DQ!Answer, DQ!ArrayReply, ArrayReply
  <2>6. QED
    BY <2>1, <2>3, <2>4, <2>5, EmptyOrder DEF DQ!Poll
<1>2. CASE ~ Absent(ArrayReply(<<>>))
  <2>1. RemoveNodes(Due) /\ UNCHANGED clock
    BY <1>2 DEF PollCommand
  <2>2. PICK order \in SetToSeqs(DOMAIN timeout_queues) :
          replies' = <<ArrayReply([i \in DOMAIN Scan(order) |->
                                     BulkReply(nodes[Scan(order)[i]].element)])>>
    BY <1>2 DEF PollCommand, Answer
  <2> DEFINE due == Scan(order)
             ids == [i \in DOMAIN due |-> nodes[due[i]].element_id]
  <2>3. /\ ids \in DQ!SetToSeqs(DQ!Due)
        /\ \A i \in DOMAIN due : Pending[ids[i]].element = nodes[due[i]].element
        /\ DOMAIN ids = DOMAIN due
    BY ScanOrdersIds
  <2>4. Due \in SUBSET DOMAIN nodes
    BY DueAreNodes DEF Refining, Structure, MapsAgree
  <2>5. DQ!Release(DQ!Due)
    BY <2>1, <2>4, RemovalReleases, DueIds DEF Refining
  <2>6. replies' = <<ArrayReply([i \in DOMAIN due |-> BulkReply(nodes[due[i]].element)])>>
    BY <2>2
  <2> HIDE DEF ids, due
  <2>7. [i \in DOMAIN due |-> BulkReply(nodes[due[i]].element)]
          = [i \in DOMAIN ids |-> DQ!BulkReply(Pending[ids[i]].element)]
    BY <2>3 DEF DQ!BulkReply, BulkReply
  <2>8. DQ!Answer(DQ!ArrayReply([i \in DOMAIN ids |-> DQ!BulkReply(Pending[ids[i]].element)]))
    BY <2>6, <2>7 DEF DQ!Answer, DQ!ArrayReply, ArrayReply
  <2>9. QED
    BY <2>3, <2>5, <2>8 DEF DQ!Poll
<1>3. QED
  BY <1>1, <1>2

(* XPOLL,                                                                  *)
LEMMA XPollRefines ==
  ASSUME Refining, XPollCommand
  PROVE  DQ!XPoll
<1>1. CASE Absent(ArrayReply(<<>>))
  <2>1. replies' = <<ArrayReply(<<>>)>> /\ DQ!Keep /\ DQ!Due = {}
    BY <1>1, AbsentKeeps
  <2>2. [i \in DOMAIN <<>> |-> DQ!BulkReply(<<>>[i])] = <<>>
    OBVIOUS
  <2>3. DQ!Answer(DQ!ArrayReply(<<>>))
    BY <2>1 DEF DQ!Answer, DQ!ArrayReply, ArrayReply
  <2>4. QED
    BY <2>1, <2>2, <2>3, EmptyOrder DEF DQ!XPoll
<1>2. CASE ~ Absent(ArrayReply(<<>>))
  <2>1. UNCHANGED <<store, clock>>
    BY <1>2 DEF XPollCommand
  <2>2. PICK order \in SetToSeqs(DOMAIN timeout_queues) :
          replies' = <<ArrayReply([i \in DOMAIN Scan(order) |->
                                     BulkReply(nodes[Scan(order)[i]].element_id)])>>
    BY <1>2 DEF XPollCommand, Answer
  <2> DEFINE due == Scan(order)
             ids == [i \in DOMAIN due |-> nodes[due[i]].element_id]
  <2>3. /\ ids \in DQ!SetToSeqs(DQ!Due)
        /\ \A i \in DOMAIN due : ids[i] = nodes[due[i]].element_id
        /\ DOMAIN ids = DOMAIN due
    BY ScanOrdersIds
  <2>4. replies' = <<ArrayReply([i \in DOMAIN due |-> BulkReply(nodes[due[i]].element_id)])>>
    BY <2>2
  <2> HIDE DEF ids, due
  <2>5. [i \in DOMAIN due |-> BulkReply(nodes[due[i]].element_id)]
          = [i \in DOMAIN ids |-> DQ!BulkReply(ids[i])]
    BY <2>3 DEF DQ!BulkReply, BulkReply
  <2>6. DQ!Answer(DQ!ArrayReply([i \in DOMAIN ids |-> DQ!BulkReply(ids[i])]))
    BY <2>4, <2>5 DEF DQ!Answer, DQ!ArrayReply, ArrayReply
  <2>7. DQ!Keep
    BY <2>1, KeepsKeep
  <2>8. QED
    BY <2>3, <2>6, <2>7 DEF DQ!XPoll
<1>3. QED
  BY <1>1, <1>2

(* XACK,                                                                   *)
LEMMA XAckRefines ==
  ASSUME Refining, NEW n \in 1 .. MaxAcks, NEW ids \in [1 .. n -> Id], XAckCommand(ids)
  PROVE  DQ!XAck(ids)
<1> DEFINE first == {i \in DOMAIN ids : /\ ids[i] \in DQ!Due
                                        /\ \A j \in 1 .. i - 1 : ids[j] # ids[i]}
           acked == Acked(ids)
           freed == {NodeFor(ids[i]) : i \in acked}
<1>1. CASE Absent(ArrayReply(<<>>))
  BY <1>1, AbsentKeeps DEF DQ!XAck, DQ!Answer, DQ!ArrayReply, ArrayReply
<1>2. CASE ~ Absent(ArrayReply(<<>>))
  <2>1. /\ RemoveNodes(freed)
        /\ replies' = <<ArrayReply([i \in DOMAIN ids |->
                          IF i \in acked THEN BulkReply(nodes[NodeFor(ids[i])].element)
                          ELSE NullReply])>>
        /\ UNCHANGED clock
    BY <1>2 DEF XAckCommand, Answer
  <2>2. ASSUME NEW i \in DOMAIN ids
        PROVE  i \in acked <=> i \in first
    <3>1. HasNode(ids[i]) /\ Expired(NodeFor(ids[i])) <=> ids[i] \in DQ!Due
      <4>1. HasNode(ids[i]) <=> ids[i] \in DOMAIN Pending
        BY DEF Refining, PendingAreNodes
      <4>2. HasNode(ids[i]) => /\ NodeFor(ids[i]) \in DOMAIN nodes
                               /\ nodes[NodeFor(ids[i])].element_id = ids[i]
        BY <4>1 DEF Refining, PendingAreNodes
      <4>3. \A id : id \in DQ!Due => id \in DOMAIN Pending
        BY DEF DQ!Due
      <4>4. QED
        BY <4>1, <4>2, <4>3, DueIds DEF Refining
    <3>2. \A j \in 1 .. i - 1 : ids[j] \in Id /\ ids[i] \in Id
      OBVIOUS
    <3>3. \A j \in 1 .. i - 1 : CStr[ids[j]] # CStr[ids[i]] <=> ids[j] # ids[i]
      BY <3>2 DEF Refining, ProperUse, DistinctIds
    <3>4. QED
      BY <3>1, <3>3 DEF Acked
  <2>3. acked = first
    BY <2>2 DEF Acked
  <2>4. \A i \in first : /\ NodeFor(ids[i]) \in DOMAIN nodes
                         /\ nodes[NodeFor(ids[i])].element_id = ids[i]
                         /\ Pending[ids[i]].element = nodes[NodeFor(ids[i])].element
    <3>1. ASSUME NEW i \in first
          PROVE  /\ NodeFor(ids[i]) \in DOMAIN nodes
                 /\ nodes[NodeFor(ids[i])].element_id = ids[i]
      BY DEF DQ!Due, Refining, PendingAreNodes
    <3>2. ASSUME NEW i \in first
          PROVE  Pending[ids[i]] = [element    |-> nodes[NodeFor(ids[i])].element,
                                    expiration |-> nodes[NodeFor(ids[i])].expiration]
      <4>1. \A a \in DOMAIN nodes :
              Pending[nodes[a].element_id] = [element    |-> nodes[a].element,
                                              expiration |-> nodes[a].expiration]
        BY DEF Refining, PendingAreNodes
      <4>2. QED
        BY <3>1, <4>1
    <3>3. ASSUME NEW i \in first
          PROVE  Pending[ids[i]].element = nodes[NodeFor(ids[i])].element
      <4> DEFINE node == nodes[NodeFor(ids[i])]
      <4>1. Pending[ids[i]] = [element |-> node.element, expiration |-> node.expiration]
        BY <3>2
      <4> HIDE DEF node
      <4>2. Pending[ids[i]].element = node.element
        BY <4>1
      <4>3. QED
        BY <4>2 DEF node
    <3>4. QED
      BY <3>1, <3>3
  <2> HIDE DEF acked, first
  <2>5. freed \in SUBSET DOMAIN nodes
    BY <2>3, <2>4
  <2>6. \A id : id \in IdsOf(freed) <=> \E i \in first : id = ids[i]
    BY <2>3, <2>4 DEF IdsOf
  <2>7. IdsOf(freed) = {ids[i] : i \in first}
    BY <2>6
  <2>8. DQ!Release(IdsOf(freed))
    BY <2>1, <2>5, RemovalReleases DEF Refining
  <2>9. [i \in DOMAIN ids |->
           IF i \in acked THEN BulkReply(nodes[NodeFor(ids[i])].element) ELSE NullReply]
          = [i \in DOMAIN ids |->
               IF i \in first THEN DQ!BulkReply(Pending[ids[i]].element) ELSE DQ!NullReply]
    BY <2>3, <2>4 DEF DQ!BulkReply, BulkReply, DQ!NullReply, NullReply
  <2>10. DQ!Answer(DQ!ArrayReply([i \in DOMAIN ids |->
            IF i \in first THEN DQ!BulkReply(Pending[ids[i]].element) ELSE DQ!NullReply]))
    BY <2>1, <2>9 DEF DQ!Answer, DQ!ArrayReply, ArrayReply
  <2>11. QED
    BY <2>7, <2>8, <2>10 DEF DQ!XAck, first
<1>3. QED
  BY <1>1, <1>2

(* LOOK,                                                                   *)
LEMMA LookRefines ==
  ASSUME Refining, NEW id \in Id, LookCommand(id)
  PROVE  DQ!Look(id)
<1>1. HasNode(id) <=> id \in DOMAIN Pending
  BY DEF Refining, PendingAreNodes
<1>2. UNCHANGED <<store, clock>>
  BY DEF LookCommand, Absent
<1>3. DQ!Keep
  BY <1>2, KeepsKeep
<1>4. CASE HasNode(id)
  <2>1. keyType = "DEHYDRATOR"
    BY <1>4, NoNodesNonePending DEF Refining
  <2>2. NodeFor(id) \in DOMAIN nodes /\ nodes[NodeFor(id)].element_id = id
    BY <1>1, <1>4 DEF Refining, PendingAreNodes
  <2>3. Pending[id] = [element    |-> nodes[NodeFor(id)].element,
                       expiration |-> nodes[NodeFor(id)].expiration]
    BY <2>2 DEF Refining, PendingAreNodes
  <2>4. Pending[id].element = nodes[NodeFor(id)].element
    BY <2>3
  <2>5. replies' = <<BulkReply(Pending[id].element)>>
    BY <1>4, <2>1, <2>4 DEF LookCommand, Absent, Answer
  <2>6. QED
    BY <1>1, <1>3, <1>4, <2>5 DEF DQ!Look, DQ!Answer, DQ!BulkReply, BulkReply
<1>5. CASE ~ HasNode(id)
  <2>1. replies' = <<NullReply>>
    BY <1>5, AbsentKeeps DEF LookCommand, Answer
  <2>2. QED
    BY <1>1, <1>3, <1>5, <2>1 DEF DQ!Look, DQ!Answer, DQ!NullReply, NullReply
<1>6. QED
  BY <1>4, <1>5

(* UPDATE,                                                                 *)
LEMMA UpdateRefines ==
  ASSUME Refining, NEW id \in Id, NEW e \in Element, UpdateCommand(id, e)
  PROVE  DQ!Update(id, e)
<1>1. HasNode(id) <=> id \in DOMAIN Pending
  BY DEF Refining, PendingAreNodes
<1>2. CASE Absent(NoDehydrator)
  <2>1. replies' = <<NoDehydrator>> /\ DQ!Keep /\ keyType # "DEHYDRATOR" /\ Pending = <<>>
    BY <1>2, AbsentKeeps
  <2>2. id \notin DOMAIN Pending
    BY <2>1
  <2>3. DQ!Answer(DQ!NoDehydrator)
    BY <2>1 DEF DQ!Answer, DQ!NoDehydrator, NoDehydrator, DQ!ErrorReply, ErrorReply
  <2>4. QED
    BY <2>1, <2>2, <2>3 DEF DQ!Update, DQ!Answer
<1>3. CASE ~ Absent(NoDehydrator) /\ HasNode(id)
  <2>1. /\ keyType = "DEHYDRATOR"
        /\ replies' = <<BulkReply(nodes[NodeFor(id)].element)>>
        /\ nodes' = [nodes EXCEPT ![NodeFor(id)].element = e]
        /\ UNCHANGED <<keyType, clock>>
    BY <1>3 DEF UpdateCommand, Answer
  <2>2. NodeFor(id) \in DOMAIN nodes /\ nodes[NodeFor(id)].element_id = id
    BY <1>1, <1>3 DEF Refining, PendingAreNodes
  <2>3. Pending[id] = [element    |-> nodes[NodeFor(id)].element,
                       expiration |-> nodes[NodeFor(id)].expiration]
    BY <2>2 DEF Refining, PendingAreNodes
  <2>4. Pending[id].element = nodes[NodeFor(id)].element
    BY <2>3
  <2>5. Pending' = [Pending EXCEPT ![id].element = e]
    BY <1>1, <1>3, <2>1, UpdateReplaces DEF Refining
  <2>6. DQ!Answer(DQ!BulkReply(Pending[id].element))
    BY <2>1, <2>4 DEF DQ!Answer, DQ!BulkReply, BulkReply
  <2>7. QED
    BY <1>1, <1>3, <2>1, <2>5, <2>6 DEF DQ!Update
<1>4. CASE ~ Absent(NoDehydrator) /\ ~ HasNode(id)
  <2>1. keyType = "DEHYDRATOR" /\ replies' = <<NoElement>> /\ UNCHANGED <<store, clock>>
    BY <1>4 DEF UpdateCommand, Answer
  <2>2. DQ!Keep
    BY <2>1, KeepsKeep
  <2>3. QED
    BY <1>1, <1>4, <2>1, <2>2
       DEF DQ!Update, DQ!Answer, DQ!NoElement, NoElement, DQ!ErrorReply, ErrorReply
<1>5. QED
  BY <1>2, <1>3, <1>4

(* TTN,                                                                    *)
LEMMA TtnRefines ==
  ASSUME Refining, TimeToNextCommand
  PROVE  DQ!Ttn
<1> DEFINE left == {nodes[a].expiration - clock : a \in DOMAIN nodes}
           times == {Pending[id].expiration - clock : id \in DOMAIN Pending}
<1>1. UNCHANGED <<store, clock>>
  BY DEF TimeToNextCommand, Absent
<1>2. DQ!Keep
  BY <1>1, KeepsKeep
<1>3. left = times
  <2>1. ASSUME NEW a \in DOMAIN nodes
        PROVE  Pending[nodes[a].element_id].expiration = nodes[a].expiration
    <3>1. Pending[nodes[a].element_id] = [element    |-> nodes[a].element,
                                          expiration |-> nodes[a].expiration]
      BY DEF Refining, PendingAreNodes
    <3>2. QED
      BY <3>1
  <2>2. \A id \in DOMAIN Pending : NodeFor(id) \in DOMAIN nodes
                                   /\ nodes[NodeFor(id)].element_id = id
    BY DEF Refining, PendingAreNodes
  <2>3. \A a \in DOMAIN nodes : nodes[a].element_id \in DOMAIN Pending
    BY DEF Refining, PendingAreNodes
  <2>4. \A n : n \in left => n \in times
    BY <2>1, <2>3
  <2>5. \A n : n \in times => n \in left
    <3>1. ASSUME NEW id \in DOMAIN Pending
          PROVE  Pending[id].expiration - clock \in left
      BY <2>1, <2>2
    <3>2. QED
      BY <3>1
  <2>6. QED
    BY <2>4, <2>5
<1>4. CASE Absent(NullReply)
  BY <1>2, <1>4, AbsentKeeps DEF DQ!Ttn, DQ!Answer, DQ!NullReply, NullReply
<1>5. CASE ~ Absent(NullReply)
  <2>1. keyType = "DEHYDRATOR" /\ replies' = <<IntegerReply(TimeToNext)>>
    BY <1>5 DEF TimeToNextCommand, Answer
  <2>2. TimeToNext = IF left = {} THEN -1 ELSE Max({0, Min(left)})
    BY <2>1 DEF Refining, TtnExact
  <2> HIDE DEF left, times
  <2>3. DQ!Max({0, DQ!Min(times)}) = Max({0, Min(left)})
    BY <1>3 DEF DQ!Max, Max, DQ!Min, Min
  <2>4. replies' = <<IF times = {} THEN DQ!IntegerReply(-1)
                     ELSE DQ!IntegerReply(DQ!Max({0, DQ!Min(times)}))>>
    BY <1>3, <2>1, <2>2, <2>3 DEF DQ!IntegerReply, IntegerReply
  <2>5. QED
    BY <1>2, <2>1, <2>4 DEF DQ!Ttn, DQ!Answer, times
<1>6. QED
  BY <1>4, <1>5

(* and PRINT do to the elements what DelayQueue says.                      *)
LEMMA PrintRefines ==
  ASSUME Refining, PrintCommand
  PROVE  DQ!Dump
<1>1. CASE Absent(NullReply)
  BY <1>1, AbsentKeeps DEF DQ!Dump, DQ!Answer, DQ!NullReply, NullReply
<1>2. CASE ~ Absent(NullReply)
  BY <1>2, KeepsKeep
     DEF PrintCommand, Answer, DQ!Dump, DQ!Answer, DQ!StatusReply, StatusReply
<1>3. QED
  BY <1>1, <1>2

(* A command with the wrong number of arguments does nothing to them.      *)
LEMMA RefusalRefines ==
  ASSUME Refining, BadArity
  PROVE  DQ!Refuse
  BY KeepsKeep
     DEF BadArity, Answer, DQ!Refuse, DQ!Answer, DQ!WrongArity, WrongArity,
         DQ!ErrorReply, ErrorReply

(* DEL drops them all.                                                     *)
LEMMA DeletionRefines ==
  ASSUME Refining, DelKey
  PROVE  DQ!Drop
  BY DeletionDrops DEF Refining, DelKey, DQ!Drop

(* Time passes for both.                                                   *)
LEMMA TickRefines ==
  ASSUME Refining, Tick
  PROVE  DQ!Tick
<1>1. Pending' = Pending
  BY DEF Tick, Pending, NodeFor, store
<1>2. QED
  BY <1>1 DEF Tick, DQ!Tick, store

(* Every step on nodes, queues and map is a step of DelayQueue, or none.   *)
LEMMA NextRefines ==
  ASSUME Refining, [Next]_vars
  PROVE  [DQ!Next]_DQ!vars
<1>1. CASE UNCHANGED vars
  <2>1. Pending' = Pending
    BY <1>1 DEF vars, Pending, NodeFor
  <2>2. QED
    BY <1>1, <2>1 DEF vars, DQ!vars
<1>2. CASE Next
  <2>1. BadTimeout = {} /\ Foreign = {} /\ StepsBack = {}
    BY DEF Refining, ProperUse, SteadyClock
  <2>2. ASSUME NEW t \in Ttl, NEW e \in Element, NEW id \in Id, PushCommand(t, e, id)
        PROVE  DQ!Next
    BY <2>2, PushRefines DEF DQ!Next
  <2>3. ASSUME NEW t \in Ttl, NEW e \in Element, GIDPushCommand(t, e)
        PROVE  DQ!Next
    BY <2>3, GidPushRefines DEF DQ!Next
  <2>4. ASSUME NEW id \in Id, PullCommand(id)
        PROVE  DQ!Next
    BY <2>4, PullRefines DEF DQ!Next
  <2>5. CASE PollCommand
    BY <2>5, PollRefines DEF DQ!Next
  <2>6. CASE XPollCommand
    BY <2>6, XPollRefines DEF DQ!Next
  <2>7. ASSUME NEW n \in 1 .. MaxAcks, NEW ids \in [1 .. n -> Id], XAckCommand(ids)
        PROVE  DQ!Next
    BY <2>7, XAckRefines DEF DQ!Next
  <2>8. ASSUME NEW id \in Id, LookCommand(id)
        PROVE  DQ!Next
    BY <2>8, LookRefines DEF DQ!Next
  <2>9. ASSUME NEW id \in Id, NEW e \in Element, UpdateCommand(id, e)
        PROVE  DQ!Next
    BY <2>9, UpdateRefines DEF DQ!Next
  <2>10. CASE TimeToNextCommand
    BY <2>10, TtnRefines DEF DQ!Next
  <2>11. CASE PrintCommand
    BY <2>11, PrintRefines DEF DQ!Next
  <2>12. CASE BadArity
    BY <2>12, RefusalRefines DEF DQ!Next
  <2>13. CASE DelKey
    BY <2>13, DeletionRefines DEF DQ!Next
  <2>14. CASE OverwriteKey \/ StepBack
    BY <2>1, <2>14 DEF OverwriteKey, StepBack
  <2>15. CASE Tick
    BY <2>15, TickRefines DEF DQ!Next
  <2>16. QED
    BY <1>2, <2>1, <2>2, <2>3, <2>4, <2>5, <2>6, <2>7, <2>8, <2>9, <2>10, <2>11, <2>12,
       <2>13, <2>14, <2>15
       DEF Next, Command
<1>3. QED
  BY <1>1, <1>2

(* Every command, on queues and maps, answers and changes what DelayQueue  *)
(* says it does, for any elements, ids and timeouts no conversion confuses *)
(* (module.c 616-1106).                                                    *)
THEOREM DehydratorImplementsDelayQueue ==
  ASSUME ProperUse
  PROVE  Spec => ImplementsDelayQueue
<1>1. DistinctIds /\ DistinctQueues /\ DeadlinesFit /\ SteadyClock /\ TimesLeftFit
  BY DEF ProperUse
<1>2. Init => DQ!Init
  BY DEF Init, DQ!Init, Pending
<1>3. Structure /\ Timed /\ Structure' /\ [Next]_vars => [DQ!Next]_DQ!vars
  <2>1. Structure /\ Timed => PendingAreNodes /\ AllExpiredAreDue /\ TtnExact
    BY <1>1, StructurePends, TimedScansReachAll, TimedTtnIsExact
  <2>2. Structure' => PendingAreNodes'
    BY <1>1, StructurePendsNext
  <2>3. QED
    BY <2>1, <2>2, NextRefines DEF Refining
<1>4. Spec => [](Structure /\ Timed)
  BY <1>1, TimedInvariant
<1>5. QED
  BY <1>2, <1>3, <1>4, PTL DEF Spec, ImplementsDelayQueue, DQ!Spec

=============================================================================
