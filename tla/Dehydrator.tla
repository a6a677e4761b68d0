---------------------------- MODULE Dehydrator -----------------------------
(***************************************************************************)
(* One Redis key that holds, or may hold, a dehydrator, and the REDE       *)
(* commands that work on it (src/src/module.c).                            *)
(*                                                                         *)
(* A dehydrator keeps every element in a node.  The nodes are chained in   *)
(* queues, one for each timeout, newest at the tail (timeout_queues), and  *)
(* found by element id through a second map (element_nodes).  Redis runs   *)
(* one command at a time, so a command is one step; between two commands   *)
(* the clock may move and other Redis commands may delete or replace the   *)
(* key.                                                                    *)
(*                                                                         *)
(* Three conversions of the C code are kept, because properties tell them  *)
(* apart: an id is looked up as a C string (CStr), the queue of a timeout  *)
(* is chosen by its low 32 bits (ToUint), and times are 64-bit (ToLong)    *)
(* or, in TTN, 32-bit (ToInt) signed integers.  The widths are parameters. *)
(***************************************************************************)
EXTENDS Integers, FiniteSets, SequencesExt, Replies

CONSTANTS
  Id,           \* element ids, the generated ones included
  Gid,          \* the ids generate_id can return
  CStr,         \* an id as strcmp reads it: cut at its first NUL byte
  Element,      \* payloads
  Ttl,          \* timeouts that parse as a long long
  BadTimeout,   \* timeouts that do not
  Addr,         \* node addresses: bounds the elements held at one time
  IntMod,       \* 2^32 in the code
  LongMod,      \* 2^64 in the code
  Foreign,      \* types of value other Redis commands may put on the key
  StepsBack,    \* by how much CLOCK_REALTIME may be set back
  MaxClock,     \* bounds the clock
  MaxAcks       \* bounds the ids given to one XACK

ASSUME GidAssumption == Gid \subseteq Id

ASSUME TtlAssumption == Ttl \subseteq Int /\ Ttl \cap BadTimeout = {}

ASSUME WidthAssumption == /\ IntMod \in Nat \ {0}
                          /\ LongMod \in Nat \ {0}

ASSUME ClockAssumption == MaxClock \in Nat /\ StepsBack \subseteq Nat

ASSUME ForeignAssumption == Foreign \cap {"EMPTY", "DEHYDRATOR"} = {}

VARIABLES
  keyType,         \* RedisModule_KeyType and RedisModule_ModuleTypeGetType
  nodes,           \* the allocated ElementListNodes, by address
  timeout_queues,  \* the ElementList of each timeout, head first
  element_nodes,   \* the node of each element id
  clock,           \* CLOCK_REALTIME in milliseconds
  replies          \* what the last REDE command sent to its client

store == <<keyType, nodes, timeout_queues, element_nodes>>
vars  == <<keyType, nodes, timeout_queues, element_nodes, clock, replies>>

----------------------------------------------------------------------------
(* Integer conversions of C. *)

(* Mutants: the key not truncated; too few bits kept. *)
ToUint_Whole(n)  == n
ToUint_Narrow(n) == n % 2

ToUint(n) == n % IntMod

ToInt(n)  == ((n + IntMod \div 2) % IntMod) - IntMod \div 2

ToLong(n) == ((n + LongMod \div 2) % LongMod) - LongMod \div 2

----------------------------------------------------------------------------
(* The two maps and the queues. *)

(* kh_put followed by an assignment to kh_value. *)
Put(map, key, value) ==
  [k \in DOMAIN map \cup {key} |-> IF k = key THEN value ELSE map[k]]

(* A queue once the nodes of R have been unlinked from it. *)
Without(queue, R) ==
  LET kept[i \in 0 .. Len(queue)] ==
        IF i = 0 THEN <<>>
        ELSE IF queue[i] \in R THEN kept[i - 1]
        ELSE Append(kept[i - 1], queue[i])
  IN  kept[Len(queue)]

Queued == UNION {Range(timeout_queues[t]) : t \in DOMAIN timeout_queues}

(* _getNodeForID: whether it finds a node, and which. *)
HasNode(id) == CStr[id] \in DOMAIN element_nodes
NodeFor(id) == element_nodes[CStr[id]]

Expired(a) == nodes[a].expiration <= clock

(* Mutant: `if` for `while`, one node of each queue at most. *)
DueIn_HeadOnly(queue) ==
  {queue[i] : i \in {i \in DOMAIN queue : i = 1 /\ Expired(queue[i])}}

(* The nodes a scan from the heads reaches before the first one of a queue *)
(* that has not expired: what POLL pops and XPOLL reports.                 *)
DueIn(queue) ==
  {queue[i] : i \in {i \in DOMAIN queue : \A j \in 1 .. i : Expired(queue[j])}}

Due == UNION {DueIn(timeout_queues[t]) : t \in DOMAIN timeout_queues}

(* The due nodes in the order the scan meets them, when the buckets of     *)
(* timeout_queues come in the given order.                                 *)
Scan(order) ==
  FlattenSeq([i \in DOMAIN order |->
                Without(timeout_queues[order[i]], DOMAIN nodes \ Due)])

(* Mutant: the mapping keeps the ids of freed nodes. *)
Unmapped_Never(R) == element_nodes

(* The mapping after _removeNodeFromMapping for each node of R. *)
Unmapped(R) ==
  Restrict(element_nodes,
           DOMAIN element_nodes \ {CStr[nodes[a].element_id] : a \in R})

(* Mutant: an emptied queue stays in the map. *)
Unlinked_KeepEmpty(R) ==
  [t \in DOMAIN timeout_queues |->
     Without(timeout_queues[t], {a \in R : nodes[a].ttl = t})]

(* The queues after _listPull (or POLL's _listPop) of each node of R: a    *)
(* node is looked for in the queue of its own ttl, and a queue that        *)
(* becomes empty leaves the map.                                           *)
Unlinked(R) ==
  LET rest == [t \in DOMAIN timeout_queues |->
                 Without(timeout_queues[t], {a \in R : nodes[a].ttl = t})]
  IN  Restrict(rest, {t \in DOMAIN rest : rest[t] # <<>>})

(* Unlink the nodes of R, drop them from the mapping and free them. *)
RemoveNodes(R) ==
  /\ timeout_queues' = Unlinked(R)
  /\ element_nodes' = Unmapped(R)
  /\ nodes' = Restrict(nodes, DOMAIN nodes \ R)
  /\ UNCHANGED keyType

----------------------------------------------------------------------------
(* The commands.  Each ends with its answer to the client. *)

Answer(reply) == replies' = <<reply>>

(* validateDehydratorKey found no dehydrator and may not create one.  On a *)
(* value of another type it has already sent an error of its own.          *)
Absent(reply) ==
  /\ keyType # "DEHYDRATOR"
  /\ replies' = IF keyType = "EMPTY" THEN <<reply>> ELSE <<WrongType, reply>>
  /\ UNCHANGED <<store, clock>>

NewNode(ttl, element, element_id) ==
  [element    |-> element,
   element_id |-> element_id,
   ttl        |-> ToUint(ttl),
   expiration |-> ToLong(clock + ttl)]

QueueOf(t) == IF t \in DOMAIN timeout_queues THEN timeout_queues[t] ELSE <<>>

(* A new node, at address a, goes to the tail of the queue of its ttl and  *)
(* into the mapping.                                                       *)
AddNode(a, ttl, element, element_id) ==
  /\ nodes' = Put(nodes, a, NewNode(ttl, element, element_id))
  /\ timeout_queues' =
       Put(timeout_queues, ToUint(ttl), Append(QueueOf(ToUint(ttl)), a))
  /\ element_nodes' = Put(element_nodes, CStr[element_id], a)

(* push_impl, on the dehydrator that was there or has just been created. A *)
(* timeout that does not parse makes it return before anything is stored,  *)
(* and its callers then answer nothing.                                    *)
push_impl(timeout, element, element_id, reply) ==
  \/ /\ timeout \in BadTimeout
     /\ replies' = <<>>
     /\ UNCHANGED <<nodes, timeout_queues, element_nodes, clock>>
  \/ /\ timeout \in Ttl
     /\ \E a \in Addr \ DOMAIN nodes : AddNode(a, timeout, element, element_id)
     /\ Answer(reply)
     /\ UNCHANGED clock

(* validateDehydratorKey with a name: an empty key becomes a dehydrator. *)
OpenOrCreate == keyType \notin Foreign /\ keyType' = "DEHYDRATOR"

PushRefused == keyType \in Foreign /\ Absent(NotDehydrator)

PushCommand(timeout, element, element_id) ==
  \/ PushRefused
  \/ /\ OpenOrCreate
     /\ \/ /\ HasNode(element_id)
           /\ Answer(Duplicate)
           /\ UNCHANGED <<nodes, timeout_queues, element_nodes, clock>>
        \/ /\ ~ HasNode(element_id)
           /\ push_impl(timeout, element, element_id, StatusReply("OK"))

(* The loop draws ids until one is not in use. *)
GIDPushCommand(timeout, element) ==
  \/ PushRefused
  \/ /\ OpenOrCreate
     /\ \E element_id \in Gid :
          /\ ~ HasNode(element_id)
          /\ push_impl(timeout, element, element_id, BulkReply(element_id))

PullCommand(element_id) ==
  \/ Absent(NullReply)
  \/ /\ keyType = "DEHYDRATOR"
     /\ \/ /\ HasNode(element_id)
           /\ RemoveNodes({NodeFor(element_id)})
           /\ Answer(BulkReply(nodes[NodeFor(element_id)].element))
        \/ /\ ~ HasNode(element_id)
           /\ Answer(NullReply)
           /\ UNCHANGED store
     /\ UNCHANGED clock

PollCommand ==
  \/ Absent(ArrayReply(<<>>))
  \/ /\ keyType = "DEHYDRATOR"
     /\ RemoveNodes(Due)
     /\ \E order \in SetToSeqs(DOMAIN timeout_queues) :
          LET due == Scan(order)
          IN  Answer(ArrayReply([i \in DOMAIN due |->
                                   BulkReply(nodes[due[i]].element)]))
     /\ UNCHANGED clock

XPollCommand ==
  \/ Absent(ArrayReply(<<>>))
  \/ /\ keyType = "DEHYDRATOR"
     /\ \E order \in SetToSeqs(DOMAIN timeout_queues) :
          LET due == Scan(order)
          IN  Answer(ArrayReply([i \in DOMAIN due |->
                                   BulkReply(nodes[due[i]].element_id)]))
     /\ UNCHANGED <<store, clock>>

(* Mutants: a repeated id counts again; an element not yet expired is taken. *)
Acked_Again(ids) ==
  {i \in DOMAIN ids : HasNode(ids[i]) /\ Expired(NodeFor(ids[i]))}
Acked_Early(ids) ==
  {i \in DOMAIN ids : /\ HasNode(ids[i])
                      /\ \A j \in 1 .. i - 1 : CStr[ids[j]] # CStr[ids[i]]}

(* The positions of the argument list for which XACK removes a node.  The  *)
(* ids are handled one after the other, so an id given twice is found only *)
(* the first time.                                                         *)
Acked(ids) ==
  {i \in DOMAIN ids : /\ HasNode(ids[i])
                      /\ Expired(NodeFor(ids[i]))
                      /\ \A j \in 1 .. i - 1 : CStr[ids[j]] # CStr[ids[i]]}

XAckCommand(ids) ==
  \/ Absent(ArrayReply(<<>>))
  \/ /\ keyType = "DEHYDRATOR"
     /\ RemoveNodes({NodeFor(ids[i]) : i \in Acked(ids)})
     /\ Answer(ArrayReply([i \in DOMAIN ids |->
                 IF i \in Acked(ids)
                   THEN BulkReply(nodes[NodeFor(ids[i])].element)
                   ELSE NullReply]))
     /\ UNCHANGED clock

LookCommand(element_id) ==
  \/ Absent(NullReply)
  \/ /\ keyType = "DEHYDRATOR"
     /\ Answer(IF HasNode(element_id)
                 THEN BulkReply(nodes[NodeFor(element_id)].element)
                 ELSE NullReply)
     /\ UNCHANGED <<store, clock>>

UpdateCommand(element_id, element) ==
  \/ Absent(NoDehydrator)
  \/ /\ keyType = "DEHYDRATOR"
     /\ \/ /\ HasNode(element_id)
           /\ Answer(BulkReply(nodes[NodeFor(element_id)].element))
           /\ nodes' = [nodes EXCEPT ![NodeFor(element_id)].element = element]
           /\ UNCHANGED <<keyType, timeout_queues, element_nodes>>
        \/ /\ ~ HasNode(element_id)
           /\ Answer(NoElement)
           /\ UNCHANGED store
     /\ UNCHANGED clock

(* Mutant: a deadline that has passed is not turned into 0. *)
TimeToNext_Unclamped ==
  LET left == {ToInt(nodes[Head(timeout_queues[t])].expiration - clock) :
                 t \in DOMAIN timeout_queues}
  IN  IF left = {} THEN -1 ELSE Min(left)

(* The scan of the heads; `int tmp` holds only the low 32 bits of the      *)
(* difference.                                                             *)
TimeToNext ==
  LET left == {ToInt(nodes[Head(timeout_queues[t])].expiration - clock) :
                 t \in DOMAIN timeout_queues}
  IN  IF left = {} THEN -1
      ELSE IF \E n \in left : n <= 0 THEN 0
      ELSE Min(left)

TimeToNextCommand ==
  \/ Absent(NullReply)
  \/ /\ keyType = "DEHYDRATOR"
     /\ Answer(IntegerReply(TimeToNext))
     /\ UNCHANGED <<store, clock>>

PrintCommand ==
  \/ Absent(NullReply)
  \/ /\ keyType = "DEHYDRATOR"
     /\ Answer(StatusReply("dump"))
     /\ UNCHANGED <<store, clock>>

(* The argc test every command starts with. *)
BadArity == Answer(WrongArity) /\ UNCHANGED <<store, clock>>

----------------------------------------------------------------------------
(* The world around the module. *)

(* deleteDehydrator frees what the queues hold. *)
deleteDehydrator ==
  /\ nodes' = Restrict(nodes, DOMAIN nodes \ Queued)
  /\ timeout_queues' = <<>>
  /\ element_nodes' = <<>>

(* DEL, or the key expires. *)
DelKey ==
  /\ keyType # "EMPTY"
  /\ keyType' = "EMPTY"
  /\ deleteDehydrator
  /\ UNCHANGED <<clock, replies>>

(* SET, RENAME and the like put a value of another type on the key. *)
OverwriteKey ==
  /\ keyType' \in Foreign
  /\ deleteDehydrator
  /\ UNCHANGED <<clock, replies>>

Tick ==
  /\ clock < MaxClock
  /\ clock' = clock + 1
  /\ UNCHANGED <<store, replies>>

(* The wall clock is set back. *)
StepBack ==
  /\ \E d \in StepsBack : d <= clock /\ clock' = clock - d
  /\ UNCHANGED <<store, replies>>

----------------------------------------------------------------------------
Init ==
  /\ keyType = "EMPTY"
  /\ nodes = <<>>
  /\ timeout_queues = <<>>
  /\ element_nodes = <<>>
  /\ clock = 0
  /\ replies = <<>>

Command ==
  \/ \E t \in Ttl \cup BadTimeout, e \in Element, id \in Id :
       PushCommand(t, e, id)
  \/ \E t \in Ttl \cup BadTimeout, e \in Element : GIDPushCommand(t, e)
  \/ \E id \in Id : PullCommand(id)
  \/ PollCommand
  \/ XPollCommand
  \/ \E n \in 1 .. MaxAcks : \E ids \in [1 .. n -> Id] : XAckCommand(ids)
  \/ \E id \in Id : LookCommand(id)
  \/ \E id \in Id, e \in Element : UpdateCommand(id, e)
  \/ TimeToNextCommand
  \/ PrintCommand
  \/ BadArity

Next == Command \/ DelKey \/ OverwriteKey \/ Tick \/ StepBack

Spec == Init /\ [][Next]_vars

----------------------------------------------------------------------------
(* Properties. *)

Node == [element : Element, element_id : Id, ttl : 0 .. IntMod - 1, expiration : Int]

(* Every variable has the shape its C declaration gives it: the maps of the *)
(* Dehydrator struct and the fields of ElementListNode.                     *)
TypeOK ==
  /\ keyType \in {"EMPTY", "DEHYDRATOR"} \cup Foreign
  /\ DOMAIN nodes \subseteq Addr
  /\ \A a \in DOMAIN nodes : nodes[a] \in Node
  /\ DOMAIN timeout_queues \subseteq 0 .. IntMod - 1
  /\ \A t \in DOMAIN timeout_queues : timeout_queues[t] \in Seq(Addr)
  /\ \A k \in DOMAIN element_nodes : element_nodes[k] \in Addr
  /\ clock \in 0 .. MaxClock

(* A queue links allocated nodes only, each of them filed under its ttl. *)
QueuesHoldNodes ==
  \A t \in DOMAIN timeout_queues : \A i \in DOMAIN timeout_queues[t] :
    /\ timeout_queues[t][i] \in DOMAIN nodes
    /\ nodes[timeout_queues[t][i]].ttl = t

(* No node is linked twice. *)
LinkedOnce ==
  \A t \in DOMAIN timeout_queues : IsInjective(timeout_queues[t])

(* Every allocated node is in the queue of its ttl. *)
NodesQueued ==
  \A a \in DOMAIN nodes :
    /\ nodes[a].ttl \in DOMAIN timeout_queues
    /\ \E i \in DOMAIN timeout_queues[nodes[a].ttl] :
         timeout_queues[nodes[a].ttl][i] = a

(* The mapping leads from the id of every node to that node, so no two     *)
(* nodes share an id,                                                      *)
NodesMapped ==
  \A a \in DOMAIN nodes :
    /\ CStr[nodes[a].element_id] \in DOMAIN element_nodes
    /\ element_nodes[CStr[nodes[a].element_id]] = a

(* and never to a node that was freed or has another id. *)
MappingLive ==
  \A k \in DOMAIN element_nodes :
    /\ element_nodes[k] \in DOMAIN nodes
    /\ CStr[nodes[element_nodes[k]].element_id] = k

(* The two maps of a dehydrator and the allocated nodes describe the same  *)
(* elements after every command, in whatever order elements were pushed,   *)
(* polled, pulled and acknowledged; and a key that is no dehydrator leaves *)
(* no node behind.  A node freed but still mapped or linked, or unlinked   *)
(* but never freed, violates it.                                           *)
MapsAgree ==
  /\ QueuesHoldNodes
  /\ LinkedOnce
  /\ NodesQueued
  /\ NodesMapped
  /\ MappingLive
  /\ keyType # "DEHYDRATOR" => DOMAIN nodes = {} /\ DOMAIN timeout_queues = {}

(* A queue is dropped from timeout_queues with its last node: the scans of *)
(* POLL, XPOLL and TTN cost one step for each ttl in use, not for each ttl *)
(* ever used, and TTN may read the head of every queue it finds.           *)
NoEmptyQueue ==
  \A t \in DOMAIN timeout_queues : timeout_queues[t] # <<>>

(* "Each queue would be self-sorted by expiration" (docs/Algorithm.md:36): *)
(* what makes it right to stop a scan at the first node not yet expired.   *)
QueuesSorted ==
  \A t \in DOMAIN timeout_queues : \A i, j \in DOMAIN timeout_queues[t] :
    i < j => nodes[timeout_queues[t][i]].expiration
               <= nodes[timeout_queues[t][j]].expiration

(* POLL: "Pull and return all the expired elements" (docs/Commands.md:119):*)
(* no expired node is hidden from the scan behind one that has not.        *)
AllExpiredAreDue == \A a \in DOMAIN nodes : Expired(a) => a \in Due

(* TTN: "int representing the number of milliseconds until next element    *)
(* will expire" (docs/Commands.md:260): the scan of the queue heads finds the  *)
(* earliest deadline of all elements, 0 when one has passed, -1 when there *)
(* is none.                                                                *)
TtnExact ==
  LET left == {nodes[a].expiration - clock : a \in DOMAIN nodes}
  IN  keyType = "DEHYDRATOR" =>
        TimeToNext = IF left = {} THEN -1 ELSE Max({0, Min(left)})

(* What a step takes out of the store, and how it has to be answered: by   *)
(* the element, or by an array with the elements, which have all expired.  *)
Gone == DOMAIN nodes \ DOMAIN nodes'

Delivers ==
  /\ Len(replies') = 1
  /\ \/ \E a \in Gone : Gone = {a} /\ replies' = <<BulkReply(nodes[a].element)>>
     \/ /\ \A a \in Gone : Expired(a)
        /\ "array" \in DOMAIN replies'[1]
        /\ \A e \in Element :
             Cardinality({a \in Gone : nodes[a].element = e}) =
             Cardinality({i \in DOMAIN replies'[1].array :
                            replies'[1].array[i] = BulkReply(e)})

(* Delivery, at most once and never lost: while the dehydrator stands, the *)
(* elements that leave it in a step are exactly the ones its answer hands  *)
(* over, and one that has not expired leaves only by itself (PULL).  A     *)
(* POLL over several queues, or an XACK of several ids, must not answer an *)
(* element twice or free one it did not answer.                            *)
HandedOver == [][Gone # {} /\ keyType' = "DEHYDRATOR" => Delivers]_vars

(* The elements of DelayQueue are found through the mapping, and their     *)
(* deadlines read from the nodes.                                          *)
Pending ==
  [id \in {nodes[a].element_id : a \in DOMAIN nodes} |->
     [element    |-> nodes[NodeFor(id)].element,
      expiration |-> nodes[NodeFor(id)].expiration]]

DQ == INSTANCE DelayQueue WITH open <- keyType = "DEHYDRATOR", pending <- Pending

(* Every command, working on queues, maps and nodes of machine integers,   *)
(* answers and changes what it would if the dehydrator were one set of     *)
(* elements with deadlines (DelayQueue).  Where docs/Commands.md says      *)
(* something else than the code, DelayQueue follows the code and names the *)
(* line: XACK (193) and UPDATE (296).                                      *)
ImplementsDelayQueue == DQ!Spec

----------------------------------------------------------------------------
(* What a document of the repository says and the code does not do; each   *)
(* is refuted by a run of its own.                                         *)

(* "OK" on success, Error ... (docs/Commands.md:36): every command is      *)
(* answered exactly once, so that a client can pair answers with requests. *)
OneReplyPerCommand == [][Command => Len(replies') = 1]_vars

(* XACK: "If no elements are expired, the key is empty or the key contains *)
(* something other the a dehydrator, an empty list will be returned"       *)
(* (docs/Commands.md:193).  The code answers one Null for each id instead, *)
(* as its comment says it does (module.c:1053).                            *)
XAckOfNoneExpiredIsEmpty ==
  [][(\E n \in 1 .. MaxAcks : \E ids \in [1 .. n -> Id] : XAckCommand(ids))
       /\ (\A a \in DOMAIN nodes : ~ Expired(a))
     => replies' = <<ArrayReply(<<>>)>>]_vars
============================================================================
