---------------------------- MODULE Persistence ----------------------------
(***************************************************************************)
(* Saving a dehydrator and loading it again (DehydratorTypeRdbSave and     *)
(* DehydratorTypeRdbLoad in src/src/module.c), around crashes of the       *)
(* server.                                                                 *)
(*                                                                         *)
(* Redis forks to save: the image is of one moment between two commands,   *)
(* and becomes the snapshot on disk some time later.  A crash loses the    *)
(* memory and an image not yet complete; the server then starts from the   *)
(* snapshot, and the deadlines in it, being absolute, go on counting while *)
(* the server is down.                                                     *)
(*                                                                         *)
(* The stream is a sequence of unsigned 64-bit integers and strings.       *)
(***************************************************************************)
EXTENDS Dehydrator

(* 2^32 divides 2^64: a key of 32 bits survives the stream of 64. *)
ASSUME WidthsNest == LongMod % IntMod = 0

VARIABLES
  image,   \* the save in progress
  disk     \* the last complete one

pvars == <<vars, image, disk>>

(* A save: the type of value on the key; if it is a dehydrator its stream; *)
(* and, for the properties alone, the elements the stream stands for.      *)
Empty == [type |-> "EMPTY", stream |-> <<>>, of |-> <<>>]

NoImage == [type |-> "none"]

----------------------------------------------------------------------------
(* DehydratorTypeRdbSave. *)

(* RedisModule_SaveUnsigned takes a uint64_t. *)
Unsigned(n) == n % LongMod

(* Mutant: the time left is written for the deadline. *)
SaveNode_TimeLeft(a) ==
  <<Unsigned(nodes[a].expiration - clock), nodes[a].element_id, nodes[a].element>>

SaveNode(a) ==
  <<Unsigned(nodes[a].expiration), nodes[a].element_id, nodes[a].element>>

(* The key, kept in an int, the length, and the nodes from the head. *)
SaveQueue(t) ==
  <<Unsigned(ToInt(t)), Len(timeout_queues[t])>> \o
  FlattenSeq([i \in DOMAIN timeout_queues[t] |-> SaveNode(timeout_queues[t][i])])

(* The queues come in the order of their buckets. *)
SaveStream(order) ==
  <<Len(order)>> \o FlattenSeq([i \in DOMAIN order |-> SaveQueue(order[i])])

----------------------------------------------------------------------------
(* DehydratorTypeRdbLoad. *)

NodeWidth == 3

(* Where the k-th queue of a stream begins. *)
QueueStart(stream) ==
  LET start[k \in 1 .. stream[1] + 1] ==
        IF k = 1 THEN 2
        ELSE start[k - 1] + 2 + NodeWidth * stream[start[k - 1] + 1]
  IN  start

(* The nodes of a stream: the i-th of the k-th queue. *)
Slots(stream) ==
  UNION {{k} \X (1 .. stream[QueueStart(stream)[k] + 1]) : k \in 1 .. stream[1]}

LoadKey(stream, k) == ToUint(stream[QueueStart(stream)[k]])

LoadNode(stream, slot) ==
  LET at == QueueStart(stream)[slot[1]] + 2 + NodeWidth * (slot[2] - 1)
  IN  [expiration |-> ToLong(stream[at]),
       element_id |-> stream[at + 1],
       element    |-> stream[at + 2],
       ttl        |-> LoadKey(stream, slot[1])]

(* Mutant: the nodes of a queue are put in at the head. *)
LoadQueue_Reversed(stream, k, place) ==
  Reverse([i \in 1 .. stream[QueueStart(stream)[k] + 1] |-> place[<<k, i>>]])

(* _listPush for each node, at the address the allocator placed it. *)
LoadQueue(stream, k, place) ==
  [i \in 1 .. stream[QueueStart(stream)[k] + 1] |-> place[<<k, i>>]]

(* Mutant: only the first node of a queue is entered in the mapping. *)
LoadMapping_Heads(stream, place) ==
  {<<CStr[LoadNode(stream, slot).element_id], place[slot]>> :
     slot \in {s \in Slots(stream) : s[2] = 1}}

(* What kh_put enters in element_nodes. *)
LoadMapping(stream, place) ==
  {<<CStr[LoadNode(stream, slot).element_id], place[slot]>> :
     slot \in Slots(stream)}

(* A set of pairs as a function; no key occurs twice. *)
AsFunction(pairs) ==
  [key \in {p[1] : p \in pairs} |-> (CHOOSE p \in pairs : p[1] = key)[2]]

RdbLoad(stream) ==
  \E place \in Injection(Slots(stream), Addr) :
    /\ keyType' = "DEHYDRATOR"
    /\ nodes' = AsFunction({<<place[slot], LoadNode(stream, slot)>> :
                              slot \in Slots(stream)})
    /\ timeout_queues' =
         AsFunction({<<LoadKey(stream, k), LoadQueue(stream, k, place)>> :
                       k \in 1 .. stream[1]})
    /\ element_nodes' = AsFunction(LoadMapping(stream, place))

----------------------------------------------------------------------------
(* Redis around the module. *)

(* BGSAVE forks.  Another type of value is saved by other code. *)
Fork ==
  /\ image = NoImage
  /\ \/ /\ keyType = "DEHYDRATOR"
        /\ \E order \in SetToSeqs(DOMAIN timeout_queues) :
             image' = [type |-> keyType, stream |-> SaveStream(order), of |-> Pending]
     \/ /\ keyType # "DEHYDRATOR"
        /\ image' = [Empty EXCEPT !.type = keyType]
  /\ UNCHANGED <<vars, disk>>

Saved ==
  /\ image # NoImage
  /\ disk' = image
  /\ image' = NoImage
  /\ UNCHANGED vars

(* The server dies and starts again from the snapshot. *)
CrashRestart ==
  /\ image' = NoImage
  /\ \/ disk.type = "DEHYDRATOR" /\ RdbLoad(disk.stream)
     \/ /\ disk.type # "DEHYDRATOR"
        /\ keyType' = disk.type
        /\ nodes' = <<>> /\ timeout_queues' = <<>> /\ element_nodes' = <<>>
  /\ replies' = <<>>
  /\ UNCHANGED <<clock, disk>>

PInit == Init /\ image = NoImage /\ disk = Empty

PNext ==
  \/ Next /\ UNCHANGED <<image, disk>>
  \/ Fork \/ Saved \/ CrashRestart

PSpec == PInit /\ [][PNext]_pvars

----------------------------------------------------------------------------
(* Properties.  MapsAgree and QueuesSorted of Dehydrator hold with         *)
(* restarts too: what is loaded is linked, mapped and in order.            *)

(* A restart brings back the elements of the last complete snapshot, with  *)
(* payload, id and deadline as they were when Redis forked, whatever has   *)
(* happened to the memory since; the stream has lost nothing of them.      *)
RestoredAsSaved == [][CrashRestart => Pending' = disk.of]_pvars
============================================================================
