---------------------------- MODULE ElementList ----------------------------
(***************************************************************************)
(* The linked lists of a dehydrator (src/src/module.c 96-316), at the      *)
(* level of their pointers: a node has next and prev, a list has head,     *)
(* tail and len, and timeout_queues finds the list of a timeout.  Memory   *)
(* is explicit: a pointer read from an address that is not allocated is an *)
(* error that TLC reports.                                                 *)
(*                                                                         *)
(* An action is what one command does to the lists: the push of push_impl, *)
(* the pop loop POLL runs on one list, the _listPull of PULL and XACK, and *)
(* deleteDehydrator.                                                       *)
(***************************************************************************)
EXTENDS Integers, FiniteSets, SequencesExt

CONSTANTS
  Addr,    \* node addresses
  Ttl,     \* keys of timeout_queues
  NULL

ASSUME NullAssumption == NULL \notin Addr

VARIABLES
  nodes,   \* the allocated nodes: ttl, next, prev
  lists    \* timeout_queues: head, tail, len of the list of each ttl

listvars == <<nodes, lists>>

----------------------------------------------------------------------------
(* The list functions.  Each returns what it leaves behind: the list and   *)
(* the memory.                                                             *)

createNewNode(t) == [ttl |-> t, next |-> NULL, prev |-> NULL]

createNewList == [head |-> NULL, tail |-> NULL, len |-> 0]

(* Mutant: a node is put in at the head. *)
listPush_AtHead(list, mem, a) ==
  [list |-> [head |-> a,
             tail |-> IF list.tail = NULL THEN a ELSE list.tail,
             len  |-> list.len + 1],
   mem  |-> IF list.head = NULL THEN mem
            ELSE [mem EXCEPT ![a].next = list.head, ![list.head].prev = a]]

listPush(list, mem, a) ==
  [list |-> [head |-> IF list.tail = NULL THEN a ELSE list.head,
             tail |-> a,
             len  |-> list.len + 1],
   mem  |-> IF list.tail = NULL THEN mem
            ELSE [mem EXCEPT ![a].prev = list.tail, ![list.tail].next = a]]

(* Mutant: the new head keeps its pointer to the popped node. *)
listPop_StalePrev(list, mem) ==
  IF list.len = 1
    THEN [list |-> [head |-> NULL, tail |-> NULL, len |-> 0], mem |-> mem]
    ELSE [list |-> [list EXCEPT !.head = mem[list.head].next, !.len = @ - 1],
          mem  |-> mem]

(* The popped node keeps its pointers; its caller frees it. *)
listPop(list, mem) ==
  LET second == mem[list.head].next
  IN  IF list.len = 1
        THEN [list |-> [head |-> NULL, tail |-> NULL, len |-> 0], mem |-> mem]
        ELSE [list |-> [list EXCEPT !.head = second, !.len = @ - 1],
              mem  |-> [mem EXCEPT ![second].prev = NULL]]

(* The two halves of _listPull for a list of two nodes or more: what comes *)
(* before the node is made to skip it, then what comes after.              *)
cutAtHead(list, mem, a) ==
  IF a = list.head
    THEN [list |-> [list EXCEPT !.head = mem[a].next],
          mem  |-> [mem EXCEPT ![mem[a].next].prev = NULL]]
    ELSE [list |-> list,
          mem  |-> [mem EXCEPT ![mem[a].prev].next = mem[a].next]]

cutAtTail(list, mem, a) ==
  IF a = list.tail
    THEN [list |-> [list EXCEPT !.tail = mem[a].prev],
          mem  |-> [mem EXCEPT ![mem[a].prev].next = NULL]]
    ELSE [list |-> list,
          mem  |-> [mem EXCEPT ![mem[a].next].prev = mem[a].prev]]

(* The nodes met by following next from the head, as deleteList and, with  *)
(* _listAt, XPOLL do.                                                      *)
Walk(list, mem) ==
  LET at[k \in 1 .. Cardinality(Addr) + 1] ==
        IF k = 1 THEN list.head
        ELSE IF at[k - 1] = NULL THEN NULL
        ELSE mem[at[k - 1]].next
  IN  [k \in {k \in DOMAIN at : at[k] # NULL} |-> at[k]]

----------------------------------------------------------------------------
Free(mem, as) == Restrict(mem, DOMAIN mem \ as)

SetList(t, list) ==
  lists' = [u \in DOMAIN lists \cup {t} |-> IF u = t THEN list ELSE lists[u]]

(* kh_del and the RedisModule_Free of the list. *)
DropList(t) == lists' = Restrict(lists, DOMAIN lists \ {t})

(* push_impl: find or create the list, make the node, append it. *)
Push(a, t) ==
  /\ a \in Addr \ DOMAIN nodes
  /\ LET list == IF t \in DOMAIN lists THEN lists[t] ELSE createNewList
         mem  == [b \in DOMAIN nodes \cup {a} |->
                    IF b = a THEN createNewNode(t) ELSE nodes[b]]
         done == listPush(list, mem, a)
     IN  nodes' = done.mem /\ SetList(t, done.list)

(* The while loop of POLL on list t when the first n nodes have expired:   *)
(* each is popped and freed, and a list found empty is deleted.            *)
PollList(t, n) ==
  /\ n \in 0 .. lists[t].len
  /\ LET after[k \in 0 .. n] ==
           IF k = 0 THEN [list |-> lists[t], mem |-> nodes]
           ELSE LET before == after[k - 1]
                    popped == listPop(before.list, before.mem)
                IN  [popped EXCEPT !.mem = Free(@, {before.list.head})]
     IN  /\ nodes' = after[n].mem
         /\ IF after[n].list.len = 0 THEN DropList(t) ELSE SetList(t, after[n].list)

(* _listPull, on the list of the node's ttl, and deleteNode.  That there is *)
(* such a list follows from the properties below: `list == NULL` never     *)
(* holds, and TLC would report lists[t] otherwise.                         *)
Pull(a) ==
  LET t == nodes[a].ttl
      first == cutAtHead(lists[t], nodes, a)
      done  == cutAtTail(first.list, first.mem, a)
  IN  \/ /\ lists[t].len = 1
         /\ DropList(t)
         /\ nodes' = Free(nodes, {a})
      \/ /\ lists[t].len # 1
         /\ SetList(t, [done.list EXCEPT !.len = @ - 1])
         /\ nodes' = Free(done.mem, {a})

(* Mutant: the loop ends at the node without a next one. *)
deleteList_ButTail(list, mem) == Range(Walk(list, mem)) \ {list.tail}

(* The nodes the loop of deleteList frees. *)
deleteList(list, mem) == Range(Walk(list, mem))

(* deleteDehydrator: deleteList for every list. *)
DeleteAll ==
  /\ nodes' = Free(nodes, UNION {deleteList(lists[t], nodes) : t \in DOMAIN lists})
  /\ lists' = <<>>

ListInit == nodes = <<>> /\ lists = <<>>

ListNext ==
  \/ \E a \in Addr, t \in Ttl : Push(a, t)
  \/ \E t \in DOMAIN lists : \E n \in 0 .. Cardinality(Addr) : PollList(t, n)
  \/ \E a \in DOMAIN nodes : Pull(a)
  \/ DeleteAll

ListSpec == ListInit /\ [][ListNext]_listvars

----------------------------------------------------------------------------
(* Properties. *)

(* Node and list have the fields of the two C structs, pointing at         *)
(* addresses or NULL.                                                      *)
TypeOK ==
  /\ DOMAIN nodes \subseteq Addr /\ DOMAIN lists \subseteq Ttl
  /\ \A a \in DOMAIN nodes :
       nodes[a] \in [ttl : Ttl, next : Addr \cup {NULL}, prev : Addr \cup {NULL}]
  /\ \A t \in DOMAIN lists :
       lists[t] \in [head : Addr, tail : Addr, len : 1 .. Cardinality(Addr)]

Chain(t) == Walk(lists[t], nodes)

(* A list is the same read forwards and backwards: following next from the *)
(* head meets len nodes of the list's own ttl, each of them once, and ends *)
(* at the tail; prev is the inverse of next.  After any sequence of pushes *)
(* and removals at head, tail and middle.                                  *)
WellLinked ==
  /\ TypeOK
  /\ \A t \in DOMAIN lists :
       LET chain == Chain(t)
       IN  /\ Len(chain) = lists[t].len
           /\ IsInjective(chain)
           /\ Last(chain) = lists[t].tail
           /\ \A i \in DOMAIN chain :
                /\ nodes[chain[i]].ttl = t
                /\ nodes[chain[i]].prev = IF i = 1 THEN NULL ELSE chain[i - 1]

(* No node is allocated that no list leads to: nothing leaks. *)
NoLeak == DOMAIN nodes = UNION {Range(Chain(t)) : t \in DOMAIN lists}

(* The lists behave as the sequences Dehydrator is written with: a push    *)
(* appends, POLL takes from the head in order, PULL and XACK take any node *)
(* and leave the order of the others alone, an empty list is dropped.      *)
TQ == INSTANCE TimeoutQueues WITH queues <- [t \in DOMAIN lists |-> Chain(t)]

ImplementsQueues == TQ!Spec
============================================================================
